------------------------------ MODULE Compiler ------------------------------
(***************************************************************************)
(* The Mini compiler at work (compile_from_folder and invoke in            *)
(* src/src/compile/mod.rs) and a test call of what it makes                *)
(* (src/src/run/mod.rs): files are loaded, imports resolved, modules       *)
(* checked, pruned, inlined and compiled, the programs linked, and the     *)
(* main function run on the emulator.                                      *)
(*                                                                         *)
(* A source is [files, main, builtins]: the files by path, the path of the *)
(* main one and whether the built-in imports are added.  The imports are   *)
(* resolved file by file in the order of a HashMap, which is any order.    *)
(***************************************************************************)
EXTENDS Semantics, Emulator

CONSTANTS Sources, Heuristics

VARIABLES
  source,      \* the source
  heuristic,   \* the inlining heuristic, or Off
  stage,       \* what is done next
  paths,       \* the stack of files to load
  programs,    \* the modules by path
  unresolved,  \* the files whose imports are not resolved
  modules,     \* the checked modules, the main one first
  compiled,    \* the programs, then the linked one alone
  globals,     \* the names of the linked globals
  code,        \* the final code
  machine,     \* the emulator, in a sequence of at most one
  expected     \* what the source means, once it is checked

vars == <<source, heuristic, stage, paths, programs, unresolved, modules, compiled, globals,
          code, machine, expected>>

Init ==
  /\ \E all \in {Sources} : \E i \in DOMAIN all : source = all[i] /\ paths = <<all[i].main>>
  /\ heuristic \in Heuristics /\ stage = "load"
  /\ programs = <<>> /\ unresolved = {} /\ modules = <<>> /\ compiled = <<>>
  /\ globals = <<>> /\ code = <<>> /\ machine = <<>> /\ expected = <<>>

Compiling == <<source, heuristic>>

-----------------------------------------------------------------------------
(* create_program_tree and resolve_imports. *)

\* Mutant: a file that was loaded is loaded again, unless it is a library's.
LoadSeen_again(path) == Library(path) /\ path \in DOMAIN programs

LoadSeen(path) == path \in DOMAIN programs

\* One turn of the loop over the stack of paths.
LoadFile ==
  LET path == Last(paths)
      module == sort_top_level_decls(source.files[path], source.builtins)
  IN /\ stage = "load" /\ paths # <<>>
     /\ IF LoadSeen(path) THEN paths' = Front(paths) /\ UNCHANGED <<stage, programs>>
        ELSE IF path \notin DOMAIN source.files
        THEN stage' = "failed" /\ UNCHANGED <<paths, programs>>
        ELSE /\ paths' = Front(paths)
                           \o [i \in DOMAIN module.imports |-> module.imports[i].path]
             /\ programs' = (path :> module) @@ programs
             /\ UNCHANGED stage
     /\ UNCHANGED <<Compiling, unresolved, modules, compiled, globals, code, machine, expected>>

LoadedAll ==
  /\ stage = "load" /\ paths = <<>>
  /\ stage' = "resolve" /\ unresolved' = DOMAIN programs
  /\ UNCHANGED <<Compiling, paths, programs, modules, compiled, globals, code, machine, expected>>

Resolve(origin) ==
  /\ stage = "resolve"
  /\ programs' = resolve_imports(programs, origin) /\ unresolved' = unresolved \ {origin}
  /\ stage' = IF unresolved' = {} THEN "check" ELSE stage
  /\ UNCHANGED <<Compiling, paths, modules, compiled, globals, code, machine, expected>>

-----------------------------------------------------------------------------
(* The rest of compile_from_folder, and invoke. *)

\* Whether the main function is found pure and no declaration is warned of.
FoundPure(checked) == PurityMismatches(checked) = {} /\ PureFunc(checked[1].checked_funcs[1])

Check ==
  /\ stage = "check"
  /\ \E checked \in {typecheck_programs(programs, source.main)} :
       IF checked = Rejected THEN stage' = "failed" /\ UNCHANGED <<modules, expected>>
       ELSE /\ stage' = "prune" /\ modules' = checked[1]
            /\ expected' = <<Meaning(source.files, source.main) @@ [pure |-> FoundPure(checked[1])]>>
  /\ programs' = <<>>
  /\ UNCHANGED <<Compiling, paths, unresolved, compiled, globals, code, machine>>

Prune ==
  /\ stage = "prune"
  /\ modules' = consume_program_callgraph(modules) /\ stage' = "inline"
  /\ UNCHANGED <<Compiling, paths, programs, unresolved, compiled, globals, code, machine, expected>>

Inline ==
  /\ stage = "inline"
  /\ modules' = [m \in DOMAIN modules |-> TypeCheckedModule_inline(modules[m], heuristic)]
  /\ stage' = "generate"
  /\ UNCHANGED <<Compiling, paths, programs, unresolved, compiled, globals, code, machine, expected>>

Generate ==
  /\ stage = "generate"
  /\ \E progs \in {codegen_programs(modules, FALSE)} :
       IF progs = Rejected THEN stage' = "failed" /\ UNCHANGED compiled
       ELSE stage' = "link" /\ compiled' = progs[1]
  /\ modules' = <<>>
  /\ UNCHANGED <<Compiling, paths, programs, unresolved, globals, code, machine, expected>>

\* More globals than a tuple of tuples can hold with the first one on top.
TooManyGlobals(n) == n >= 58

Link ==
  /\ stage = "link"
  /\ compiled' = <<link(compiled, TRUE)>>
  /\ stage' = IF TooManyGlobals(Len(compiled'[1].globals)) THEN "failed" ELSE "postlink"
  /\ UNCHANGED <<Compiling, paths, programs, unresolved, modules, globals, code, machine, expected>>

\* The linked program becomes a machine at the start of its test call.
Postlink ==
  LET Started(final) == call_state(Machine_new(final, none, new_with_blocknum_timestamp(0, 0)),
                                   Internal(1), <<>>)
  IN /\ stage = "postlink"
     /\ \E final \in {postlink_compile(compiled[1], TRUE)} :
          IF final.ok
          THEN stage' = "run" /\ code' = final.code /\ machine' = <<Started(final.code)>>
          ELSE stage' = "failed" /\ UNCHANGED <<code, machine>>
     /\ globals' = compiled[1].globals /\ compiled' = <<>>
     /\ UNCHANGED <<Compiling, paths, programs, unresolved, modules, expected>>

-----------------------------------------------------------------------------
(* test_call. *)

\* One turn of the loop of the run, which the code point of the caller ends.
Step ==
  /\ stage = "run"
  /\ \E turn \in {run_step(machine[1])} :
       /\ machine' = <<turn.m>>
       /\ stage' = IF turn.res # "ok" \/ turn.m.state = <<"running", StopPc(turn.m)>> THEN "done"
                   ELSE stage
  /\ UNCHANGED <<Compiling, paths, programs, unresolved, modules, compiled, globals, code, expected>>

Next ==
  \/ LoadFile \/ LoadedAll \/ (\E origin \in unresolved : Resolve(origin))
  \/ Check \/ Prune \/ Inline \/ Generate \/ Link \/ Postlink \/ Step

Ended == stage \in {"done", "failed"}

\* Nothing stops the compiler or the emulator but their end.  As a step is
\* possible exactly before the end, this is weak fairness of Next.
Spec == Init /\ [][Next]_vars /\ ([]<>Ended \/ []<><<TRUE>>_vars)

-----------------------------------------------------------------------------
(* Properties.                                                             *)

\* A sample that passes the type checker never applies an operation to a value
\* it is not for, whatever the program computes first.  The samples leave out
\* what is known to get past the checker: a wrong unsafecast, a value of
\* another type put in a fixed array, assigned by a tuple pattern or given as
\* the size of an array, and a bitwise operation on constants used as the
\* bool it is typed as.
CheckedIsSafe == expected # <<>> => expected[1].tag # "stuck"

\* The value of the n-th of the linked globals, from zero.
RECURSIVE LeafOf(_, _, _)
LeafOf(tree, value, n) ==
  IF tree[1] = "single" THEN value
  ELSE LET slot == SlotOf(tree, n)
       IN LeafOf(tree[3][slot], value[2][slot], n - Before(tree, slot))
GlobalValue(n) == LeafOf(TupleTree_new(Len(globals), FALSE), machine[1].register, n)

\* Every global of every file has the value the source gives it: the files
\* share one register, and no write through the tree of tuples it holds
\* touches another global or the jump table.
GlobalsAgree ==
  \A key \in DOMAIN expected[1].s.globals :
    LET own == source.files[key[1]].vars
        name == own[CHOOSE i \in DOMAIN own : own[i].name_id = key[2]].name
        n == CHOOSE i \in DOMAIN globals : globals[i] = name
    IN GlobalValue(n - 1) = Erase(expected[1].s.globals[key])

\* What the compiled program leaves: the value the source has and nothing else
\* on either stack, the globals the source has, and an error exactly where the
\* source panics.  This is about every stage, from the constants folded by the
\* checker to the labels resolved by the linker, and about the values under a
\* result on an early return.  The samples avoid four things that are compiled
\* to something else: a question mark in an argument of an inlined call, a
\* break after an if, a return without a value under values on the stack, and
\* a literal of a tuple wider than the machine's.
ResultAgrees ==
  stage = "done" =>
    LET m == machine[1]
        o == expected[1]
    IN IF Running(m)
       THEN /\ o.tag = "ok" /\ m.aux_stack = <<>>
            /\ m.stack = IF o.v = Unit THEN <<>> ELSE <<Erase(o.v)>>
            /\ GlobalsAgree
       ELSE o.tag = "panic"

\* The names that tuple patterns in the nodes assign, and the globals among them.
RECURSIVE Unpacks(_)
Unpacks(nodes) ==
  LET Names1(node) == IF node.kind # "Let" \/ node.attr[1] # "tuple" THEN {}
                      ELSE {p[2] : p \in {q \in Range(node.attr[2]) : q[1] = "assign"}}
  IN UNION {Names1(nodes[i]) \cup Unpacks(nodes[i].subs) : i \in DOMAIN nodes}
UnpackedGlobals ==
  UNION {LET file == source.files[path]
             names == UNION {Unpacks(file.funcs[f].code) : f \in DOMAIN file.funcs}
         IN {v.name : v \in {w \in Range(file.vars) : w.name_id \in names}} :
           path \in DOMAIN source.files}

\* A program without a purity warning whose main function is found pure leaves
\* every global as the linker made it, except those a tuple pattern assigns:
\* is_pure (typecheck.rs:855) takes a let for as pure as its value, although
\* its pattern may set a global (codegen.rs:743).
PureMeansUnchanged ==
  stage = "done" /\ expected[1].pure /\ Running(machine[1]) =>
    \A n \in 1..(Len(globals) - 1) :
      globals[n] \in UnpackedGlobals \/ GlobalValue(n - 1) = none

\* What the type checker accepts, the code generator and the linker compile.
AcceptedCompiles == stage = "failed" => expected = <<>>

\* Every compilation comes to an end, whatever the files import, and so does
\* every run of a program that means something.
Finishes == <>Ended

=============================================================================

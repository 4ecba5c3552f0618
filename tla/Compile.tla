------------------------------ MODULE Compile -------------------------------
(***************************************************************************)
(* The stages of the compiler between the parser and the linker            *)
(* (src/src/compile/mod.rs, and the top level of typecheck.rs).            *)
(*                                                                         *)
(* A file, as the parser leaves it, is [path, name, strings, uses, funcs,  *)
(* types, vars]: its path, the rank of its name among the names of the     *)
(* files, its string table (the sequence of its names, StringId 0 first),  *)
(* its imports [path, name, id], functions, named types (by StringId) and  *)
(* global variables [name, name_id, tipe].                                 *)
(***************************************************************************)
EXTENDS Codegen, Flow

-----------------------------------------------------------------------------
(* The string table.                                                       *)

get_if_exists(table, name) == {id \in 0..(Len(table) - 1) : table[id + 1] = name}
name_from_id(table, id) == table[id + 1]

StringTable_get(table, name) ==
  IF get_if_exists(table, name) = {} THEN [table |-> Append(table, name), id |-> Len(table)]
  ELSE [table |-> table, id |-> CHOOSE id \in get_if_exists(table, name) : TRUE]

-----------------------------------------------------------------------------
(* Modules.                                                                *)

new_builtin(file, name) == [path |-> <<"core", file>>, name |-> name, id |-> <<>>]
builtin_func_decls ==
  <<new_builtin("array", "builtin_arrayNew"), new_builtin("array", "builtin_arrayGet"),
    new_builtin("array", "builtin_arraySet"), new_builtin("kvs", "builtin_kvsNew"),
    new_builtin("kvs", "builtin_kvsGet"), new_builtin("kvs", "builtin_kvsSet")>>

\* The functions by their names; the last declaration of a name counts.
ByName(funcs, strings) ==
  LET Latest(id) == CHOOSE i \in DOMAIN funcs :
                      /\ funcs[i].name = id
                      /\ \A j \in DOMAIN funcs : funcs[j].name = id => j <= i
      ids == SelectSeq([n \in DOMAIN strings |-> n - 1],
                       LAMBDA id : \E i \in DOMAIN funcs : funcs[i].name = id)
  IN [n \in DOMAIN ids |-> funcs[Latest(ids[n])]]

sort_top_level_decls(file, builtins) ==
  LET funcs == ByName(file.funcs, file.strings)
      own == IF builtins THEN SelectSeq(builtin_func_decls, LAMBDA imp : imp.path # file.path)
             ELSE <<>>
  IN [path |-> file.path, name |-> file.name, string_table |-> file.strings,
      imports |-> own \o file.uses, funcs |-> funcs, named_types |-> file.types,
      global_vars |-> file.vars, imported_funcs |-> <<>>,
      func_table |-> [id \in {funcs[i].name : i \in DOMAIN funcs} |->
                        funcs[CHOOSE i \in DOMAIN funcs : funcs[i].name = id].tipe]]

-----------------------------------------------------------------------------
(* Imports.                                                                *)

\* The module that imports the function.
ImportFunc(module, id, tipe) ==
  [module EXCEPT !.func_table = (id :> tipe) @@ @,
                 !.imported_funcs = Append(@, [name |-> name_from_id(module.string_table, id),
                                               name_id |-> id, slot_num |-> Len(@)])]

\* An import of a module: the name is looked up in the file it comes from, a
\* type before a function, and both string tables learn it.
ResolveImport(programs, origin, import) ==
  LET looked == StringTable_get(programs[import.path].string_table, import.name)
      target == programs[import.path]
      known == [programs EXCEPT ![import.path].string_table = looked.table]
      here == StringTable_get(known[origin].string_table, import.name)
      named == [known EXCEPT ![origin].string_table = here.table]
  IN IF looked.id \in DOMAIN target.named_types
     THEN [named EXCEPT ![origin].named_types = (here.id :> target.named_types[looked.id]) @@ @]
     ELSE IF looked.id \in DOMAIN target.func_table
     THEN [named EXCEPT ![origin] = ImportFunc(@, here.id, target.func_table[looked.id])]
     ELSE named

\* The imports of one module, in order.
resolve_imports(programs, origin) ==
  FoldHalves(LAMBDA acc, import : ResolveImport(acc, origin, import), programs,
             programs[origin].imports)

\* A nominal type is known by the file that names it and its StringId there.
create_type_tree(programs) ==
  [key \in UNION {{<<path, id>> : id \in DOMAIN programs[path].named_types} :
                    path \in DOMAIN programs} |-> programs[key[1]].named_types[key[2]]]

-----------------------------------------------------------------------------
(* Checking.                                                               *)

\* The variable with the fixed location goes first.
FixedFirst(vars) ==
  LET fixed == {i \in DOMAIN vars : vars[i].name = "__fixedLocationGlobal"}
      at == CHOOSE i \in fixed : \A j \in fixed : i <= j
  IN IF fixed = {} THEN vars ELSE [vars EXCEPT ![1] = vars[at], ![at] = vars[1]]

GlobalIndex(vars, id) ==
  CHOOSE i \in DOMAIN vars :
    vars[i].name_id = id /\ \A j \in DOMAIN vars : vars[j].name_id = id => j <= i

\* The module checked, as a result.
typecheck_top_level_decls(module, tree) ==
  LET vars == FixedFirst(module.global_vars)
      ids == {vars[i].name_id : i \in DOMAIN vars}
      imported == UNION {get_if_exists(module.string_table, module.imports[i].name) :
                           i \in DOMAIN module.imports}
      env == [type_table |-> module.named_types,
              global_vars |-> [id \in ids |-> <<vars[GlobalIndex(vars, id)].tipe,
                                                GlobalIndex(vars, id) - 1>>],
              func_table |-> module.func_table, return_type |-> VoidT, type_tree |-> tree,
              undefinable_ids |-> imported, scopes |-> FALSE]
      public == SelectSeq(module.funcs, LAMBDA f : f.public)
      Checked(funcs) ==
        [path |-> module.path, name |-> module.name, string_table |-> module.string_table,
         imports |-> module.imports, imported_funcs |-> module.imported_funcs,
         global_vars |-> vars, checked_funcs |-> funcs,
         exported_funcs |-> [i \in DOMAIN public |->
                               [name |-> name_from_id(module.string_table, public[i].name),
                                label |-> <<"func", public[i].name>>]]]
  IN Then(CheckedFuncs(module.funcs, env), LAMBDA funcs : <<Checked(funcs)>>)

\* The modules checked, the main one first and the others from the last name
\* to the first.
typecheck_programs(programs, main) ==
  LET tree == create_type_tree(programs)
      others == SetToSortSeq(DOMAIN programs \ {main},
                             LAMBDA p, q : programs[p].name > programs[q].name)
      paths == <<main>> \o others
  IN Eager([i \in DOMAIN paths |-> typecheck_top_level_decls(programs[paths[i]], tree)],
           LAMBDA checked : IF \E i \in DOMAIN checked : checked[i] = Rejected THEN Rejected
                            ELSE <<[i \in DOMAIN checked |-> checked[i][1]]>>)

\* The functions whose declared purity is not the one found.
PurityMismatches(modules) ==
  UNION {{<<modules[i].path, modules[i].checked_funcs[k].name>> :
            k \in {j \in DOMAIN modules[i].checked_funcs :
                     LET f == modules[i].checked_funcs[j] IN PureFunc(f) = f.tipe[2]}} :
           i \in DOMAIN modules}

-----------------------------------------------------------------------------
(* Pruning.                                                                *)

Library(path) == path[1] \in {"core", "std"}

\* Mutant: calls are not followed into other files.
CallsOf_inside(modules, m, func) ==
  {<<m, id>> : id \in determine_funcs_used(func.code)}

\* The calls of a function as pairs of a module and a StringId in it; an
\* import from a library is left out, one of a built-in is not seen as one.
CallsOf(modules, m, func) ==
  LET imports == modules[m].imports
      Imports(id) == {i \in DOMAIN imports : imports[i].id = <<id>>}
      Import(id) == imports[CHOOSE i \in Imports(id) : \A j \in Imports(id) : j <= i]
      Target(imp) == CHOOSE n \in DOMAIN modules : modules[n].path = imp.path
      used == determine_funcs_used(func.code)
  IN {<<m, id>> : id \in {u \in used : Imports(u) = {}}}
       \cup UNION {{<<Target(Import(id)), other>> :
                      other \in get_if_exists(modules[Target(Import(id))].string_table,
                                              Import(id).name)} :
                     id \in {u \in used : Imports(u) # {} /\ ~Library(Import(u).path)}}

\* What is reached from the functions given, in files that are no libraries.
RECURSIVE callgraph_descend(_, _)
callgraph_descend(modules, reached) ==
  LET Funcs(r) == {i \in DOMAIN modules[r[1]].checked_funcs :
                     modules[r[1]].checked_funcs[i].name = r[2]}
      next == reached
                \cup UNION {UNION {CallsOf(modules, r[1], modules[r[1]].checked_funcs[i]) :
                                     i \in Funcs(r)} :
                              r \in {s \in reached : ~Library(modules[s[1]].path)}}
  IN IF next = reached THEN reached ELSE callgraph_descend(modules, next)

\* The function of the lowest StringId in the first module is the main one.
consume_program_callgraph(modules) ==
  LET reached == callgraph_descend(modules, {<<1, modules[1].checked_funcs[1].name>>})
      Kept(m) == SelectSeq(modules[m].checked_funcs, LAMBDA f : <<m, f.name>> \in reached)
  IN IF Library(modules[1].path) THEN modules
     ELSE [m \in DOMAIN modules |->
             IF Library(modules[m].path) THEN modules[m]
             ELSE [modules[m] EXCEPT !.checked_funcs = Kept(m)]]

-----------------------------------------------------------------------------
(* Code.                                                                   *)

\* A heuristic is given or not.
TypeCheckedModule_inline(module, heuristic) ==
  IF heuristic = "Off" THEN module
  ELSE [module EXCEPT !.checked_funcs =
          [i \in DOMAIN @ |-> TypeCheckedFunc_inline(@[i], module.checked_funcs, heuristic)]]

Builtins == {"builtin_assert"} \cup {builtin_func_decls[i].name : i \in DOMAIN builtin_func_decls}

ModuleCode(module, release_build) ==
  LET vars == module.global_vars
      known == {name \in Builtins : get_if_exists(module.string_table, name) # {}}
  IN mavm_codegen(module.checked_funcs, module.imported_funcs,
       [id \in {vars[i].name_id : i \in DOMAIN vars} |-> GlobalIndex(vars, id) - 1],
       [name \in known |-> CHOOSE id \in get_if_exists(module.string_table, name) : TRUE],
       release_build)

\* The programs of the modules, as a result.
codegen_programs(modules, release_build) ==
  LET Program(module, code) ==
        [code |-> code, exports |-> module.exported_funcs, imports |-> module.imported_funcs,
         globals |-> [v \in DOMAIN module.global_vars |-> module.global_vars[v].name]]
  IN Eager([i \in DOMAIN modules |-> ModuleCode(modules[i], release_build)],
           LAMBDA out : IF \E i \in DOMAIN out : ~out[i].ok THEN Rejected
                        ELSE <<[i \in DOMAIN out |-> Program(modules[i], out[i].code)]>>)

=============================================================================

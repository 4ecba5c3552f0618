-------------------------------- MODULE Host --------------------------------
(***************************************************************************)
(* A host that drives the emulator as the integration tests, the EVM tests *)
(* and the replay of a test log do (src/src/run).  It inserts messages     *)
(* between runs, lets the machine run until it blocks, halts or fails, and *)
(* runs it again.  A run is not interrupted: the host is not interleaved   *)
(* with Machine::run, but messages arrive between any two runs.            *)
(***************************************************************************)
EXTENDS Emulator, FiniteSets

CONSTANTS
  Programs,     \* the programs the machine may be loaded with
  Senders,      \* addresses messages come from
  MaxMessages,  \* bound on the messages the host inserts
  MaxSteps      \* bound on the instructions a machine executes

VARIABLES
  machine,      \* the Machine
  mode,         \* "fed" before a run, "run" in Machine::run, "ran" after it
  steps         \* turns of the loop of Machine::run so far

vars == <<machine, mode, steps>>

Program == machine.code[1]
Uses(op) == \E i \in DOMAIN Program : Program[i].op = op

Loaded(program, env) == start_at_zero(Machine_new(program, none, env))

Init ==
  /\ \E program \in Programs :
       machine = Loaded(program, new_with_blocknum_timestamp(1, 1))
  /\ mode = "fed"
  /\ steps = 0

\* Between runs, and only while there is a machine to read the message.
Feed(env) ==
  /\ mode # "run" /\ Running(machine)
  /\ Len(machine.runtime_env.recorder.inbox) <= MaxMessages
  /\ machine' = [machine EXCEPT !.runtime_env = env]
  /\ mode' = "fed"
  /\ UNCHANGED steps

Insert(sender) ==
  Feed(insert_l2_message(machine.runtime_env, sender, <<1, sender>>, FALSE).env)

AdvanceTime == Feed(_advance_time(machine.runtime_env, 1, TRUE))

Run ==
  /\ mode # "run" /\ Running(machine)
  /\ mode' = "run"
  /\ UNCHANGED <<machine, steps>>

Step ==
  /\ mode = "run" /\ steps < MaxSteps
  /\ \E r \in {run_step(machine)} :
       /\ machine' = r.m
       /\ mode' = IF r.res = "ok" /\ Running(r.m) THEN "run" ELSE "ran"
  /\ steps' = steps + 1

\* The machine may stop, and the bound may stop it.
Next ==
  \/ \E sender \in Senders : Insert(sender)
  \/ AdvanceTime
  \/ Run
  \/ Step

Spec == Init /\ [][Next]_vars

-----------------------------------------------------------------------------
(* A replay of what was recorded. *)

\* Machine::run without a host, for at most fuel instructions.
RECURSIVE RunOut(_, _)
RunOut(m, fuel) ==
  IF fuel = 0 \/ ~Running(m) THEN m
  ELSE Given(run_step(m), LAMBDA r : IF r.res = "ok" THEN RunOut(r.m, fuel - 1) ELSE r.m)

\* The machine that replay_and_compare leaves.
Replayed ==
  RunOut(Loaded(Program, insert_full_inbox_contents(new_with_blocknum_timestamp(1, 1),
                                                    machine.runtime_env.recorder.inbox)),
         MaxSteps)

-----------------------------------------------------------------------------
(* Properties. *)

\* Replaying a recorded test log reproduces the logs and the sends, however
\* the messages were spread over runs that blocked on an empty inbox
\* (RtEnvRecorder::replay_and_compare compares them with require_same_gas).
\* A Breakpoint ends a replay early, and a blocked InboxPeek with an immediate
\* leaves a value behind: no program here uses those.
ReplayReproduces ==
  mode = "ran" =>
    \A again \in {Replayed.runtime_env.recorder} :
      /\ again.logs = machine.runtime_env.recorder.logs
      /\ again.sends = machine.runtime_env.recorder.sends

\* An instruction that fails, caught by the error code point or not, has
\* taken operands off the stacks and done nothing else: no half-made log,
\* send, register, code or inbox change (Machine::run_one).
FailureOnlyConsumes ==
  LET insn == get_insn(machine.code, machine.state[2])
      imm == IF insn = <<>> THEN <<>> ELSE insn[1].imm
  IN mode = "run" /\ run_one_dont_catch_errors(machine).res = "err" =>
       /\ IsSuffix(machine'.stack, imm \o machine.stack)
       /\ IsSuffix(machine'.aux_stack, machine.aux_stack)
       /\ \A field \in {"register", "static_val", "err_codepoint", "code", "runtime_env"} :
            machine'[field] = machine[field]

FailuresOnlyConsume == [][FailureOnlyConsumes]_vars

\* A run that ends on an empty inbox leaves the machine as it was before the
\* instruction it is blocked on, which the next run executes again.
BlockedUnchanged ==
  (mode = "run" /\ mode' = "ran" /\ Running(machine') /\ ~Uses("Breakpoint"))
    => machine' = machine

\* Code points keep their meaning: code made at run time is only ever added
\* at the end of a segment (CodeStore::push_insn, CodeStore::create_segment).
CodeOnlyGrows ==
  \A s \in DOMAIN machine.code :
    /\ s \in DOMAIN machine'.code
    /\ IsPrefix(machine.code[s], machine'.code[s])

\* What a host may count on when it takes up a machine again: a run that ended
\* for want of a message has changed nothing by the instruction it waits on,
\* its gas included, and no code point means something else than before
\* (Machine::run, CodeStore).
RunsResume == [][BlockedUnchanged /\ CodeOnlyGrows]_vars

=============================================================================

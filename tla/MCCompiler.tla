---------------------------- MODULE MCCompiler ------------------------------
(***************************************************************************)
(* Instances of Compiler on the sources of Samples.                        *)
(***************************************************************************)
EXTENDS Compiler, Samples

\* Stand-ins for hashes and curves that keep results in range.
MCKeccak256(words) == FoldLeft(LAMBDA acc, w : (3 * acc + w + 7) % 65536, 1, words)
MCDigest(name, words) == FoldLeft(LAMBDA acc, w : (5 * acc + w + 3) % 65536, 2, words)
MCCurve(name, words) == IF words # <<>> /\ words[1] = 1 THEN <<>> ELSE <<3, 4>>

\* The negation of an integer that is not known to the compiler.
MCMinus == <<MainOf(IntT, <<Let(1, I(2)), Ret(Un("Minus", V(1)))>>)>>

MCSources ==
  OperatorPrograms \o ControlPrograms \o DataPrograms \o FunctionPrograms \o FilePrograms
    \o ArrayPrograms \o WrongOperands \o WrongData \o WrongCalls \o PurityPrograms
=============================================================================

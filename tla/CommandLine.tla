---------------------------- MODULE CommandLine ----------------------------
(***************************************************************************)
(* The option loop of src/compiler/src/main.cpp: from the arguments to a   *)
(* CompilerOptions, or to an exit without a compilation.                   *)
(***************************************************************************)
EXTENDS Naturals, Sequences, SequencesExt

CONSTANTS Joined,    \* the arguments that begin with -o, with the rest of each
          Dashed     \* the arguments that begin with a dash

Flags == {"--emit-tokens", "--emit-ir", "--emit-opt-ir", "--emit-asm", "--no-link", "--no-assemble"}
Levels == [arg \in {"-O0", "-O1", "-O2"} |-> IF arg = "-O0" THEN 0 ELSE 1]

(* CompilerOptions, with the flags that are set. *)
DefaultOptions == [output |-> "a.out", flags |-> {}, level |-> 1]

(* The loop: the options so far, the positional arguments, whether the next *)
(* argument is the value of -o, and how main() ends early.                  *)
Begin == [opts |-> DefaultOptions, files |-> <<>>, value |-> FALSE, exit |-> "no"]

Consider(st, arg) ==
    CASE st.exit # "no"         -> st
      [] st.value               -> [st EXCEPT !.opts.output = arg, !.value = FALSE]
      [] arg \in {"-h", "--help"} -> [st EXCEPT !.exit = "success"]
      [] arg = "-o"             -> [st EXCEPT !.value = TRUE]
      [] arg \in DOMAIN Joined  -> [st EXCEPT !.opts.output = Joined[arg]]
      [] arg \in Flags          -> [st EXCEPT !.opts.flags = @ \cup {arg}]
      [] arg \in DOMAIN Levels  -> [st EXCEPT !.opts.level = Levels[arg]]
      [] arg \in Dashed         -> [st EXCEPT !.exit = "failure"]
      [] OTHER                  -> [st EXCEPT !.files = Append(@, arg)]

(* main() up to the call of compile(): `exit` is "no" when it is reached.   *)
Parse(args) ==
    LET st == FoldLeft(Consider, Begin, args)
    IN  IF st.exit = "no" /\ (args = <<>> \/ st.value \/ Len(st.files) # 1)
        THEN [st EXCEPT !.exit = "failure"] ELSE st
=============================================================================

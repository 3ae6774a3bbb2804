------------------------------- MODULE Driver -------------------------------
(***************************************************************************)
(* src/compiler/src/main.cpp and compile() of                              *)
(* src/compiler/src/driver/driver.cpp: several runs of the compiler on one *)
(* file system, each step a file operation or a subprocess.  A file that   *)
(* is opened for writing is emptied at once and filled when it is closed;  *)
(* one that is removed meanwhile is filled without a name.                 *)
(*                                                                         *)
(* nasm and ld are external: what they make of what they find is all that  *)
(* is said of them.                                                        *)
(***************************************************************************)
EXTENDS CommandLine, FiniteSets, TLC

CONSTANTS
    Runs,          \* the runs of the compiler
    CommandLines,  \* what they may be called with by a careful user
    Crowd,         \* ... and by one who is not
    PathOf,        \* the directory, stem and extension of a path argument
    Sources,       \* the source files by path argument: "good", "wrong" (a
                   \* phase reports errors), "no_main" or "not_for_nasm"
    Writable,      \* the directories a file can be created in
    MaxKills       \* bound: runs killed from outside

(* Two source files are at two paths. *)
ASSUME SourcesAssumption == \A s, t \in DOMAIN Sources : PathOf[s] = PathOf[t] => s = t

VARIABLES
    fs,       \* what is at each path that exists
    at,       \* where each run is
    opts,     \* its CompilerOptions, with the input path
    source,   \* `source`, the content of the input file when it was read
    handle,   \* who created the file it has open for writing
    kills,
    careful   \* whether whoever calls the compiler waits for a run to end
              \* before calling another one in its directory, leaves no
              \* disk to fill up and names no output like an intermediate

vars == <<fs, at, opts, source, handle, kills, careful>>

(* A file: what it holds, of which source, and which run created it. *)
File(what, of, by) == [what |-> what, of |-> of, by |-> by]
Missing == File("missing", "none", "none")
Content(path) == IF path \in DOMAIN fs THEN fs[path] ELSE Missing
Exists(path)  == path \in DOMAIN fs
Put(path, f)  == [q \in DOMAIN fs \cup {path} |-> IF q = path THEN f ELSE fs[q]]
Without(path) == [q \in DOMAIN fs \ {path} |-> fs[q]]

Output(p)    == PathOf[opts[p].output]
Beside(p, stem, ext) == [dir |-> Output(p).dir, stem |-> stem, ext |-> ext]

(* Mutants: the assembly gets the extension of a source; the object has no  *)
(* extension; one name for every object.                                    *)
AsmPathLikeSource(p) == Beside(p, Output(p).stem, ".ric")
ObjPathBare(p)       == Output(p)
ObjPathShared(p)     == Beside(p, "_ric_program", ".o")

AsmPath(p)   == Beside(p, Output(p).stem, ".asm")
ObjPath(p)   == Beside(p, Output(p).stem, ".o")

(* Mutant: the runtime is named after the output. *)
RtAsmPathOwn(p) == AsmPath(p)

RtAsmPath(p) == Beside(p, "_ric_runtime", ".asm")
RtObjPath(p) == Beside(p, "_ric_runtime", ".o")
Flag(p, f)   == f \in opts[p].flags

Endings == {"succeeded", "failed", "help", "killed"}
Active(p) == at[p] \notin {"start"} \cup Endings
Goes(p, from, to) == at[p] = from /\ at' = [at EXCEPT ![p] = to]
Same == UNCHANGED <<opts, source, kills, careful>>

Init ==
    /\ fs = [path \in {PathOf[s] : s \in DOMAIN Sources} |->
                File("source", CHOOSE s \in DOMAIN Sources : PathOf[s] = path, "user")]
    /\ at = [p \in Runs |-> "start"]
    /\ opts = [p \in Runs |-> DefaultOptions @@ [input |-> "none"]]
    /\ source = [p \in Runs |-> Missing]
    /\ handle = [p \in Runs |-> "none"]
    /\ kills = 0
    /\ careful \in BOOLEAN

-----------------------------------------------------------------------------
(* The caution of whoever calls the compiler: no other run is at work in    *)
(* the directory of the output, whose name is none of an intermediate's.    *)
Cautious(output) ==
    /\ \A q \in Runs : Active(q) => Output(q).dir # output.dir
    /\ output.ext \notin {".asm", ".o"} /\ output.stem # "_ric_runtime"

(* main(): the command line is read, and the input file has to exist. *)
Start(p, args) ==
    LET st  == Parse(args)
        run == st.opts @@ [input |-> IF st.files = <<>> THEN "none" ELSE st.files[1]]
    IN  /\ careful => Cautious(PathOf[run.output])
        /\ opts' = [opts EXCEPT ![p] = run]
        /\ Goes(p, "start",
                CASE st.exit = "success" -> "help"
                  [] st.exit = "failure" -> "failed"
                  [] OTHER -> IF Exists(PathOf[run.input]) THEN "read" ELSE "failed")
        /\ UNCHANGED <<fs, source, handle, kills, careful>>

(* read_file(), which main() knew to exist. *)
Reading(p) ==
    /\ Goes(p, "read", IF Exists(PathOf[opts[p].input]) THEN "phases" ELSE "failed")
    /\ source' = [source EXCEPT ![p] = Content(PathOf[opts[p].input])]
    /\ UNCHANGED <<fs, opts, handle, kills, careful>>

(* Lexing, parsing, analysis, lowering and optimization happen in memory.   *)
Accepted(p) == source[p].what = "source" /\ Sources[source[p].of] # "wrong"
Phases(p) ==
    /\ Goes(p, "phases", IF Accepted(p) THEN "open_asm" ELSE "failed")
    /\ UNCHANGED <<fs, handle>> /\ Same

(* An ofstream: the file is created or emptied. *)
Open(p, path) ==
    IF path.dir \in Writable
    THEN /\ handle' = [handle EXCEPT ![p] = IF Exists(path) THEN Content(path).by ELSE p]
         /\ fs' = Put(path, File("empty", "none", handle'[p]))
    ELSE UNCHANGED <<fs, handle>>

(* ... and closed: nobody looks whether all was written.  What somebody     *)
(* else wrote meanwhile may show through.                                   *)
Close(p, path, what, of) ==
    LET old  == Content(path)
        full == File(what, of, old.by)
        cut  == File("cut", "none", old.by)
    IN  IF ~Exists(path) \/ old.by # handle[p] THEN UNCHANGED fs
        ELSE \/ fs' = Put(path, full)
             \/ /\ ~careful \/ old \notin {full, File("empty", "none", old.by)}
                /\ fs' = Put(path, cut)

OpenAsm(p) ==
    /\ Goes(p, "open_asm", IF AsmPath(p).dir \in Writable THEN "write_asm" ELSE "failed")
    /\ Open(p, AsmPath(p)) /\ Same
WriteAsm(p) ==
    /\ Goes(p, "write_asm", IF Flag(p, "--no-assemble") THEN "succeeded" ELSE "open_runtime")
    /\ Close(p, AsmPath(p), "asm", source[p].of)
    /\ UNCHANGED handle /\ Same

OpenRuntime(p) ==
    Goes(p, "open_runtime", "write_runtime") /\ Open(p, RtAsmPath(p)) /\ Same
WriteRuntime(p) ==
    /\ Goes(p, "write_runtime", "nasm")
    /\ Close(p, RtAsmPath(p), "start_code", "none")
    /\ UNCHANGED handle /\ Same

-----------------------------------------------------------------------------
(* nasm: what it may make of what it reads, "fails" included.  An empty     *)
(* file assembles to an object without symbols.                             *)
Assembled(f) ==
    CASE f.what = "asm"        -> {IF Sources[f.of] = "not_for_nasm" THEN "fails" ELSE "object"}
      [] f.what = "start_code" -> {"start_object"}
      [] f.what = "empty"      -> {"empty_object"}
      [] f.what = "cut"        -> {"cut_object", "fails"}
      [] OTHER                 -> {"fails"}

(* A tool that fails may have removed the file it was to write. *)
ToolFails(p, path) == fs' \in {fs, Without(path)}
Made(p, path) == IF Exists(path) THEN Content(path).by ELSE p

Assemble(p, from, to, here, next) ==
    \E o \in Assembled(Content(from)) :
        /\ IF o = "fails" THEN ToolFails(p, to) /\ Goes(p, here, "failed")
           ELSE fs' = Put(to, File(o, Content(from).of, Made(p, to))) /\ Goes(p, here, next)
        /\ UNCHANGED handle /\ Same

Nasm(p)   == Assemble(p, AsmPath(p), ObjPath(p), "nasm", "nasm_runtime")
NasmRt(p) == Assemble(p, RtAsmPath(p), RtObjPath(p), "nasm_runtime",
                      IF Flag(p, "--no-link") THEN "succeeded" ELSE "ld")

(* ld: what it may make of a program and a runtime object.  Without _start  *)
(* it warns and links all the same.                                         *)
Linked(prog, rt) ==
    CASE prog.what = "object" /\ rt.what = "start_object" ->
           {IF Sources[prog.of] = "no_main" THEN "fails" ELSE "executable"}
      [] prog.what = "object" /\ rt.what \in {"empty_object", "cut_object"} -> {"no_entry"}
      [] prog.what = "cut_object" /\ rt.what = "start_object" -> {"cut_executable", "fails"}
      [] OTHER -> {"fails"}

Ld(p) ==
    LET prog == ObjPath(p)
        rt   == RtObjPath(p)
        can  == IF prog = rt \/ Output(p) \in {prog, rt} THEN {"fails"}
                ELSE Linked(Content(prog), Content(rt))
    IN  \E o \in can :
            /\ IF o = "fails" THEN ToolFails(p, Output(p)) /\ Goes(p, "ld", "failed")
               ELSE /\ fs' = Put(Output(p), File(o, Content(prog).of, Made(p, Output(p))))
                    /\ Goes(p, "ld", "remove_1")
            /\ UNCHANGED handle /\ Same

(* filesystem::remove does not mind a file that is not there. *)
Unlink(p, path, here, next) ==
    Goes(p, here, next) /\ fs' = Without(path) /\ UNCHANGED handle /\ Same

RemoveRtAsm(p) == Unlink(p, RtAsmPath(p), "remove_1", "remove_2")
(* Mutant: the test of --emit-asm is the wrong way round. *)
RemoveRtObjSwapped(p) == Unlink(p, RtObjPath(p), "remove_2",
                                IF Flag(p, "--emit-asm") THEN "remove_3" ELSE "remove_4")

RemoveRtObj(p) == Unlink(p, RtObjPath(p), "remove_2",
                         IF Flag(p, "--emit-asm") THEN "remove_4" ELSE "remove_3")
RemoveAsm(p)   == Unlink(p, AsmPath(p), "remove_3", "remove_4")
RemoveObj(p)   == Unlink(p, ObjPath(p), "remove_4", "succeeded")

(* The process is killed. *)
Kill(p) ==
    /\ Active(p) /\ kills < MaxKills
    /\ at' = [at EXCEPT ![p] = "killed"]
    /\ kills' = kills + 1
    /\ UNCHANGED <<fs, opts, source, handle, careful>>

Step(p) == \/ \E args \in IF careful THEN CommandLines ELSE Crowd : Start(p, args)
           \/ Reading(p) \/ Phases(p) \/ OpenAsm(p) \/ WriteAsm(p) \/ OpenRuntime(p)
           \/ WriteRuntime(p) \/ Nasm(p) \/ NasmRt(p) \/ Ld(p)
           \/ RemoveRtAsm(p) \/ RemoveRtObj(p) \/ RemoveAsm(p) \/ RemoveObj(p)

Next == \E p \in Runs : Step(p) \/ Kill(p)

Spec == Init /\ [][Next]_vars

-----------------------------------------------------------------------------
(* main.cpp:19-25: what a run that reports success has left behind, called  *)
(* with care, is what its options asked for, made of its own source: the    *)
(* executable, with --no-link the objects, with --no-assemble the assembly. *)
Asked(p) ==
    IF Flag(p, "--no-assemble") THEN {<<AsmPath(p), "asm">>}
    ELSE IF Flag(p, "--no-link") THEN {<<ObjPath(p), "object">>, <<RtObjPath(p), "start_object">>}
    ELSE {<<Output(p), "executable">>}
Delivered(p) ==
    \A a \in Asked(p) : /\ Content(a[1]).what = a[2]
                        /\ a[2] # "start_object" => Content(a[1]).of = source[p].of
DeliversWhatWasAsked ==
    [][careful => \A p \in Runs : at[p] # "succeeded" /\ at'[p] = "succeeded" => Delivered(p)']_vars

(* A run on a good source with a directory it can write to, called with     *)
(* care, succeeds, whatever killed or failed runs left in that directory.   *)
MustSucceed(p) == /\ source[p].what = "source" /\ Sources[source[p].of] = "good"
                  /\ Output(p).dir \in Writable
GoodSourceCompiles == careful => \A p \in Runs : MustSucceed(p) => at[p] # "failed"

(* The last four steps remove every intermediate file of a run called with  *)
(* care, also those an earlier one left under the same names.               *)
Intermediates(p) == {RtAsmPath(p), RtObjPath(p), ObjPath(p)}
                    \cup (IF Flag(p, "--emit-asm") THEN {} ELSE {AsmPath(p)})
LeavesNothingElse ==
    [][careful => \A p \in Runs : at[p] = "remove_4" /\ at'[p] = "succeeded" =>
         \A path \in Intermediates(p) : path \notin DOMAIN fs']_vars

(* Whatever else happens in a directory, with several compilations at once  *)
(* and on a full disk: as long as no two runs are given outputs of the same *)
(* stem, an executable that is found at a path was made of a source which   *)
(* somebody asked to have compiled to that path.                            *)
Started(p) == at[p] # "start"
DistinctStems ==
    \A p, q \in Runs : p # q /\ Started(p) /\ Started(q) =>
        <<Output(p).dir, Output(p).stem>> # <<Output(q).dir, Output(q).stem>>
NoForeignExecutable ==
    careful \/ DistinctStems =>
        \A path \in DOMAIN fs :
            fs[path].what = "executable" =>
                \E p \in Runs : Output(p) = path /\ source[p].of = fs[path].of

(* Whatever the runs are called with and however many of them there are: a  *)
(* source file keeps its content unless somebody names it as an output or   *)
(* gives it the name of an intermediate of one.                             *)
Claimed(p) == {Output(p)} \cup {Beside(p, stem, ext) : stem \in {Output(p).stem, "_ric_runtime"},
                                                      ext \in {".asm", ".o"}}
SourcesKept ==
    \A s \in DOMAIN Sources :
        (\A p \in Runs : Started(p) => PathOf[s] \notin Claimed(p)) =>
            Content(PathOf[s]) = File("source", s, "user")
=============================================================================

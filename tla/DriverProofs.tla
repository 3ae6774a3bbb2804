---------------------------- MODULE DriverProofs ----------------------------
(***************************************************************************)
(* What holds of any number of runs of the compiler on one file system,    *)
(* whatever they are called with and whatever the sources are.             *)
(*                                                                         *)
(* The inductive invariant says, of a run that nothing disturbs, what is   *)
(* in each of its files at each of its stages.                             *)
(***************************************************************************)
EXTENDS Driver, TLAPS

Typed == DOMAIN at = Runs /\ DOMAIN opts = Runs /\ DOMAIN source = Runs /\ DOMAIN handle = Runs

Unread == \A p \in Runs : at[p] \in {"start", "read", "help"} => source[p] = Missing

(* The care of the caller: active runs have directories of their own, and   *)
(* no output has the name of an intermediate.                               *)
CareTaken == careful => \A p \in Runs : Active(p) =>
    /\ \A q \in Runs : q # p /\ Active(q) => Output(q).dir # Output(p).dir
    /\ Output(p).ext \notin {".asm", ".o"} /\ Output(p).stem # "_ric_runtime"

(* Nobody else writes the assembly or the object of such a run. *)
Alone(p) == \/ careful
            \/ DistinctStems /\ Output(p).stem # "_ric_runtime"

OwnAsm(p) == Content(AsmPath(p)).what = "asm" => Content(AsmPath(p)).of = source[p].of
OwnObj(p) == Content(ObjPath(p)).what = "object" => Content(ObjPath(p)).of = source[p].of
OwnFiles == \A p \in Runs : Alone(p) =>
    /\ at[p] \in {"write_asm", "open_runtime", "write_runtime", "nasm"} => OwnAsm(p)
    /\ at[p] \in {"nasm_runtime", "ld"} => OwnObj(p)

(* The executables there are. *)
Asker(p, path) == Output(p) = path /\ source[p].of = fs[path].of /\ at[p] \notin {"start", "read"}
OwnExecutables == careful \/ DistinctStems =>
    \A path \in DOMAIN fs : fs[path].what = "executable" => \E p \in Runs : Asker(p, path)

(* What a run called with care finds at each of its stages. *)
AfterAsm == {"open_runtime", "write_runtime", "nasm", "nasm_runtime", "ld"}
Removing == {"remove_1", "remove_2", "remove_3", "remove_4"}
Holds(path, what, of) == Content(path).what = what /\ Content(path).of = of
Stages(p) ==
    /\ at[p] \in {"write_asm"} \cup AfterAsm => Output(p).dir \in Writable
    /\ at[p] = "write_asm" => Content(AsmPath(p)) = File("empty", "none", handle[p])
    /\ at[p] \in {"open_runtime", "write_runtime", "nasm"} => Holds(AsmPath(p), "asm", source[p].of)
    /\ at[p] = "write_runtime" => Content(RtAsmPath(p)) = File("empty", "none", handle[p])
    /\ at[p] \in {"nasm", "nasm_runtime"} => Content(RtAsmPath(p)).what = "start_code"
    /\ at[p] \in {"nasm_runtime", "ld"} => Holds(ObjPath(p), "object", source[p].of)
    /\ at[p] = "ld" => Content(RtObjPath(p)).what = "start_object"
    /\ at[p] \in Removing => Holds(Output(p), "executable", source[p].of)
    /\ at[p] \in {"remove_2", "remove_3", "remove_4"} => ~Exists(RtAsmPath(p))
    /\ at[p] \in {"remove_3", "remove_4"} => ~Exists(RtObjPath(p))
    /\ at[p] = "remove_4" => Flag(p, "--emit-asm") \/ ~Exists(AsmPath(p))
    /\ at[p] \in AfterAsm \cup Removing => ~Flag(p, "--no-assemble")
    /\ at[p] \in {"ld"} \cup Removing => ~Flag(p, "--no-link")
Progress == careful => \A p \in Runs : Stages(p)

DInv == /\ Typed /\ Unread /\ CareTaken /\ OwnFiles /\ OwnExecutables
        /\ Progress /\ GoodSourceCompiles /\ SourcesKept

-----------------------------------------------------------------------------
(* What a step does to the file system: it fills, empties or removes one of *)
(* the five files of the run, and before the run has begun it does nothing. *)
Files(p) == {AsmPath(p), ObjPath(p), RtAsmPath(p), RtObjPath(p), Output(p)}
Writes(p) == \/ fs' = fs
             \/ \E path \in Files(p) : fs' = Without(path) \/ \E f : fs' = Put(path, f)

LEMMA Fields ==
    ASSUME NEW what, NEW of, NEW by
    PROVE  File(what, of, by).what = what /\ File(what, of, by).of = of /\ File(what, of, by).by = by
BY DEF File

LEMMA Putting ==
    ASSUME NEW path, NEW f, fs' = Put(path, f), NEW q
    PROVE  /\ Content(q)' = IF q = path THEN f ELSE Content(q)
           /\ Exists(q)' <=> q = path \/ Exists(q)
           /\ q \in DOMAIN fs => fs'[q] = IF q = path THEN f ELSE fs[q]
BY DEF Put, Content, Exists, Missing

LEMMA Unlinking ==
    ASSUME NEW path, fs' = Without(path), NEW q
    PROVE  /\ Content(q)' = IF q = path THEN Missing ELSE Content(q)
           /\ Exists(q)' <=> q # path /\ Exists(q)
           /\ q \in DOMAIN fs /\ q # path => fs'[q] = fs[q]
BY DEF Without, Content, Exists, Missing

LEMMA StepWrites ==
    ASSUME NEW p \in Runs, Step(p) \/ Kill(p)
    PROVE  Writes(p) /\ (at[p] = "start" => fs' = fs)
<1>1. ASSUME NEW args, Start(p, args) PROVE fs' = fs
  BY <1>1 DEF Start
<1>2. CASE Reading(p) \/ Phases(p) \/ Kill(p)
  BY <1>2 DEF Reading, Phases, Kill, Writes
<1>3. CASE OpenAsm(p) \/ OpenRuntime(p)
  BY <1>3 DEF OpenAsm, OpenRuntime, Open, Writes, Files, Goes
<1>4. CASE WriteAsm(p) \/ WriteRuntime(p)
  BY <1>4 DEF WriteAsm, WriteRuntime, Close, Writes, Files, Goes
<1>5. CASE Nasm(p) \/ NasmRt(p)
  BY <1>5 DEF Nasm, NasmRt, Assemble, ToolFails, Writes, Files, Goes
<1>6. CASE Ld(p)
  BY <1>6 DEF Ld, ToolFails, Writes, Files, Goes
<1>7. CASE RemoveRtAsm(p) \/ RemoveRtObj(p) \/ RemoveAsm(p) \/ RemoveObj(p)
  BY <1>7 DEF RemoveRtAsm, RemoveRtObj, RemoveAsm, RemoveObj, Unlink, Writes, Files, Goes
<1>q. QED BY <1>1, <1>2, <1>3, <1>4, <1>5, <1>6, <1>7 DEF Step, Writes

LEMMA Untouched ==
    ASSUME NEW p \in Runs, Writes(p), NEW path, path \notin Files(p)
    PROVE  /\ Content(path)' = Content(path) /\ (Exists(path)' <=> Exists(path))
           /\ path \in DOMAIN fs => fs'[path] = fs[path]
<1>1. CASE fs' = fs
  BY <1>1 DEF Content, Exists
<1>2. ASSUME NEW q \in Files(p), fs' = Without(q) PROVE path # q
  OBVIOUS
<1>3. ASSUME NEW q \in Files(p), NEW f, fs' = Put(q, f) PROVE path # q
  OBVIOUS
<1>q. QED BY <1>1, <1>2, <1>3, Putting, Unlinking DEF Writes

(* A step changes the variables of its own run alone, and the options of a  *)
(* run that has begun stay what they are.                                   *)
Own(p) ==
    /\ \A q \in Runs : q # p => /\ at'[q] = at[q] /\ opts'[q] = opts[q]
                               /\ source'[q] = source[q] /\ handle'[q] = handle[q]
    /\ at[p] # "start" => opts'[p] = opts[p]
    /\ at[p] # "read" => source'[p] = source[p]
    /\ at[p] \notin {"succeeded", "failed", "help", "killed"}
    /\ at'[p] # "start"
    /\ at'[p] = "read" => at[p] = "start"
    /\ careful' = careful

LEMMA StepOwn ==
    ASSUME Typed, NEW p \in Runs, Step(p) \/ Kill(p)
    PROVE  Own(p) /\ Typed'
<1>1. ASSUME NEW args, Start(p, args) PROVE Own(p) /\ Typed'
  BY <1>1 DEF Start, Goes, Typed, Own
<1>2. CASE Reading(p) \/ Phases(p)
  BY <1>2 DEF Reading, Phases, Goes, Same, Typed, Own
<1>3. CASE OpenAsm(p) \/ OpenRuntime(p)
  BY <1>3 DEF OpenAsm, OpenRuntime, Open, Goes, Same, Typed, Own
<1>4. CASE WriteAsm(p) \/ WriteRuntime(p)
  BY <1>4 DEF WriteAsm, WriteRuntime, Goes, Same, Typed, Own
<1>5. CASE Nasm(p) \/ NasmRt(p)
  BY <1>5 DEF Nasm, NasmRt, Assemble, Goes, Same, Typed, Own
<1>6. CASE Ld(p)
  BY <1>6 DEF Ld, Goes, Same, Typed, Own
<1>7. CASE RemoveRtAsm(p) \/ RemoveRtObj(p) \/ RemoveAsm(p) \/ RemoveObj(p)
  BY <1>7 DEF RemoveRtAsm, RemoveRtObj, RemoveAsm, RemoveObj, Unlink, Goes, Same, Typed, Own
<1>8. CASE Kill(p)
  BY <1>8 DEF Kill, Active, Endings, Typed, Own
<1>q. QED BY <1>1, <1>2, <1>3, <1>4, <1>5, <1>6, <1>7, <1>8 DEF Step

(* What is named of a run depends on its options alone. *)
LEMMA SameNames ==
    ASSUME NEW p \in Runs, opts'[p] = opts[p]
    PROVE  /\ Output(p)' = Output(p) /\ AsmPath(p)' = AsmPath(p) /\ ObjPath(p)' = ObjPath(p)
           /\ RtAsmPath(p)' = RtAsmPath(p) /\ RtObjPath(p)' = RtObjPath(p)
           /\ Claimed(p)' = Claimed(p) /\ \A f : Flag(p, f)' = Flag(p, f)
BY DEF Output, AsmPath, ObjPath, RtAsmPath, RtObjPath, Beside, Claimed, Flag

(* The files of two runs with outputs in two directories are not the same,  *)
(* nor those of one run whose output has the name of no intermediate.       *)
LEMMA Apart ==
    ASSUME NEW p \in Runs, NEW q \in Runs, Output(q).dir # Output(p).dir
    PROVE  Files(p) \cap Files(q) = {}
BY DEF Files, AsmPath, ObjPath, RtAsmPath, RtObjPath, Beside

Proper(p) == Output(p).ext \notin {".asm", ".o"} /\ Output(p).stem # "_ric_runtime"
LEMMA Distinct ==
    ASSUME NEW p \in Runs, Proper(p)
    PROVE  /\ AsmPath(p) # ObjPath(p) /\ AsmPath(p) # RtAsmPath(p) /\ AsmPath(p) # RtObjPath(p)
           /\ ObjPath(p) # RtAsmPath(p) /\ ObjPath(p) # RtObjPath(p) /\ RtAsmPath(p) # RtObjPath(p)
           /\ Output(p) \notin {AsmPath(p), ObjPath(p), RtAsmPath(p), RtObjPath(p)}
BY DEF Proper, AsmPath, ObjPath, RtAsmPath, RtObjPath, Beside

(* Nobody else touches the assembly or the object of a run that is alone.   *)
LEMMA AloneApart ==
    ASSUME NEW p \in Runs, NEW q \in Runs, p # q, ~careful, Alone(p), Started(p), Started(q)
    PROVE  AsmPath(p) \notin Files(q) /\ ObjPath(p) \notin Files(q)
BY DEF Alone, DistinctStems, Files, AsmPath, ObjPath, RtAsmPath, RtObjPath, Beside

-----------------------------------------------------------------------------
(* The parts of the invariant, one by one, over a step of one run.          *)
LEMMA SourcesStayKept ==
    ASSUME NEW p \in Runs, Own(p), Writes(p), at[p] = "start" => fs' = fs, SourcesKept
    PROVE  SourcesKept'
<1> SUFFICES ASSUME NEW s \in DOMAIN Sources,
                    \A q \in Runs : Started(q)' => PathOf[s] \notin Claimed(q)'
             PROVE  Content(PathOf[s])' = File("source", s, "user")
  BY DEF SourcesKept, File
<1>1. ASSUME NEW q \in Runs, Started(q) PROVE Started(q)' /\ Claimed(q)' = Claimed(q)
  BY <1>1, SameNames DEF Own, Started
<1>2. Content(PathOf[s]) = File("source", s, "user")
  BY <1>1 DEF SourcesKept
<1>3. CASE at[p] = "start"
  BY <1>2, <1>3 DEF Content
<1>4. CASE Started(p)
  <2>1. PathOf[s] \notin Claimed(p)
    BY <1>1, <1>4
  <2>2. PathOf[s] \notin Files(p)
    BY <2>1 DEF Files, Claimed, AsmPath, ObjPath, RtAsmPath, RtObjPath
  <2>q. QED BY <1>2, <2>2, Untouched
<1>q. QED BY <1>3, <1>4 DEF Started

LEMMA UnreadStays ==
    ASSUME Typed, NEW p \in Runs, Step(p) \/ Kill(p), Own(p), Unread
    PROVE  Unread'
<1>1. ASSUME NEW args, Start(p, args) PROVE source' = source /\ at[p] = "start"
  BY <1>1 DEF Start, Goes
<1>2. CASE Step(p) /\ at[p] # "start"
  <2>1. at'[p] \notin {"start", "read", "help"}
    BY <1>2, <1>1 DEF Step, Reading, Phases, OpenAsm, WriteAsm, OpenRuntime, WriteRuntime, Nasm,
       NasmRt, Assemble, Ld, RemoveRtAsm, RemoveRtObj, RemoveAsm, RemoveObj, Unlink, Goes, Typed
  <2>q. QED BY <2>1 DEF Own, Unread, Missing, File
<1>3. CASE Step(p) /\ at[p] = "start"
  BY <1>3 DEF Own, Unread, Missing, File
<1>4. CASE Kill(p)
  BY <1>4 DEF Kill, Own, Unread, Missing, File, Typed
<1>q. QED BY <1>2, <1>3, <1>4

LEMMA CareStays ==
    ASSUME Typed, NEW p \in Runs, Step(p) \/ Kill(p), Own(p), CareTaken
    PROVE  CareTaken'
<1> SUFFICES ASSUME careful PROVE CareTaken'
  BY DEF CareTaken, Own
<1>1. ASSUME NEW q \in Runs, Active(q)', ~Active(q)
      PROVE  q = p /\ \E args : Start(p, args)
  BY <1>1 DEF Active, Endings, Own, Step, Reading, Phases, OpenAsm, WriteAsm, OpenRuntime, WriteRuntime,
     Nasm, NasmRt, Assemble, Ld, RemoveRtAsm, RemoveRtObj, RemoveAsm, RemoveObj, Unlink, Goes, Kill
<1>2. CASE Active(p)
  <2>1. \A q \in Runs : Active(q)' => Active(q)
    BY <1>1, <1>2
  <2>2. \A q \in Runs : Active(q) => Output(q)' = Output(q)
    BY SameNames DEF Own, Active
  <2>q. QED BY <2>1, <2>2 DEF CareTaken, Own
<1>3. CASE ~Active(p)
  <2>1. PICK args : Start(p, args)
    BY <1>3 DEF Step, Active, Endings, Reading, Phases, OpenAsm, WriteAsm, OpenRuntime, WriteRuntime,
       Nasm, NasmRt, Assemble, Ld, RemoveRtAsm, RemoveRtObj, RemoveAsm, RemoveObj, Unlink, Goes, Kill
  <2>2. Cautious(Output(p)')
    BY <2>1 DEF Start, Output, Typed
  <2>3. \A q \in Runs : q # p => Output(q)' = Output(q) /\ (Active(q)' <=> Active(q))
    BY SameNames DEF Own, Active
  <2>q. QED BY <2>2, <2>3 DEF CareTaken, Cautious, Own
<1>q. QED BY <1>2, <1>3

LEMMA DistinctBefore ==
    ASSUME NEW p \in Runs, Own(p), DistinctStems'
    PROVE  DistinctStems
<1>1. ASSUME NEW q \in Runs, Started(q) PROVE Started(q)' /\ Output(q)' = Output(q)
  BY <1>1, SameNames DEF Own, Started
<1>q. QED BY <1>1 DEF DistinctStems

LEMMA AloneBefore ==
    ASSUME NEW p \in Runs, Own(p), NEW q \in Runs, Started(q), Alone(q)'
    PROVE  Alone(q)
<1>1. Output(q)' = Output(q)
  BY SameNames DEF Own, Started
<1>q. QED BY <1>1, DistinctBefore DEF Alone, Own

LEMMA OthersKeepOut ==
    ASSUME careful, NEW p \in Runs, Own(p), Writes(p), at[p] = "start" => fs' = fs, CareTaken,
           NEW q \in Runs, q # p, Active(q), NEW path \in Files(q)
    PROVE  Content(path)' = Content(path) /\ (Exists(path)' <=> Exists(path))
<1>1. CASE at[p] = "start"
  BY <1>1 DEF Content, Exists
<1>2. CASE at[p] # "start"
  <2>1. Files(p) \cap Files(q) = {}
    BY <1>2, Apart DEF CareTaken, Active, Endings, Own
  <2>q. QED BY <2>1, Untouched
<1>q. QED BY <1>1, <1>2

LEMMA OthersFiles ==
    ASSUME NEW p \in Runs, Own(p), Writes(p), at[p] = "start" => fs' = fs, CareTaken,
           NEW q \in Runs, q # p, Active(q), Alone(q)
    PROVE  /\ Content(AsmPath(q))' = Content(AsmPath(q))
           /\ Content(ObjPath(q))' = Content(ObjPath(q))
<1>1. AsmPath(q)' = AsmPath(q) /\ ObjPath(q)' = ObjPath(q)
  BY SameNames DEF Own
<1>2. CASE at[p] = "start"
  BY <1>1, <1>2 DEF Content
<1>3. CASE careful
  BY <1>1, <1>3, OthersKeepOut DEF Files
<1>4. CASE Started(p) /\ ~careful
  <2>1. AsmPath(q) \notin Files(p) /\ ObjPath(q) \notin Files(p)
    BY <1>4, AloneApart DEF Active, Started
  <2>q. QED BY <1>1, <2>1, Untouched
<1>q. QED BY <1>2, <1>3, <1>4 DEF Started

(* Over a step of the run itself. *)
LEMMA OwnFilesOfTheRun ==
    ASSUME Typed, NEW p \in Runs, Step(p) \/ Kill(p), Own(p), CareTaken, OwnFiles, Alone(p)'
    PROVE  /\ at'[p] \in {"write_asm", "open_runtime", "write_runtime", "nasm"} => OwnAsm(p)'
           /\ at'[p] \in {"nasm_runtime", "ld"} => OwnObj(p)'
<1>1. ASSUME NEW args, Start(p, args)
      PROVE  at'[p] \in {"help", "failed", "read"}
  BY <1>1 DEF Start, Goes, Typed
<1>2. CASE Reading(p) \/ Phases(p) \/ Kill(p)
  BY <1>2 DEF Reading, Phases, Kill, Goes, Typed
<1>3. CASE Ld(p) \/ RemoveRtAsm(p) \/ RemoveRtObj(p) \/ RemoveAsm(p) \/ RemoveObj(p)
  BY <1>3 DEF Ld, RemoveRtAsm, RemoveRtObj, RemoveAsm, RemoveObj, Unlink, Goes, Typed
<1> DEFINE InMemory == \/ OpenAsm(p) \/ WriteAsm(p) \/ OpenRuntime(p) \/ WriteRuntime(p)
                       \/ Nasm(p) \/ NasmRt(p)
<1>4. CASE InMemory
  <2>1. at[p] \in {"open_asm", "write_asm", "open_runtime", "write_runtime", "nasm", "nasm_runtime"}
    BY <1>4 DEF OpenAsm, WriteAsm, OpenRuntime, WriteRuntime, Nasm, NasmRt, Assemble, Goes
  <2>2. Alone(p) /\ Active(p) /\ opts'[p] = opts[p] /\ source'[p] = source[p]
    BY <2>1, AloneBefore DEF Started, Active, Endings, Own
  <2>3. /\ AsmPath(p)' = AsmPath(p) /\ ObjPath(p)' = ObjPath(p)
    BY <2>2, SameNames
  <2>4. Output(p).stem # "_ric_runtime"
    BY <2>2 DEF Alone, CareTaken
  <2>5. /\ AsmPath(p) # RtAsmPath(p) /\ ObjPath(p) # RtAsmPath(p)
        /\ AsmPath(p) # RtObjPath(p) /\ ObjPath(p) # RtObjPath(p) /\ AsmPath(p) # ObjPath(p)
    BY <2>4 DEF AsmPath, ObjPath, RtAsmPath, RtObjPath, Beside
  <2> HIDE DEF InMemory
  <2>6. CASE OpenAsm(p)
    <3>1. CASE AsmPath(p).dir \in Writable
      <4>1. fs' = Put(AsmPath(p), File("empty", "none", handle'[p]))
        BY <2>6, <3>1 DEF OpenAsm, Open
      <4>2. Content(AsmPath(p))' = File("empty", "none", handle'[p])
        BY <4>1, <2>3, Putting
      <4>3. OwnAsm(p)'
        BY <4>2, Fields DEF OwnAsm
      <4>q. QED BY <4>3, <2>6, <3>1 DEF OpenAsm, Goes, Typed
    <3>q. QED BY <2>6, <3>1 DEF OpenAsm, Goes, Typed
  <2>7. CASE WriteAsm(p)
    <3>1. OwnAsm(p)
      BY <2>2, <2>7 DEF WriteAsm, Goes, OwnFiles
    <3>2. \/ fs' = fs
          \/ \E by : fs' = Put(AsmPath(p), File("asm", source[p].of, by))
          \/ \E by : fs' = Put(AsmPath(p), File("cut", "none", by))
      BY <2>7 DEF WriteAsm, Close
    <3>3. OwnAsm(p)'
      <4>1. CASE fs' = fs
        BY <4>1, <3>1, <2>2, <2>3 DEF OwnAsm, Content
      <4>2. ASSUME NEW by, fs' = Put(AsmPath(p), File("asm", source[p].of, by)) PROVE OwnAsm(p)'
        BY <4>2, <2>2, <2>3, Putting, Fields DEF OwnAsm
      <4>3. ASSUME NEW by, fs' = Put(AsmPath(p), File("cut", "none", by)) PROVE OwnAsm(p)'
        BY <4>3, <2>3, Putting, Fields DEF OwnAsm
      <4>q. QED BY <3>2, <4>1, <4>2, <4>3
    <3>q. QED BY <3>3, <2>7 DEF WriteAsm, Goes, Typed
  <2>8. CASE OpenRuntime(p) \/ WriteRuntime(p)
    <3>1. OwnAsm(p)
      BY <2>2, <2>8 DEF OpenRuntime, WriteRuntime, Goes, OwnFiles
    <3>2. fs' = fs \/ \E f : fs' = Put(RtAsmPath(p), f)
      BY <2>8 DEF OpenRuntime, WriteRuntime, Open, Close
    <3>3. Content(AsmPath(p))' = Content(AsmPath(p))
      <4>1. CASE fs' = fs
        BY <4>1, <2>3 DEF Content
      <4>q. QED BY <3>2, <4>1, <2>3, <2>5, Putting
    <3>q. QED BY <3>1, <3>3, <2>2, <2>8 DEF OpenRuntime, WriteRuntime, Goes, OwnAsm, Typed
  <2>9. CASE Nasm(p)
    <3>1. OwnAsm(p)
      BY <2>2, <2>9 DEF Nasm, Assemble, Goes, OwnFiles
    <3>2. PICK o \in Assembled(Content(AsmPath(p))) :
             IF o = "fails" THEN at'[p] = "failed"
             ELSE \E by : fs' = Put(ObjPath(p), File(o, Content(AsmPath(p)).of, by))
      BY <2>9 DEF Nasm, Assemble, Goes, Typed
    <3>3. o = "object" => Content(AsmPath(p)).what = "asm"
      BY DEF Assembled
    <3>4. ASSUME o # "fails" PROVE OwnObj(p)'
      <4>1. PICK by : fs' = Put(ObjPath(p), File(o, Content(AsmPath(p)).of, by))
        BY <3>2, <3>4
      <4>2. Content(ObjPath(p))' = File(o, Content(AsmPath(p)).of, by)
        BY <4>1, <2>3, Putting
      <4>q. QED BY <4>2, <3>1, <3>3, <2>2, Fields DEF OwnObj, OwnAsm
    <3>q. QED BY <3>2, <3>4, <2>9 DEF Nasm, Assemble, Goes, Typed
  <2>10. CASE NasmRt(p)
    <3>1. OwnObj(p)
      BY <2>2, <2>10 DEF NasmRt, Assemble, Goes, OwnFiles
    <3>2. at'[p] = "failed" \/ \E f : fs' = Put(RtObjPath(p), f)
      BY <2>10 DEF NasmRt, Assemble, Goes, Typed
    <3>3. at'[p] = "failed" \/ Content(ObjPath(p))' = Content(ObjPath(p))
      BY <3>2, <2>3, <2>5, Putting
    <3>q. QED BY <3>1, <3>3, <2>2, <2>10 DEF NasmRt, Assemble, Goes, OwnObj, Typed
  <2>q. QED BY <1>4, <2>6, <2>7, <2>8, <2>9, <2>10 DEF InMemory
<1>q. QED BY <1>1, <1>2, <1>3, <1>4 DEF Step

LEMMA OwnFilesStay ==
    ASSUME Typed, NEW p \in Runs, Step(p) \/ Kill(p), Own(p), CareTaken, OwnFiles
    PROVE  OwnFiles'
<1> SUFFICES ASSUME NEW q \in Runs, Alone(q)'
             PROVE  /\ at'[q] \in {"write_asm", "open_runtime", "write_runtime", "nasm"} => OwnAsm(q)'
                    /\ at'[q] \in {"nasm_runtime", "ld"} => OwnObj(q)'
  BY DEF OwnFiles
<1>1. CASE q = p
  BY <1>1, OwnFilesOfTheRun
<1>2. CASE q # p /\ Active(q)
  <2>1. at'[q] = at[q] /\ source'[q] = source[q] /\ Alone(q)
    BY <1>2, AloneBefore DEF Own, Active, Started
  <2>2. /\ Content(AsmPath(q))' = Content(AsmPath(q))
        /\ Content(ObjPath(q))' = Content(ObjPath(q))
    BY <1>2, <2>1, StepWrites, OthersFiles
  <2>q. QED BY <2>1, <2>2 DEF OwnFiles, OwnAsm, OwnObj
<1>3. CASE q # p /\ ~Active(q)
  BY <1>3 DEF Own, Active, Endings
<1>q. QED BY <1>1, <1>2, <1>3

(* Only ld makes an executable, of an object of the program. *)
Links(p) == /\ at[p] = "ld" /\ AsmPath(p) # RtAsmPath(p) /\ Content(ObjPath(p)).what = "object"
            /\ \E by : fs' = Put(Output(p), File("executable", Content(ObjPath(p)).of, by))
NoNewExecutable ==
    \A path \in DOMAIN fs' : fs'[path].what = "executable" =>
        path \in DOMAIN fs /\ fs'[path] = fs[path]

LEMMA PutOther ==
    ASSUME NEW path, NEW f, fs' = Put(path, f), f.what # "executable"
    PROVE  NoNewExecutable
BY DEF Put, NoNewExecutable

LEMMA WithoutOther ==
    ASSUME NEW path, fs' = Without(path)
    PROVE  NoNewExecutable
BY DEF Without, NoNewExecutable

LEMMA OnlyLdLinks ==
    ASSUME NEW p \in Runs, Step(p) \/ Kill(p)
    PROVE  NoNewExecutable \/ Links(p)
<1>1. CASE fs' = fs
  BY <1>1 DEF NoNewExecutable
<1>2. ASSUME NEW args, Start(p, args) PROVE fs' = fs
  BY <1>2 DEF Start
<1>3. CASE Reading(p) \/ Phases(p) \/ Kill(p)
  BY <1>1, <1>3 DEF Reading, Phases, Kill
<1>4. CASE OpenAsm(p) \/ OpenRuntime(p)
  <2>1. fs' = fs \/ \E path, by : fs' = Put(path, File("empty", "none", by))
    BY <1>4 DEF OpenAsm, OpenRuntime, Open
  <2>q. QED BY <1>1, <2>1, PutOther, Fields
<1>5. CASE WriteAsm(p) \/ WriteRuntime(p)
  <2>1. \/ fs' = fs
        \/ \E path, of, by, what : /\ what \in {"asm", "start_code", "cut"}
                                  /\ fs' = Put(path, File(what, of, by))
    BY <1>5 DEF WriteAsm, WriteRuntime, Close
  <2>q. QED BY <1>1, <2>1, PutOther, Fields
<1>6. CASE Nasm(p) \/ NasmRt(p)
  <2>1. \A f : "executable" \notin Assembled(f)
    BY DEF Assembled
  <2>2. \/ fs' = fs
        \/ \E path : fs' = Without(path)
        \/ \E path, of, by, what : what # "executable" /\ fs' = Put(path, File(what, of, by))
    BY <1>6, <2>1 DEF Nasm, NasmRt, Assemble, ToolFails
  <2>q. QED BY <1>1, <2>2, PutOther, WithoutOther, Fields
<1>7. CASE Ld(p)
  <2> DEFINE prog == ObjPath(p)
             rt   == RtObjPath(p)
             can  == IF prog = rt \/ Output(p) \in {prog, rt} THEN {"fails"}
                     ELSE Linked(Content(prog), Content(rt))
  <2>1. PICK o \in can : IF o = "fails" THEN ToolFails(p, Output(p))
                         ELSE \E by : fs' = Put(Output(p), File(o, Content(prog).of, by))
    BY <1>7 DEF Ld
  <2>2. CASE o = "fails"
    BY <1>1, <2>1, <2>2, WithoutOther DEF ToolFails
  <2>3. CASE o = "executable"
    <3>1. prog # rt /\ Content(prog).what = "object"
      BY <2>3 DEF Linked
    <3>2. AsmPath(p) # RtAsmPath(p)
      BY <3>1 DEF ObjPath, RtObjPath, AsmPath, RtAsmPath, Beside
    <3>q. QED BY <1>7, <2>1, <2>3, <3>1, <3>2 DEF Links, Ld, Goes
  <2>4. CASE o \notin {"fails", "executable"}
    BY <2>1, <2>4, PutOther, Fields
  <2>q. QED BY <2>2, <2>3, <2>4
<1>8. CASE RemoveRtAsm(p) \/ RemoveRtObj(p) \/ RemoveAsm(p) \/ RemoveObj(p)
  BY <1>8, WithoutOther DEF RemoveRtAsm, RemoveRtObj, RemoveAsm, RemoveObj, Unlink
<1>q. QED BY <1>1, <1>2, <1>3, <1>4, <1>5, <1>6, <1>7, <1>8 DEF Step

LEMMA ExecutablesStayOwn ==
    ASSUME NEW p \in Runs, Step(p) \/ Kill(p), Own(p), OwnFiles, OwnExecutables
    PROVE  OwnExecutables'
<1> SUFFICES ASSUME (careful \/ DistinctStems)', NEW path \in DOMAIN fs',
                    fs'[path].what = "executable"
             PROVE  \E q \in Runs : Asker(q, path)'
  BY DEF OwnExecutables
<1>1. careful \/ DistinctStems
  BY DistinctBefore DEF Own
<1>2. CASE path \in DOMAIN fs /\ fs'[path] = fs[path]
  <2>1. PICK q \in Runs : Asker(q, path)
    BY <1>1, <1>2 DEF OwnExecutables
  <2>2. Output(q)' = Output(q)
    BY <2>1, SameNames DEF Own, Asker
  <2>q. QED BY <1>2, <2>1, <2>2 DEF Asker, Own
<1>3. CASE Links(p) /\ ~(path \in DOMAIN fs /\ fs'[path] = fs[path])
  <2>1. PICK by : fs' = Put(Output(p), File("executable", Content(ObjPath(p)).of, by))
    BY <1>3 DEF Links
  <2>2. path = Output(p) /\ fs'[path] = File("executable", Content(ObjPath(p)).of, by)
    BY <1>3, <2>1 DEF Put
  <2>3. Alone(p)
    BY <1>1, <1>3 DEF Links, Alone, AsmPath, RtAsmPath
  <2>4. Content(ObjPath(p)).of = source[p].of
    BY <1>3, <2>3 DEF Links, OwnFiles, OwnObj
  <2>5. Output(p)' = Output(p) /\ source'[p] = source[p] /\ at'[p] \notin {"start", "read"}
    BY <1>3, SameNames DEF Own, Links
  <2>q. QED BY <2>2, <2>4, <2>5, Fields DEF Asker
<1>q. QED BY <1>2, <1>3, OnlyLdLinks DEF NoNewExecutable

-----------------------------------------------------------------------------
(* What a run called with care finds at its stages, over a step of its own. *)
LEMMA StagesBegin ==
    ASSUME Typed, NEW p \in Runs, NEW args, Start(p, args) \/ Reading(p) \/ Phases(p) \/ Kill(p)
    PROVE  Stages(p)'
<1>1. at'[p] \in {"help", "failed", "read", "phases", "open_asm", "killed"}
  BY DEF Start, Reading, Phases, Kill, Goes, Typed
<1>q. QED BY <1>1 DEF Stages, AfterAsm, Removing

Settled(p) ==
    /\ opts'[p] = opts[p] /\ source'[p] = source[p] /\ Output(p)' = Output(p)
    /\ AsmPath(p)' = AsmPath(p) /\ ObjPath(p)' = ObjPath(p)
    /\ RtAsmPath(p)' = RtAsmPath(p) /\ RtObjPath(p)' = RtObjPath(p)
    /\ \A f : Flag(p, f)' = Flag(p, f)
    /\ Proper(p)

LEMMA Settling ==
    ASSUME NEW p \in Runs, Own(p), careful, CareTaken, at[p] \notin {"start", "read"}
    PROVE  Settled(p)
BY SameNames DEF Settled, Own, CareTaken, Active, Endings, Proper

LEMMA StagesOpenAsm ==
    ASSUME Typed, NEW p \in Runs, OpenAsm(p), Settled(p), Stages(p)
    PROVE  Stages(p)'
<1>1. CASE AsmPath(p).dir \in Writable
  <2>1. at'[p] = "write_asm" /\ fs' = Put(AsmPath(p), File("empty", "none", handle'[p]))
    BY <1>1 DEF OpenAsm, Open, Goes, Typed
  <2>2. Content(AsmPath(p))' = File("empty", "none", handle'[p])
    BY <2>1, Putting DEF Settled
  <2>3. Output(p)'.dir \in Writable
    BY <1>1 DEF AsmPath, Beside, Settled
  <2>q. QED BY <2>1, <2>2, <2>3 DEF Stages, AfterAsm, Removing
<1>2. CASE AsmPath(p).dir \notin Writable
  <2>1. at'[p] = "failed"
    BY <1>2 DEF OpenAsm, Goes, Typed
  <2>q. QED BY <2>1 DEF Stages, AfterAsm, Removing
<1>q. QED BY <1>1, <1>2

(* With a caller who takes care, the disk holds what is written.            *)
LEMMA Closing ==
    ASSUME careful, NEW p \in Runs, NEW path, NEW what, NEW of, what # "empty",
           Content(path) = File("empty", "none", handle[p]), Close(p, path, what, of)
    PROVE  Content(path)'.what = what /\ Content(path)'.of = of /\ \E f : fs' = Put(path, f)
<1>1. Exists(path) /\ Content(path).by = handle[p]
  BY Fields DEF Content, Missing, Exists
<1>2. fs' = Put(path, File(what, of, handle[p]))
  BY <1>1 DEF Close
<1>q. QED BY <1>2, Putting, Fields

LEMMA WrittenAsm ==
    ASSUME Typed, careful, NEW p \in Runs, WriteAsm(p), Settled(p), Stages(p)
    PROVE  Holds(AsmPath(p), "asm", source[p].of)' /\ Output(p)'.dir \in Writable
<1>1. Content(AsmPath(p)) = File("empty", "none", handle[p]) /\ Output(p).dir \in Writable
  BY DEF WriteAsm, Goes, Stages
<1>2. Close(p, AsmPath(p), "asm", source[p].of)
  BY DEF WriteAsm
<1>3. /\ Content(AsmPath(p))'.what = "asm" /\ Content(AsmPath(p))'.of = source[p].of
  BY <1>1, <1>2, Closing DEF Settled
<1>q. QED BY <1>1, <1>3 DEF Holds, Settled

LEMMA StagesWriteAsm ==
    ASSUME Typed, careful, NEW p \in Runs, WriteAsm(p), Settled(p), Stages(p)
    PROVE  Stages(p)'
<1>1. at'[p] = IF Flag(p, "--no-assemble") THEN "succeeded" ELSE "open_runtime"
  BY DEF WriteAsm, Goes, Typed
<1>q. QED BY <1>1, WrittenAsm DEF Stages, AfterAsm, Removing, Settled

LEMMA StagesOpenRuntime ==
    ASSUME Typed, NEW p \in Runs, OpenRuntime(p), Settled(p), Stages(p)
    PROVE  Stages(p)'
<1>1. /\ Output(p).dir \in Writable /\ Holds(AsmPath(p), "asm", source[p].of)
      /\ ~Flag(p, "--no-assemble") /\ at'[p] = "write_runtime"
  BY DEF OpenRuntime, Goes, Stages, AfterAsm, Typed
<1>2. fs' = Put(RtAsmPath(p), File("empty", "none", handle'[p]))
  BY <1>1 DEF OpenRuntime, Open, RtAsmPath, Beside
<1>3. /\ Content(RtAsmPath(p))' = File("empty", "none", handle'[p])
      /\ Content(AsmPath(p))' = Content(AsmPath(p))
  BY <1>2, Putting, Distinct DEF Settled
<1>q. QED BY <1>1, <1>3 DEF Stages, AfterAsm, Removing, Settled, Holds

LEMMA StagesWriteRuntime ==
    ASSUME Typed, careful, NEW p \in Runs, WriteRuntime(p), Settled(p), Stages(p)
    PROVE  Stages(p)'
<1>1. /\ Output(p).dir \in Writable /\ Holds(AsmPath(p), "asm", source[p].of)
      /\ ~Flag(p, "--no-assemble") /\ at'[p] = "nasm"
      /\ Content(RtAsmPath(p)) = File("empty", "none", handle[p])
  BY DEF WriteRuntime, Goes, Stages, AfterAsm, Typed
<1>2. /\ Content(RtAsmPath(p))'.what = "start_code"
      /\ \E f : fs' = Put(RtAsmPath(p), f)
  BY <1>1, Closing DEF WriteRuntime, Settled
<1>3. Content(AsmPath(p))' = Content(AsmPath(p))
  BY <1>2, Putting, Distinct DEF Settled
<1>q. QED BY <1>1, <1>2, <1>3 DEF Stages, AfterAsm, Removing, Settled, Holds

(* nasm makes an object of the assembly, unless it takes a name of the      *)
(* program for something else.                                              *)
LEMMA StagesNasm ==
    ASSUME Typed, careful, NEW p \in Runs, Nasm(p), Settled(p), Stages(p)
    PROVE  Stages(p)' /\ (at'[p] = "failed" => Sources[source[p].of] = "not_for_nasm")
<1>1. /\ Output(p).dir \in Writable /\ Holds(AsmPath(p), "asm", source[p].of)
      /\ ~Flag(p, "--no-assemble") /\ Content(RtAsmPath(p)).what = "start_code"
  BY DEF Nasm, Assemble, Goes, Stages, AfterAsm, Typed
<1>2. Assembled(Content(AsmPath(p))) =
          {IF Sources[source[p].of] = "not_for_nasm" THEN "fails" ELSE "object"}
  BY <1>1 DEF Assembled, Holds
<1>3. CASE Sources[source[p].of] = "not_for_nasm"
  <2>1. at'[p] = "failed"
    BY <1>2, <1>3 DEF Nasm, Assemble, Goes, Typed
  <2>q. QED BY <2>1, <1>3 DEF Stages, AfterAsm, Removing
<1>4. CASE Sources[source[p].of] # "not_for_nasm"
  <2>1. at'[p] = "nasm_runtime" /\ \E by : fs' = Put(ObjPath(p), File("object", source[p].of, by))
    BY <1>1, <1>2, <1>4 DEF Nasm, Assemble, Goes, Typed, Holds
  <2>2. PICK by : fs' = Put(ObjPath(p), File("object", source[p].of, by))
    BY <2>1
  <2>3. Content(ObjPath(p))' = File("object", source[p].of, by)
    BY <2>2, Putting DEF Settled
  <2>4. Content(ObjPath(p))'.what = "object" /\ Content(ObjPath(p))'.of = source[p].of
    BY <2>3, Fields
  <2>5. Content(RtAsmPath(p))' = Content(RtAsmPath(p))
    BY <2>2, Putting, Distinct DEF Settled
  <2>q. QED BY <1>1, <2>1, <2>4, <2>5 DEF Stages, AfterAsm, Removing, Settled, Holds
<1>q. QED BY <1>3, <1>4

LEMMA AssembledRuntime ==
    ASSUME Typed, careful, NEW p \in Runs, NasmRt(p), Settled(p), Stages(p)
    PROVE  /\ at'[p] = IF Flag(p, "--no-link") THEN "succeeded" ELSE "ld"
           /\ ~Flag(p, "--no-assemble") /\ Output(p).dir \in Writable
           /\ Holds(ObjPath(p), "object", source[p].of)'
           /\ Content(RtObjPath(p))'.what = "start_object"
<1>1. /\ Output(p).dir \in Writable /\ Holds(ObjPath(p), "object", source[p].of)
      /\ ~Flag(p, "--no-assemble") /\ Content(RtAsmPath(p)).what = "start_code"
  BY DEF NasmRt, Assemble, Goes, Stages, AfterAsm, Typed
<1>2. Assembled(Content(RtAsmPath(p))) = {"start_object"}
  BY <1>1 DEF Assembled
<1>3. /\ at'[p] = IF Flag(p, "--no-link") THEN "succeeded" ELSE "ld"
      /\ \E of, by : fs' = Put(RtObjPath(p), File("start_object", of, by))
  BY <1>2 DEF NasmRt, Assemble, Goes, Typed
<1>4. PICK of, by : fs' = Put(RtObjPath(p), File("start_object", of, by))
  BY <1>3
<1>5. Content(RtObjPath(p))' = File("start_object", of, by)
  BY <1>4, Putting DEF Settled
<1>6. Content(ObjPath(p))' = Content(ObjPath(p))
  BY <1>4, Putting, Distinct DEF Settled
<1>7. Holds(ObjPath(p), "object", source[p].of)'
  BY <1>1, <1>6 DEF Holds, Settled
<1>8. Content(RtObjPath(p))'.what = "start_object"
  BY <1>5, Fields
<1>q. QED BY <1>1, <1>3, <1>7, <1>8 DEF Settled

LEMMA StagesNasmRt ==
    ASSUME Typed, careful, NEW p \in Runs, NasmRt(p), Settled(p), Stages(p)
    PROVE  Stages(p)' /\ at'[p] # "failed"
BY AssembledRuntime DEF Stages, AfterAsm, Removing, Settled

LEMMA StagesLd ==
    ASSUME Typed, careful, NEW p \in Runs, Ld(p), Settled(p), Stages(p)
    PROVE  Stages(p)' /\ (at'[p] = "failed" => Sources[source[p].of] = "no_main")
<1>1. /\ Holds(ObjPath(p), "object", source[p].of) /\ ~Flag(p, "--no-assemble")
      /\ Content(RtObjPath(p)).what = "start_object" /\ ~Flag(p, "--no-link")
  BY DEF Ld, Goes, Stages, AfterAsm, Typed
<1>2. ObjPath(p) # RtObjPath(p) /\ Output(p) \notin {ObjPath(p), RtObjPath(p)}
  BY Distinct DEF Settled
<1>3. Linked(Content(ObjPath(p)), Content(RtObjPath(p))) =
          {IF Sources[source[p].of] = "no_main" THEN "fails" ELSE "executable"}
  BY <1>1 DEF Linked, Holds
<1>4. CASE Sources[source[p].of] = "no_main"
  <2>1. at'[p] = "failed"
    BY <1>2, <1>3, <1>4 DEF Ld, Goes, Typed
  <2>q. QED BY <2>1, <1>4 DEF Stages, AfterAsm, Removing
<1>5. CASE Sources[source[p].of] # "no_main"
  <2>1. at'[p] = "remove_1" /\ \E by : fs' = Put(Output(p), File("executable", source[p].of, by))
    BY <1>1, <1>2, <1>3, <1>5 DEF Ld, Goes, Typed, Holds
  <2>2. PICK by : fs' = Put(Output(p), File("executable", source[p].of, by))
    BY <2>1
  <2>3. Content(Output(p))' = File("executable", source[p].of, by)
    BY <2>2, Putting DEF Settled
  <2>4. Content(Output(p))'.what = "executable" /\ Content(Output(p))'.of = source[p].of
    BY <2>3, Fields
  <2>q. QED BY <1>1, <2>1, <2>4 DEF Stages, AfterAsm, Removing, Settled, Holds
<1>q. QED BY <1>4, <1>5

(* Each of the last four steps removes one file and leaves the output.      *)
LEMMA StagesRemove ==
    ASSUME Typed, careful, NEW p \in Runs, Settled(p), Stages(p),
           RemoveRtAsm(p) \/ RemoveRtObj(p) \/ RemoveAsm(p) \/ RemoveObj(p)
    PROVE  /\ Stages(p)' /\ at'[p] # "failed"
           /\ Holds(Output(p), "executable", source[p].of)'
           /\ \A path \in Files(p) : ~Exists(path) => ~Exists(path)'
           /\ RemoveObj(p) => ~Exists(ObjPath(p))'
<1> DEFINE Gone(path) == fs' = Without(path) /\ path # Output(p)
<1>1. /\ at[p] \in Removing /\ Holds(Output(p), "executable", source[p].of)
      /\ ~Flag(p, "--no-assemble") /\ ~Flag(p, "--no-link")
  BY DEF RemoveRtAsm, RemoveRtObj, RemoveAsm, RemoveObj, Unlink, Goes, Removing, Stages
<1>2. /\ RemoveRtAsm(p) => Gone(RtAsmPath(p)) /\ at'[p] = "remove_2"
      /\ RemoveRtObj(p) => /\ Gone(RtObjPath(p)) /\ ~Exists(RtAsmPath(p))
                           /\ at'[p] = IF Flag(p, "--emit-asm") THEN "remove_4" ELSE "remove_3"
      /\ RemoveAsm(p) => /\ Gone(AsmPath(p)) /\ at'[p] = "remove_4"
                         /\ ~Exists(RtAsmPath(p)) /\ ~Exists(RtObjPath(p))
      /\ RemoveObj(p) => Gone(ObjPath(p)) /\ at'[p] = "succeeded"
  BY Distinct DEF RemoveRtAsm, RemoveRtObj, RemoveAsm, RemoveObj, Unlink, Goes, Settled, Stages, Typed
<1>3. PICK path : Gone(path)
  BY <1>2
<1>4. Content(Output(p))' = Content(Output(p))
  BY <1>3, Unlinking DEF Settled
<1>5. Holds(Output(p), "executable", source[p].of)'
  BY <1>1, <1>4 DEF Holds, Settled
<1>6. ASSUME NEW q, ~Exists(q) PROVE ~Exists(q)'
  BY <1>3, <1>6, Unlinking
<1>7. /\ RemoveRtAsm(p) => ~Exists(RtAsmPath(p))'
      /\ RemoveRtObj(p) => ~Exists(RtObjPath(p))' /\ ~Exists(RtAsmPath(p))'
      /\ RemoveAsm(p) => ~Exists(AsmPath(p))' /\ ~Exists(RtObjPath(p))' /\ ~Exists(RtAsmPath(p))'
      /\ RemoveObj(p) => ~Exists(ObjPath(p))'
  BY <1>2, <1>6, Unlinking DEF Settled
<1>8. at'[p] # "failed" /\ Stages(p)'
  BY <1>1, <1>2, <1>5, <1>7 DEF Stages, AfterAsm, Removing, Settled
<1>q. QED BY <1>5, <1>6, <1>7, <1>8

(* The steps after the phases. *)
Later(p) == \/ OpenAsm(p) \/ WriteAsm(p) \/ OpenRuntime(p) \/ WriteRuntime(p)
            \/ Nasm(p) \/ NasmRt(p) \/ Ld(p)
            \/ RemoveRtAsm(p) \/ RemoveRtObj(p) \/ RemoveAsm(p) \/ RemoveObj(p)

LEMMA StepKinds ==
    ASSUME NEW p \in Runs, Step(p) \/ Kill(p)
    PROVE  (\E args : Start(p, args)) \/ Reading(p) \/ Phases(p) \/ Kill(p) \/ Later(p)
BY DEF Step, Later

LEMMA LaterAt ==
    ASSUME NEW p \in Runs, Later(p)
    PROVE  at[p] \notin {"start", "read", "phases"}
<1>1. CASE \/ OpenAsm(p) \/ WriteAsm(p) \/ OpenRuntime(p) \/ WriteRuntime(p)
  BY <1>1 DEF OpenAsm, WriteAsm, OpenRuntime, WriteRuntime, Goes
<1>2. CASE Nasm(p) \/ NasmRt(p) \/ Ld(p)
  BY <1>2 DEF Nasm, NasmRt, Assemble, Ld, Goes
<1>3. CASE RemoveRtAsm(p) \/ RemoveRtObj(p) \/ RemoveAsm(p) \/ RemoveObj(p)
  BY <1>3 DEF RemoveRtAsm, RemoveRtObj, RemoveAsm, RemoveObj, Unlink, Goes
<1>q. QED BY <1>1, <1>2, <1>3 DEF Later

(* The steps of a run called with care, as far as they may fail. *)
LEMMA StagesOfTheRun ==
    ASSUME Typed, careful, NEW p \in Runs, Step(p) \/ Kill(p), Own(p), CareTaken, Stages(p)
    PROVE  /\ Stages(p)'
           /\ at'[p] = "failed" => \/ at[p] \in {"start", "read", "phases"}
                                   \/ Output(p).dir \notin Writable
                                   \/ Sources[source[p].of] # "good"
<1>1. ASSUME NEW args, Start(p, args) PROVE Stages(p)' /\ at[p] = "start"
  BY <1>1, StagesBegin DEF Start, Goes
<1>2. CASE Reading(p) \/ Phases(p) \/ Kill(p)
  BY <1>2, StagesBegin DEF Reading, Phases, Kill, Goes, Typed
<1>3. CASE Later(p)
  <2>1. Settled(p)
    BY <1>3, Settling, LaterAt
  <2>2. CASE OpenAsm(p)
    BY <2>1, <2>2, StagesOpenAsm DEF OpenAsm, Goes, AsmPath, Beside, Typed
  <2>3. CASE WriteAsm(p)
    BY <2>1, <2>3, StagesWriteAsm DEF WriteAsm, Goes, Typed
  <2>4. CASE OpenRuntime(p) \/ WriteRuntime(p)
    BY <2>1, <2>4, StagesOpenRuntime, StagesWriteRuntime DEF OpenRuntime, WriteRuntime, Goes, Typed
  <2>5. CASE Nasm(p)
    BY <2>1, <2>5, StagesNasm
  <2>6. CASE NasmRt(p)
    BY <2>1, <2>6, StagesNasmRt
  <2>7. CASE Ld(p)
    BY <2>1, <2>7, StagesLd
  <2>8. CASE RemoveRtAsm(p) \/ RemoveRtObj(p) \/ RemoveAsm(p) \/ RemoveObj(p)
    BY <2>1, <2>8, StagesRemove
  <2>q. QED BY <1>3, <2>2, <2>3, <2>4, <2>5, <2>6, <2>7, <2>8 DEF Later
<1>q. QED BY <1>1, <1>2, <1>3, StepKinds

LEMMA ProgressStays ==
    ASSUME Typed, NEW p \in Runs, Step(p) \/ Kill(p), Own(p), CareTaken, Progress
    PROVE  Progress'
<1> SUFFICES ASSUME careful, NEW q \in Runs PROVE Stages(q)'
  BY DEF Progress, Own
<1>1. CASE q = p
  BY <1>1, StagesOfTheRun DEF Progress
<1>2. CASE q # p /\ Active(q)
  <2>1. Writes(p) /\ (at[p] = "start" => fs' = fs)
    BY StepWrites
  <2>2. ASSUME NEW path \in Files(q)
        PROVE  Content(path)' = Content(path) /\ (Exists(path)' <=> Exists(path))
    BY <1>2, <2>1, OthersKeepOut
  <2>3. /\ at'[q] = at[q] /\ source'[q] = source[q] /\ handle'[q] = handle[q]
        /\ Output(q)' = Output(q) /\ AsmPath(q)' = AsmPath(q) /\ ObjPath(q)' = ObjPath(q)
        /\ RtAsmPath(q)' = RtAsmPath(q) /\ RtObjPath(q)' = RtObjPath(q)
        /\ \A f : Flag(q, f)' = Flag(q, f)
    BY <1>2, SameNames DEF Own
  <2>5. /\ Content(AsmPath(q))' = Content(AsmPath(q)) /\ Content(ObjPath(q))' = Content(ObjPath(q))
        /\ Content(RtAsmPath(q))' = Content(RtAsmPath(q))
        /\ Content(RtObjPath(q))' = Content(RtObjPath(q)) /\ Content(Output(q))' = Content(Output(q))
    BY <2>2, <2>3 DEF Files
  <2>6. /\ Exists(AsmPath(q))' <=> Exists(AsmPath(q))
        /\ Exists(RtAsmPath(q))' <=> Exists(RtAsmPath(q))
        /\ Exists(RtObjPath(q))' <=> Exists(RtObjPath(q))
    BY <2>2, <2>3 DEF Files
  <2>4. Stages(q)
    BY DEF Progress
  <2>q. QED BY <2>3, <2>4, <2>5, <2>6 DEF Stages, Holds
<1>3. CASE q # p /\ ~Active(q)
  <2>1. at'[q] \in {"start", "succeeded", "failed", "help", "killed"}
    BY <1>3 DEF Own, Active, Endings
  <2>q. QED BY <2>1 DEF Stages, AfterAsm, Removing
<1>q. QED BY <1>1, <1>2, <1>3

LEMMA GoodStays ==
    ASSUME Typed, NEW p \in Runs, Step(p) \/ Kill(p), Own(p), CareTaken, Unread, Progress,
           GoodSourceCompiles
    PROVE  GoodSourceCompiles'
<1> SUFFICES ASSUME careful, NEW q \in Runs, MustSucceed(q)', at'[q] = "failed" PROVE FALSE
  BY DEF GoodSourceCompiles, Own
<1>1. CASE q # p
  <2>1. at'[q] = at[q] /\ source'[q] = source[q] /\ Output(q)' = Output(q)
    BY <1>1, SameNames DEF Own
  <2>q. QED BY <2>1 DEF GoodSourceCompiles, MustSucceed
<1>2. CASE q = p /\ at[p] \notin {"start", "read", "phases"}
  <2>1. source'[p] = source[p] /\ Output(p)' = Output(p)
    BY <1>2, SameNames DEF Own
  <2>2. MustSucceed(p)
    BY <1>2, <2>1 DEF MustSucceed
  <2>q. QED BY <1>2, <2>2, StagesOfTheRun DEF Progress, MustSucceed
<1>3. CASE q = p /\ at[p] \in {"start", "read", "phases"}
  <2>1. source'[p].what = "source" /\ Sources[source'[p].of] = "good"
    BY <1>3 DEF MustSucceed
  <2>2. CASE at[p] = "start"
    BY <2>1, <2>2, Fields DEF Own, Unread, Missing
  <2>3. CASE Reading(p)
    <3>1. ~Exists(PathOf[opts[p].input])
      BY <1>3, <2>3 DEF Reading, Goes, Typed
    <3>2. source'[p] = Missing
      BY <2>3, <3>1 DEF Reading, Content, Exists, Typed
    <3>q. QED BY <2>1, <3>2, Fields DEF Missing
  <2>4. CASE Phases(p)
    BY <1>3, <2>1, <2>4 DEF Phases, Goes, Accepted, Same, Typed
  <2>5. CASE Kill(p)
    BY <1>3, <2>5 DEF Kill, Typed
  <2>q. QED BY <1>3, <2>2, <2>3, <2>4, <2>5, StepKinds, LaterAt DEF Start, Goes
<1>q. QED BY <1>1, <1>2, <1>3

-----------------------------------------------------------------------------
LEMMA DInvInit == Init => DInv
<1> SUFFICES ASSUME Init PROVE DInv
  OBVIOUS
<1>1. Typed /\ \A p \in Runs : at[p] = "start" /\ source[p] = Missing
  BY DEF Init, Typed
<1>2. Unread
  BY <1>1 DEF Unread
<1>3. CareTaken /\ OwnFiles
  BY <1>1 DEF CareTaken, OwnFiles, Active
<1>4. GoodSourceCompiles
  BY <1>1 DEF GoodSourceCompiles
<1>5. Progress
  BY <1>1 DEF Progress, Stages, AfterAsm, Removing
<1> DEFINE Origin(path) == CHOOSE s \in DOMAIN Sources : PathOf[s] = path
<1>6. fs = [path \in {PathOf[s] : s \in DOMAIN Sources} |-> File("source", Origin(path), "user")]
  BY DEF Init
<1>7. ASSUME NEW path \in DOMAIN fs PROVE fs[path].what # "executable"
  BY <1>6, Fields
<1>8. OwnExecutables
  BY <1>7 DEF OwnExecutables
<1>9. ASSUME NEW s \in DOMAIN Sources
      PROVE  Content(PathOf[s]) = File("source", s, "user")
  <2>1. Origin(PathOf[s]) = s
    BY SourcesAssumption
  <2>q. QED BY <1>6, <2>1 DEF Content
<1>10. SourcesKept
  BY <1>9 DEF SourcesKept
<1>q. QED BY <1>1, <1>2, <1>3, <1>4, <1>5, <1>8, <1>10 DEF DInv

LEMMA DInvStep == DInv /\ [Next]_vars => DInv'
<1> SUFFICES ASSUME DInv, [Next]_vars PROVE DInv'
  OBVIOUS
<1>1. ASSUME NEW p \in Runs, Step(p) \/ Kill(p) PROVE DInv'
  <2>1. Own(p) /\ Typed' /\ Writes(p) /\ (at[p] = "start" => fs' = fs)
    BY <1>1, StepOwn, StepWrites DEF DInv
  <2>2. Unread' /\ CareTaken'
    BY <1>1, <2>1, UnreadStays, CareStays DEF DInv
  <2>3. OwnFiles' /\ OwnExecutables'
    BY <1>1, <2>1, OwnFilesStay, ExecutablesStayOwn DEF DInv
  <2>4. Progress' /\ GoodSourceCompiles'
    BY <1>1, <2>1, ProgressStays, GoodStays DEF DInv
  <2>5. SourcesKept'
    BY <2>1, SourcesStayKept DEF DInv
  <2>q. QED BY <2>1, <2>2, <2>3, <2>4, <2>5 DEF DInv
<1>2. CASE UNCHANGED vars
  <2>1. Typed' /\ Unread' /\ CareTaken'
    BY <1>2 DEF vars, DInv, Typed, Unread, CareTaken, Active, Output
  <2>2. ASSUME NEW p \in Runs
        PROVE  /\ Output(p)' = Output(p) /\ AsmPath(p)' = AsmPath(p) /\ ObjPath(p)' = ObjPath(p)
               /\ RtAsmPath(p)' = RtAsmPath(p) /\ RtObjPath(p)' = RtObjPath(p)
               /\ Claimed(p)' = Claimed(p) /\ \A f : Flag(p, f)' = Flag(p, f)
    BY <1>2, SameNames DEF vars
  <2>3. ASSUME NEW path PROVE Content(path)' = Content(path) /\ (Exists(path)' <=> Exists(path))
    BY <1>2 DEF vars, Content, Exists
  <2>4. DistinctStems' <=> DistinctStems
    BY <1>2, <2>2 DEF vars, DistinctStems, Started
  <2>5. OwnFiles'
    BY <1>2, <2>2, <2>3, <2>4 DEF vars, DInv, OwnFiles, Alone, OwnAsm, OwnObj
  <2>6. OwnExecutables'
    BY <1>2, <2>2, <2>4 DEF vars, DInv, OwnExecutables, Asker
  <2>7. Progress'
    <3>1. ASSUME NEW p \in Runs, Stages(p) PROVE Stages(p)'
      BY <1>2, <2>2, <2>3, <3>1 DEF vars, Stages, Holds
    <3>q. QED BY <1>2, <3>1 DEF vars, DInv, Progress
  <2>8. GoodSourceCompiles' /\ SourcesKept'
    BY <1>2, <2>2, <2>3 DEF vars, DInv, GoodSourceCompiles, MustSucceed, SourcesKept, Started
  <2>q. QED BY <2>1, <2>5, <2>6, <2>7, <2>8 DEF DInv
<1>q. QED BY <1>1, <1>2 DEF Next

-----------------------------------------------------------------------------
(* The invariant holds of every run of the compiler there may be. *)
THEOREM DriverInductive == Spec => []DInv
BY DInvInit, DInvStep, PTL DEF Spec

(* main.cpp, driver.cpp:165-198: an executable that is found at a path was  *)
(* made of a source somebody asked to have compiled to that path, however   *)
(* many compilations there are at once and whatever the disk has room for.  *)
THEOREM ExecutablesAreOwn == Spec => []NoForeignExecutable
<1>1. DInv => NoForeignExecutable
  BY DEF DInv, OwnExecutables, NoForeignExecutable, Asker
<1>q. QED BY <1>1, DriverInductive, PTL

(* driver.cpp:49-198: a good source is compiled, whatever earlier runs left *)
(* where this one writes and wherever they were killed.                     *)
THEOREM GoodSourcesCompile == Spec => []GoodSourceCompiles
<1>1. DInv => GoodSourceCompiles
  BY DEF DInv
<1>q. QED BY <1>1, DriverInductive, PTL

(* driver.cpp:123-126: no run touches a source that nobody names as its     *)
(* output or as an intermediate of it.                                      *)
THEOREM SourcesAreKept == Spec => []SourcesKept
<1>1. DInv => SourcesKept
  BY DEF DInv
<1>q. QED BY <1>1, DriverInductive, PTL

(* driver.cpp:145, 179, 198: success is only reported of a step that leaves *)
(* what the options ask for, made of the run's own source.                  *)
LEMMA DeliversStep ==
    ASSUME DInv, [Next]_vars, careful, NEW p \in Runs, at[p] # "succeeded", at'[p] = "succeeded"
    PROVE  Delivered(p)'
<1>1. PICK q \in Runs : Step(q) \/ Kill(q)
  BY DEF Next, vars
<1>2. Own(q) /\ Typed
  BY <1>1, StepOwn DEF DInv
<1>3. q = p
  BY <1>2 DEF Own
<1>4. WriteAsm(p) \/ NasmRt(p) \/ RemoveObj(p)
  BY <1>1, <1>2, <1>3 DEF Step, Start, Reading, Phases, OpenAsm, OpenRuntime, WriteRuntime, Nasm,
     Assemble, Ld, RemoveRtAsm, RemoveRtObj, RemoveAsm, Unlink, Goes, Kill, Typed
<1>5. Settled(p) /\ Stages(p)
  <2>1. Later(p)
    BY <1>4 DEF Later
  <2>q. QED BY <1>2, <1>3, <2>1, LaterAt, Settling DEF DInv, Progress
<1>6. CASE WriteAsm(p)
  <2>1. Flag(p, "--no-assemble") /\ Holds(AsmPath(p), "asm", source[p].of)'
    BY <1>2, <1>5, <1>6, WrittenAsm DEF WriteAsm, Goes, Typed
  <2>q. QED BY <1>5, <2>1 DEF Delivered, Asked, Holds, Settled
<1>7. CASE NasmRt(p)
  <2>1. /\ Flag(p, "--no-link") /\ ~Flag(p, "--no-assemble")
        /\ Holds(ObjPath(p), "object", source[p].of)' /\ Content(RtObjPath(p))'.what = "start_object"
    BY <1>2, <1>5, <1>7, AssembledRuntime
  <2>q. QED BY <1>5, <2>1 DEF Delivered, Asked, Holds, Settled
<1>8. CASE RemoveObj(p)
  <2>1. Holds(Output(p), "executable", source[p].of)'
    BY <1>2, <1>5, <1>8, StagesRemove
  <2>2. ~Flag(p, "--no-link") /\ ~Flag(p, "--no-assemble")
    BY <1>5, <1>8 DEF RemoveObj, Unlink, Goes, Stages, Removing
  <2>q. QED BY <1>5, <2>1, <2>2 DEF Delivered, Asked, Holds, Settled
<1>q. QED BY <1>4, <1>6, <1>7, <1>8

THEOREM SuccessIsDelivery == Spec => DeliversWhatWasAsked
<1>1. DInv /\ [Next]_vars =>
        [careful => \A p \in Runs : at[p] # "succeeded" /\ at'[p] = "succeeded" => Delivered(p)']_vars
  BY DeliversStep
<1>q. QED BY <1>1, DriverInductive, PTL DEF Spec, DeliversWhatWasAsked

(* driver.cpp:191-194: the run that linked removes all it made on the way.  *)
LEMMA LeavesStep ==
    ASSUME DInv, [Next]_vars, careful, NEW p \in Runs, at[p] = "remove_4", at'[p] = "succeeded",
           NEW path \in Intermediates(p)
    PROVE  path \notin DOMAIN fs'
<1>1. PICK q \in Runs : Step(q) \/ Kill(q)
  BY DEF Next, vars
<1>2. Own(q) /\ Typed
  BY <1>1, StepOwn DEF DInv
<1>3. q = p
  BY <1>2 DEF Own
<1>4. RemoveObj(p)
  BY <1>1, <1>2, <1>3 DEF Step, Start, Reading, Phases, OpenAsm, WriteAsm, OpenRuntime, WriteRuntime,
     Nasm, NasmRt, Assemble, Ld, RemoveRtAsm, RemoveRtObj, RemoveAsm, Unlink, Goes, Kill, Typed
<1>5. Settled(p) /\ Stages(p)
  <2>1. Later(p)
    BY <1>4 DEF Later
  <2>q. QED BY <1>2, <1>3, <2>1, LaterAt, Settling DEF DInv, Progress
<1>6. /\ \A file \in Files(p) : ~Exists(file) => ~Exists(file)'
      /\ ~Exists(ObjPath(p))'
  BY <1>2, <1>4, <1>5, StagesRemove
<1>7. path = ObjPath(p) \/ (path \in Files(p) /\ ~Exists(path))
  BY <1>5 DEF Intermediates, Files, Stages
<1>8. ~Exists(path)'
  BY <1>5, <1>6, <1>7 DEF Settled
<1>q. QED BY <1>8 DEF Exists

THEOREM SuccessLeavesNothingElse == Spec => LeavesNothingElse
<1>1. DInv /\ [Next]_vars =>
        [careful => \A p \in Runs : at[p] = "remove_4" /\ at'[p] = "succeeded" =>
             \A path \in Intermediates(p) : path \notin DOMAIN fs']_vars
  BY LeavesStep
<1>q. QED BY <1>1, DriverInductive, PTL DEF Spec, LeavesNothingElse
=============================================================================

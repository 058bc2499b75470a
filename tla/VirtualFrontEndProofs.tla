------------------------ MODULE VirtualFrontEndProofs ------------------------
(***************************************************************************)
(* Proofs about RenderFrontend and VirtualFrontEnd for any number of       *)
(* scenes, views, frames, renders, waits given up and commands.  The first *)
(* part is about RenderFrontend, where the requests are arbitrary; the     *)
(* second about the session, which issues them: its steps are steps of the *)
(* two sides' registries, so the invariant of the first part holds, and    *)
(* with it go LocalInv, about the session's own state, and OwnInv, what    *)
(* the session has in the back end as long as it has met no fault.         *)
(***************************************************************************)
EXTENDS VirtualFrontEnd, Integers, FiniteSetTheorems, FunctionTheorems, TLAPS

(***************************************************************************)
(* Part 1: the registries of the two sides, under any requests.            *)
(***************************************************************************)

(* How many elements of a sequence are in a set, and how that changes as   *)
(* the sequence does.                                                      *)
Spots(q, S) == {i \in 1..Len(q) : q[i] \in S}
Count(q, S) == Cardinality(Spots(q, S))

LEMMA PlacesFinite ==
  ASSUME NEW T, NEW q \in Seq(T), NEW S
  PROVE  IsFiniteSet(Spots(q, S)) /\ Count(q, S) \in Nat
<1>1. Spots(q, S) \subseteq 1..Len(q) /\ Len(q) \in Int
  BY DEF Spots
<1>2. IsFiniteSet(1..Len(q))
  BY <1>1, FS_Interval
<1>3. IsFiniteSet(Spots(q, S))
  BY <1>1, <1>2, FS_Subset
<1> QED
  BY <1>3, FS_CardinalityType DEF Count

LEMMA CountConcat ==
  ASSUME NEW T, NEW q \in Seq(T), NEW r \in Seq(T), NEW S
  PROVE  Count(q \o r, S) = Count(q, S) + Count(r, S)
<1> DEFINE shifted == {i + Len(q) : i \in Spots(r, S)}
           f == [i \in Spots(r, S) |-> i + Len(q)]
<1>0. Len(q) \in Nat /\ Len(r) \in Nat /\ Len(q \o r) = Len(q) + Len(r)
  OBVIOUS
<1>1. f \in Bijection(Spots(r, S), shifted)
  <2>1. f \in [Spots(r, S) -> shifted]
    OBVIOUS
  <2>2. \A i, j \in Spots(r, S) : f[i] = f[j] => i = j
    BY <1>0 DEF Spots
  <2>3. \A k \in shifted : \E i \in Spots(r, S) : f[i] = k
    OBVIOUS
  <2> HIDE DEF f, shifted
  <2> QED
    BY <2>1, <2>2, <2>3, Fun_IsBij
<1>2. IsFiniteSet(shifted) /\ Cardinality(shifted) = Count(r, S)
  BY <1>1, PlacesFinite, FS_Bijection DEF ExistsBijection, Count
<1>3. Spots(q \o r, S) = Spots(q, S) \cup shifted
  <2>1. \A i \in Spots(q \o r, S) : i \in Spots(q, S) \/ i \in shifted
    <3> SUFFICES ASSUME NEW i \in Spots(q \o r, S), i \notin Spots(q,
    S) PROVE i \in shifted
      OBVIOUS
    <3>1. i \in 1..(Len(q) + Len(r)) /\ (q \o r)[i] \in S
      BY <1>0 DEF Spots
    <3>2. i > Len(q)
      BY <1>0, <3>1 DEF Spots
    <3>3. i - Len(q) \in Spots(r, S)
      BY <1>0, <3>1, <3>2 DEF Spots
    <3> QED
      BY <1>0, <3>1, <3>3
  <2>2. \A i \in Spots(q, S) : i \in Spots(q \o r, S)
    BY <1>0 DEF Spots
  <2>3. \A i \in Spots(r, S) : i + Len(q) \in Spots(q \o r, S)
    BY <1>0 DEF Spots
  <2> QED
    BY <2>1, <2>2, <2>3
<1>4. Spots(q, S) \cap shifted = {}
  BY <1>0 DEF Spots
<1>5. IsFiniteSet(Spots(q, S)) /\ Count(q, S) \in Nat /\ Count(r, S) \in Nat
  BY PlacesFinite
<1> HIDE DEF shifted
<1>6. Cardinality(Spots(q, S) \cup shifted) = Count(q, S) + Count(r, S) - Cardinality({})
  BY <1>2, <1>4, <1>5, FS_Union DEF Count
<1> QED
  BY <1>3, <1>5, <1>6, FS_EmptySet DEF Count

LEMMA CountNone ==
  ASSUME NEW T, NEW q \in Seq(T), NEW S, \A i \in 1..Len(q) : q[i] \notin S
  PROVE  Count(q, S) = 0
<1>1. Spots(q, S) = {}
  BY DEF Spots
<1> QED
  BY <1>1, FS_EmptySet DEF Count

LEMMA CountOne ==
  ASSUME NEW T, NEW q \in Seq(T), NEW S, NEW k \in 1..Len(q), q[k] \in S,
         \A i \in 1..Len(q) : i # k => q[i] \notin S
  PROVE  Count(q, S) = 1
<1>1. Spots(q, S) = {k}
  BY DEF Spots
<1> QED
  BY <1>1, FS_Singleton DEF Count

LEMMA CountSingle == ASSUME NEW e, NEW S PROVE Count(<<e>>, S) = IF e \in S THEN 1 ELSE 0
<1>1. Spots(<<e>>, S) = IF e \in S THEN {1} ELSE {}
  BY DEF Spots
<1> QED
  BY <1>1, FS_Singleton, FS_EmptySet DEF Count

LEMMA CountAppend ==
  ASSUME NEW T, NEW q \in Seq(T), NEW e \in T, NEW S
  PROVE  Count(Append(q, e), S) = Count(q, S) + (IF e \in S THEN 1 ELSE 0)
<1>1. Append(q, e) = q \o <<e>> /\ <<e>> \in Seq(T)
  OBVIOUS
<1>2. Count(<<e>>, S) = IF e \in S THEN 1 ELSE 0
  BY CountSingle
<1>3. Count(q \o <<e>>, S) = Count(q, S) + Count(<<e>>, S)
  BY <1>1, CountConcat
<1> QED
  BY <1>1, <1>2, <1>3

LEMMA CountTail ==
  ASSUME NEW T, NEW q \in Seq(T), q # <<>>, NEW S
  PROVE  Count(q, S) = Count(Tail(q), S) + (IF Head(q) \in S THEN 1 ELSE 0)
<1> DEFINE first == <<Head(q)>>
           rest == Tail(q)
<1>0. first \in Seq(T) /\ rest \in Seq(T) /\ q = first \o rest
  OBVIOUS
<1>1. Head(q) \in T /\ Tail(q) \in Seq(T)
  OBVIOUS
<1>2. Count(q, S) = Count(<<Head(q)>>, S) + Count(Tail(q), S)
  <2>1. Count(first \o rest, S) = Count(first, S) + Count(rest, S)
    <3> HIDE DEF first, rest
    <3> QED
      BY <1>0, CountConcat
  <2> QED
    BY <1>0, <2>1
<1>3. Count(<<Head(q)>>, S) = IF Head(q) \in S THEN 1 ELSE 0
  BY CountSingle
<1>4. Count(Tail(q), S) \in Nat
  BY <1>1, PlacesFinite
<1> QED
  BY <1>2, <1>3, <1>4

(* Two places make a count of two.                                         *)
LEMMA CountTwo ==
  ASSUME NEW T, NEW q \in Seq(T), NEW S, NEW i \in 1..Len(q), NEW j \in 1..Len(q), i # j,
         q[i] \in S, q[j] \in S
  PROVE  Count(q, S) >= 2
<1> DEFINE both == {i} \cup {j}
<1>1. both \subseteq Spots(q, S)
  BY DEF Spots
<1>2. IsFiniteSet({i}) /\ Cardinality({i}) = 1 /\ j \notin {i}
  BY FS_Singleton
<1>3. Cardinality(both) = Cardinality({i}) + 1
  BY <1>2, FS_AddElement
<1> HIDE DEF both
<1>4. Cardinality(both) = 2
  <2> DEFINE one == Cardinality({i})
  <2>1. one = 1 /\ Cardinality(both) = one + 1
    BY <1>2, <1>3
  <2> HIDE DEF one
  <2> QED BY <2>1
<1>5. IsFiniteSet(Spots(q, S)) /\ Count(q, S) \in Nat
  BY PlacesFinite
<1>6. Cardinality(both) <= Cardinality(Spots(q, S))
  BY <1>1, <1>5, FS_Subset
<1> QED
  BY <1>4, <1>5, <1>6 DEF Count

LEMMA CountSome ==
  ASSUME NEW T, NEW q \in Seq(T), NEW S, NEW i \in 1..Len(q), q[i] \in S
  PROVE  Count(q, S) >= 1
<1>1. {i} \subseteq Spots(q, S)
  BY DEF Spots
<1>2. IsFiniteSet(Spots(q, S))
  BY PlacesFinite
<1>3. Cardinality({i}) <= Cardinality(Spots(q, S)) /\ Cardinality({i}) = 1
  BY <1>1, <1>2, FS_Subset, FS_Singleton
<1> QED
  BY <1>3 DEF Count

-----------------------------------------------------------------------------

SceneObjs == {Scene(i) : i \in SceneIds}
ViewObjs == {View(i) : i \in ViewIds}

(* Identifiers are given out in order and not again; what has been made    *)
(* stays made, and a scene that has been parsed stays parsed or goes.      *)
Made == {Scene(s) : s \in {i \in SceneIds : i <= scenecounter}}
        \cup {View(v) : v \in {i \in ViewIds : i <= viewcounter}}
DoneScenes == {s \in SceneIds : s <= scenecounter /\ job[Scene(s)] \in {"done", "none"}}

(* A request is about something of its kind that was made, and a view is   *)
(* asked for when the scene has been parsed.                               *)
ValidRequests ==
  {r \in Requests :
     /\ r.op \in {"CloseScene", "CreateView", "StartParser"} => r.obj \in SceneObjs
     /\ r.op \in {"CloseView", "StartRender"} => r.obj \in ViewObjs
     /\ r.op # "CreateScene" => r.obj \in Made
     /\ r.op = "CreateView" => \E s \in DoneScenes : r.obj = Scene(s)}

(* "Done" is said of what was made, and of a scene when it is parsed.      *)
ValidMessages ==
  {m \in Messages :
     /\ m.kind = "reply" /\ m.code = "Done" => m.obj \in Made
     /\ m.kind = "verdict" => m.obj \in Made
     /\ m.kind = "verdict" /\ m.code = "Done" =>
          m.obj \in ViewObjs \/ \E s \in DoneScenes : m.obj = Scene(s)}

QueuesInv == toBack \in Seq(ValidRequests) /\ toFront \in Seq(ValidMessages)

RegistryInv ==
  /\ job \in [Objects -> JobStates]
  /\ scenecounter \in SceneIds \cup {0} /\ viewcounter \in ViewIds \cup {0}
  /\ view2scene \in [ViewIds -> SceneIds \cup {0}]
  /\ \A o \in Objects : job[o] # "none" => o \in Made
  /\ \A v \in ViewIds : v <= viewcounter => view2scene[v] \in DoneScenes
  /\ NoViewWithoutScene

FrontMaps ==
  {f \in [Objects -> FrontStates] :
     /\ \A o \in Objects : f[o] # "Unknown" => o \in Made
     /\ \A s \in SceneIds : f[Scene(s)] = "Finished" => s \in DoneScenes}
Results == [ok : BOOLEAN, obj : Objects \cup {Scene(0), View(0)}]

FrontInv ==
  /\ front \in FrontMaps
  /\ call = NoCall \/ call \in ValidRequests
  /\ result \in Results
  /\ stale \in Nat /\ faults \in 0..MaxFaults /\ stale <= faults

Safe == QueuesInv /\ RegistryInv /\ FrontInv

-----------------------------------------------------------------------------
LEMMA ObjectFacts ==
  /\ \A i, j : (Scene(i) = Scene(j) \/ View(i) = View(j)) => i = j
  /\ \A i, j : Scene(i) # View(j)
  /\ \A i : Scene(i)[2] = i /\ View(i)[2] = i
  /\ Objects = SceneObjs \cup ViewObjs
BY DEF Scene, View, Objects, SceneObjs, ViewObjs

LEMMA IdFacts ==
  /\ SceneIds \subseteq Nat \ {0} /\ ViewIds \subseteq Nat \ {0}
  /\ Scene(0) \notin Objects /\ View(0) \notin Objects
<1>1. SceneIds \subseteq Nat \ {0} /\ ViewIds \subseteq Nat \ {0}
  BY IdsAssumption
<1> QED
  BY <1>1, ObjectFacts DEF SceneObjs, ViewObjs

LEMMA MadeFacts == 
  /\ Made \subseteq Objects
  /\ \A s \in SceneIds : Scene(s) \in Objects /\ (Scene(s) \in Made <=> s <= scenecounter)
  /\ \A v \in ViewIds : View(v) \in Objects /\ (View(v) \in Made <=> v <= viewcounter)
BY ObjectFacts DEF Made, SceneObjs, ViewObjs

(* Steps keep what was made and what was parsed.                           *)
Stable == Made \subseteq Made' /\ DoneScenes \subseteq DoneScenes'

LEMMA ValidStable ==
  ASSUME Stable
  PROVE  ValidRequests \subseteq ValidRequests' /\ ValidMessages \subseteq ValidMessages'
BY DEF Stable, ValidRequests, ValidMessages

(* What a step of the back end does to the queues.                         *)
QueueStep ==
  /\ \/ toBack' = toBack
     \/ toBack # <<>> /\ toBack' = Tail(toBack)
  /\ \E ms \in Seq(ValidMessages') : toFront' = toFront \o ms

LEMMA SeqFacts ==
  ASSUME NEW S, NEW q \in Seq(S)
  PROVE  /\ q # <<>> => Head(q) \in S /\ Tail(q) \in Seq(S)
         /\ \A e \in S : Append(q, e) \in Seq(S) /\ <<e>> \in Seq(S)
         /\ \A r \in Seq(S) : q \o r \in Seq(S)
OBVIOUS

LEMMA QueuesKept == ASSUME QueuesInv, Stable, QueueStep PROVE QueuesInv'
<1>1. toBack \in Seq(ValidRequests') /\ toFront \in Seq(ValidMessages')
  BY ValidStable DEF QueuesInv
<1>2. toBack' \in Seq(ValidRequests')
  <2>1. toBack' = toBack \/ (toBack # <<>> /\ toBack' = Tail(toBack))
    BY DEF QueueStep
  <2> QED
    BY <1>1, <2>1, SeqFacts
<1>3. PICK ms \in Seq(ValidMessages') : toFront' = toFront \o ms
  BY DEF QueueStep
<1>4. toFront' \in Seq(ValidMessages')
  BY <1>1, <1>3
<1> QED
  BY <1>2, <1>4 DEF QueuesInv

LEMMA HeadRequest ==
  ASSUME QueuesInv, toBack # <<>>
  PROVE  Head(toBack) \in ValidRequests
BY DEF QueuesInv

LEMMA HeadMessage ==
  ASSUME QueuesInv, toFront # <<>>
  PROVE  Head(toFront) \in ValidMessages
BY DEF QueuesInv

LEMMA FrontKept == ASSUME FrontInv, Stable, UNCHANGED frontVars PROVE FrontInv'
<1>1. call' = NoCall \/ call' \in ValidRequests'
  BY ValidStable DEF FrontInv, frontVars
<1>2. front' \in FrontMaps'
  BY DEF FrontInv, frontVars, FrontMaps, Stable
<1> QED
  BY <1>1, <1>2 DEF FrontInv, frontVars, Results

registryVars == <<job, scenecounter, viewcounter, view2scene>>

LEMMA RegistryKept == ASSUME RegistryInv, UNCHANGED registryVars PROVE RegistryInv' /\ Stable
BY DEF RegistryInv, registryVars, Stable, Made, DoneScenes, NoViewWithoutScene, ViewsOf

(* A job that is there changes, and a scene that is parsed is left alone.  *)
LEMMA JobStep ==
  ASSUME RegistryInv, NEW o \in Objects, NEW st \in JobStates \ {"none"}, job[o] # "none",
         o \in SceneObjs => job[o] # "done",
         job' = [job EXCEPT ![o] = st],
         UNCHANGED <<scenecounter, viewcounter, view2scene>>
  PROVE  RegistryInv' /\ Stable
<1>1. Made' = Made
  BY DEF Made
<1>2. \A s \in DoneScenes : job'[Scene(s)] = job[Scene(s)]
  BY MadeFacts, ObjectFacts DEF DoneScenes, RegistryInv, SceneObjs
<1>3. Stable
  BY <1>1, <1>2 DEF Stable, DoneScenes
<1>4. \A p \in Objects : job[p] = "none" <=> job'[p] = "none"
  BY DEF RegistryInv
<1>5. NoViewWithoutScene'
  BY <1>4, MadeFacts DEF RegistryInv, NoViewWithoutScene, ViewsOf
<1> QED
  BY <1>1, <1>3, <1>4, <1>5 DEF RegistryInv, Stable

-----------------------------------------------------------------------------
(* The back end's handlers.                                                *)
LEMMA HandleStep ==
  ASSUME QueuesInv, Stable, NEW op, NEW ms \in Seq(ValidMessages'), Handle(op, ms)
  PROVE  QueuesInv'
BY QueuesKept DEF Handle, QueueStep

LEMMA ArgFacts ==
  ASSUME QueuesInv, toBack # <<>>
  PROVE  /\ Head(toBack).op # "CreateScene" => Arg \in Made /\ Arg \in Objects
         /\ Head(toBack).op \in {"CloseScene", "CreateView", "StartParser"} => Arg \in SceneObjs
         /\ Head(toBack).op \in {"CloseView", "StartRender"} => Arg \in ViewObjs
         /\ Head(toBack).op = "CreateView" => \E s \in DoneScenes : Arg = Scene(s)
BY HeadRequest, MadeFacts DEF ValidRequests, Arg

LEMMA ReplyValid ==
  ASSUME NEW code \in Codes, NEW o \in Objects \cup {Scene(0), View(0)},
         code = "Done" => o \in Made'
  PROVE  <<Reply(code, o)>> \in Seq(ValidMessages')
<1>1. Reply(code, o) \in ValidMessages'
  BY DEF ValidMessages, Reply, Messages
<1> QED
  BY <1>1

LEMMA VerdictValid ==
  ASSUME NEW code \in Codes, NEW o \in Made', o \in Objects,
         code = "Done" => o \in ViewObjs \/ \E s \in DoneScenes' : o = Scene(s)
  PROVE  Verdict(code, o) \in ValidMessages'
BY DEF ValidMessages, Verdict, Messages

(* Handlers that change one job or none, and the jobs' own steps.          *)
OneJob(o) ==
  /\ UNCHANGED <<scenecounter, viewcounter, view2scene>>
  /\ \/ job' = job
     \/ /\ job[o] # "none" /\ (o \in SceneObjs => job[o] # "done")
        /\ \E st \in JobStates \ {"none"} : job' = [job EXCEPT ![o] = st]

LEMMA OneJobStep ==
  ASSUME RegistryInv, NEW o \in Objects, OneJob(o)
  PROVE  RegistryInv' /\ Stable
BY JobStep, RegistryKept DEF OneJob, registryVars

LEMMA StartHandlers ==
  ASSUME Safe, StartParser \/ StartRender
  PROVE  QueuesInv' /\ RegistryInv' /\ Stable
<1>0. QueuesInv /\ RegistryInv
  BY DEF Safe
<1>1. /\ toBack # <<>> /\ Arg \in Made /\ Arg \in Objects
      /\ StartRender => Arg \in ViewObjs
  BY <1>0, ArgFacts DEF StartParser, StartRender, Handle
<1>2. OneJob(Arg)
  BY <1>1, ObjectFacts DEF StartParser, StartRender, Jobs, OneJob, JobStates, SceneObjs,
     ViewObjs
<1>3. RegistryInv' /\ Stable
  BY <1>0, <1>1, <1>2, OneJobStep
<1>4. \E op, ms : Handle(op, ms) /\ ms \in {<<>>, <<Verdict("Failed", Arg)>>}
  BY DEF StartParser, StartRender
<1>5. <<>> \in Seq(ValidMessages') /\ <<Verdict("Failed", Arg)>> \in Seq(ValidMessages')
  BY <1>1, <1>3, VerdictValid DEF Codes, Stable
<1> QED
  BY <1>0, <1>3, <1>4, <1>5, HandleStep

LEMMA PauseHandlers ==
  ASSUME Safe, Pause \/ Resume
  PROVE  QueuesInv' /\ RegistryInv' /\ Stable
<1>0. QueuesInv /\ RegistryInv
  BY DEF Safe
<1>1. toBack # <<>> /\ Arg \in Made /\ Arg \in Objects
  BY <1>0, ArgFacts DEF Pause, Resume, Handle
<1>2. OneJob(Arg)
  BY <1>1 DEF Pause, Resume, Jobs, OneJob, JobStates, Busy
<1>3. RegistryInv' /\ Stable
  BY <1>0, <1>1, <1>2, OneJobStep
<1>4. \E op, code : Handle(op, <<Reply(code, Arg)>>) /\ code \in Codes
  BY DEF Pause, Resume, Refusal, Codes
<1> QED
  BY <1>0, <1>1, <1>3, <1>4, ReplyValid, HandleStep DEF Stable

LEMMA StopHandler ==
  ASSUME Safe, Stop
  PROVE  QueuesInv' /\ RegistryInv' /\ Stable
<1>0. QueuesInv /\ RegistryInv
  BY DEF Safe
<1>1. toBack # <<>> /\ Arg \in Made /\ Arg \in Objects
  BY <1>0, ArgFacts DEF Stop, Handle
<1>2. OneJob(Arg)
  BY <1>1 DEF Stop, Jobs, OneJob, JobStates, Busy, Endings
<1>3. RegistryInv' /\ Stable
  BY <1>0, <1>1, <1>2, OneJobStep
<1>4. Arg \in Made'
  BY <1>1, <1>3 DEF Stable
<1>5. CASE ~Busy(Arg)
  <2>1. \E code \in Codes : Handle("Stop", <<Reply(code, Arg)>>)
    BY <1>5 DEF Stop, Refusal, Codes
  <2> QED
    BY <1>0, <1>1, <1>3, <1>4, <2>1, ReplyValid, HandleStep
<1>6. CASE Busy(Arg)
  <2>1. PICK ending \in Endings :
          /\ Handle("Stop", [i \in DOMAIN ending[1] |-> Verdict(ending[1][i], Arg)]
                            \o <<Verdict("Failed", Arg), Reply("Done", Arg)>>)
          /\ job' = [job EXCEPT ![Arg] = ending[2]]
    BY <1>6 DEF Stop, Jobs
  <2> DEFINE first == [i \in DOMAIN ending[1] |-> Verdict(ending[1][i], Arg)]
  <2>2. Verdict("Failed", Arg) \in ValidMessages'
    BY <1>1, <1>4, VerdictValid DEF Codes
  <2>3. <<Verdict("Failed", Arg), Reply("Done", Arg)>> \in Seq(ValidMessages')
    <3>1. <<Reply("Done", Arg)>> \in Seq(ValidMessages')
      BY <1>1, <1>4, ReplyValid DEF Codes
    <3>2. Reply("Done", Arg) \in ValidMessages'
      BY <3>1
    <3> QED
      BY <2>2, <3>2
  <2>4. first \in Seq(ValidMessages')
    <3>1. CASE ending[1] = <<>>
      BY <3>1
    <3>2. CASE ending = <<<<"Done">>, "done">>
      <4>1. first = <<Verdict("Done", Arg)>>
        BY <3>2
      <4>2. Arg \in ViewObjs \/ \E s \in DoneScenes' : Arg = Scene(s)
        <5>1. job'[Arg] = "done"
          BY <1>0, <1>1, <2>1, <3>2 DEF RegistryInv
        <5>2. ASSUME NEW s \in SceneIds, Arg = Scene(s) PROVE s \in DoneScenes'
          BY <1>1, <1>2, <5>1, <5>2, MadeFacts DEF DoneScenes, OneJob
        <5> QED
          BY <1>1, <5>2, ObjectFacts DEF SceneObjs
      <4>3. Verdict("Done", Arg) \in ValidMessages'
        BY <1>1, <1>4, <4>2, VerdictValid DEF Codes
      <4> QED
        BY <4>1, <4>3
    <3>3. CASE ending = <<<<"Failed">>, "failed">>
      <4>1. first = <<Verdict("Failed", Arg)>>
        BY <3>3
      <4> QED
        BY <2>2, <4>1
    <3> QED
      BY <3>1, <3>2, <3>3 DEF Endings
  <2>5. first \o <<Verdict("Failed", Arg), Reply("Done", Arg)>> \in Seq(ValidMessages')
    BY <2>3, <2>4, SeqFacts
  <2> QED
    BY <1>0, <1>3, <2>1, <2>5, HandleStep
<1> QED
  BY <1>5, <1>6

LEMMA JobSteps ==
  ASSUME Safe, NEW o \in Objects, JobDone(o) \/ JobFails(o) \/ ReportFailure(o) \/ RunsOn(o)
  PROVE  QueuesInv' /\ RegistryInv' /\ Stable
<1>0. QueuesInv /\ RegistryInv
  BY DEF Safe
<1>1. OneJob(o)
  BY DEF JobDone, JobFails, ReportFailure, RunsOn, Jobs, OneJob, JobStates
<1>2. RegistryInv' /\ Stable
  BY <1>0, <1>1, OneJobStep
<1>3. o \in Made'
  BY <1>0, <1>2 DEF RegistryInv, Stable, JobDone, JobFails, ReportFailure, RunsOn
<1>4. CASE JobDone(o)
  <2>1. o \in ViewObjs \/ \E s \in DoneScenes' : o = Scene(s)
    <3>1. job'[o] = "done"
      BY <1>0, <1>4 DEF JobDone, Jobs, RegistryInv
    <3> QED
      BY <1>1, <1>3, <3>1, MadeFacts, MadeFacts', ObjectFacts DEF DoneScenes, OneJob,
         SceneObjs, Made
  <2>2. Verdict("Done", o) \in ValidMessages'
    BY <1>3, <2>1, VerdictValid DEF Codes
  <2> QED
    BY <1>0, <1>2, <1>4, <2>2, ValidStable, SeqFacts DEF QueuesInv, JobDone
<1>5. CASE ReportFailure(o)
  <2>1. Verdict("Failed", o) \in ValidMessages'
    BY <1>3, VerdictValid DEF Codes
  <2> QED
    BY <1>0, <1>2, <1>5, <2>1, ValidStable, SeqFacts DEF QueuesInv, ReportFailure
<1>6. CASE JobFails(o) \/ RunsOn(o)
  BY <1>0, <1>2, <1>6, ValidStable DEF QueuesInv, JobFails, RunsOn
<1> QED
  BY <1>4, <1>5, <1>6

LEMMA CreateSceneStep ==
  ASSUME Safe, CreateScene
  PROVE  QueuesInv' /\ RegistryInv' /\ Stable
<1>0. QueuesInv /\ RegistryInv
  BY DEF Safe
<1>1. CASE Handle("CreateScene", <<Reply("Failed", Scene(0))>>) /\ UNCHANGED registryVars
  <2>1. RegistryInv' /\ Stable
    BY <1>0, <1>1, RegistryKept
  <2> QED
    BY <1>0, <1>1, <2>1, ReplyValid, HandleStep DEF Codes
<1> DEFINE sid == scenecounter + 1
<1>2. CASE /\ Handle("CreateScene", <<Reply("Done", Scene(sid))>>)
           /\ sid \in SceneIds /\ scenecounter' = sid
           /\ job' = [job EXCEPT ![Scene(sid)] = "idle"]
           /\ UNCHANGED <<viewcounter, view2scene>>
  <2>0. scenecounter \in Nat
    BY <1>0, IdFacts DEF RegistryInv
  <2>1. Made' = Made \cup {Scene(sid)}
    <3>1. \A s \in SceneIds : s <= sid <=> s <= scenecounter \/ s = sid
      BY <2>0, IdFacts
    <3> QED
      BY <1>2, <3>1 DEF Made
  <2>2. \A o \in Objects : o # Scene(sid) => job'[o] = job[o]
    BY <1>0, <1>2 DEF RegistryInv
  <2>3. DoneScenes \subseteq DoneScenes'
    <3> SUFFICES ASSUME NEW s \in DoneScenes PROVE s \in DoneScenes'
      OBVIOUS
    <3>1. s \in SceneIds /\ s <= scenecounter /\ s \in Nat
      BY IdFacts DEF DoneScenes
    <3>2. s # sid /\ s <= sid
      BY <2>0, <3>1
    <3> QED
      BY <1>2, <2>2, <3>1, <3>2, MadeFacts, ObjectFacts DEF DoneScenes
  <2>4. job' \in [Objects -> JobStates]
    BY <1>0, <1>2 DEF RegistryInv, JobStates
  <2>5. NoViewWithoutScene'
    <3>1. \A s \in SceneIds : job'[Scene(s)] = "none" => job[Scene(s)] = "none"
      BY <1>0, <1>2, MadeFacts DEF RegistryInv
    <3>2. \A v \in ViewIds : job'[View(v)] = job[View(v)]
      BY <2>2, MadeFacts, ObjectFacts
    <3> QED
      BY <1>0, <1>2, <3>1, <3>2 DEF RegistryInv, NoViewWithoutScene, ViewsOf
  <2>6. RegistryInv' /\ Stable
    BY <1>0, <1>2, <2>1, <2>2, <2>3, <2>4, <2>5 DEF RegistryInv, Stable
  <2>7. Scene(sid) \in Objects /\ Scene(sid) \in Made'
    BY <1>2, <2>1, MadeFacts
  <2> QED
    BY <1>0, <1>2, <2>6, <2>7, ReplyValid, HandleStep DEF Codes
<1> QED
  BY <1>1, <1>2 DEF CreateScene, registryVars

LEMMA CreateViewStep ==
  ASSUME Safe, CreateView
  PROVE  QueuesInv' /\ RegistryInv' /\ Stable
<1>0. QueuesInv /\ RegistryInv
  BY DEF Safe
<1>1. CASE /\ \E code \in Codes \ {"Done"} : Handle("CreateView", <<Reply(code, View(0))>>)
           /\ UNCHANGED registryVars
  <2>1. RegistryInv' /\ Stable
    BY <1>0, <1>1, RegistryKept
  <2> QED
    BY <1>0, <1>1, <2>1, ReplyValid, HandleStep
<1> DEFINE vid == viewcounter + 1
<1>2. CASE /\ Handle("CreateView", <<Reply("Done", View(vid))>>)
           /\ Viewable(Arg)
           /\ vid \in ViewIds /\ viewcounter' = vid
           /\ job' = [job EXCEPT ![View(vid)] = "idle"]
           /\ view2scene' = [view2scene EXCEPT ![vid] = Arg[2]]
           /\ UNCHANGED scenecounter
  <2>0. viewcounter \in Nat
    BY <1>0, IdFacts DEF RegistryInv
  <2>1. PICK t \in DoneScenes : Arg = Scene(t)
    BY <1>0, <1>2, ArgFacts DEF Handle
  <2>2. t \in SceneIds /\ job[Scene(t)] # "none" /\ Arg[2] = t
    BY <1>2, <2>1, ObjectFacts DEF DoneScenes, Viewable
  <2>3. Made' = Made \cup {View(vid)}
    <3>1. \A v \in ViewIds : v <= vid <=> v <= viewcounter \/ v = vid
      BY <2>0, IdFacts
    <3> QED
      BY <1>2, <3>1 DEF Made
  <2>4. \A o \in Objects : o # View(vid) => job'[o] = job[o]
    BY <1>0, <1>2 DEF RegistryInv
  <2>5. DoneScenes' = DoneScenes
    BY <1>2, <2>4, MadeFacts, ObjectFacts DEF DoneScenes
  <2>6. job' \in [Objects -> JobStates] /\ view2scene' \in [ViewIds -> SceneIds \cup {0}]
    BY <1>0, <1>2, <2>2 DEF RegistryInv, JobStates
  <2>7. \A v \in ViewIds : v <= vid => view2scene'[v] \in DoneScenes'
    <3> SUFFICES ASSUME NEW v \in ViewIds, v <= vid PROVE view2scene'[v] \in DoneScenes'
      OBVIOUS
    <3>1. v = vid \/ v <= viewcounter
      BY <2>0, IdFacts
    <3>2. v <= viewcounter => v # vid
      BY <2>0, IdFacts
    <3> QED
      BY <1>0, <1>2, <2>1, <2>2, <2>5, <3>1, <3>2 DEF RegistryInv
  <2>8. NoViewWithoutScene'
    <3>1. \A s \in SceneIds : job'[Scene(s)] = job[Scene(s)]
      BY <2>4, MadeFacts, ObjectFacts
    <3>2. \A v \in ViewIds : v # vid =>
             job'[View(v)] = job[View(v)] /\ view2scene'[v] = view2scene[v]
      BY <1>0, <1>2, <2>4, MadeFacts, ObjectFacts DEF RegistryInv
    <3>3. view2scene'[vid] = t
      BY <1>0, <1>2, <2>2 DEF RegistryInv
    <3> QED
      BY <1>0, <2>2, <3>1, <3>2, <3>3 DEF RegistryInv, NoViewWithoutScene, ViewsOf
  <2>9. RegistryInv' /\ Stable
    BY <1>0, <1>2, <2>3, <2>4, <2>5, <2>6, <2>7, <2>8 DEF RegistryInv, Stable
  <2>10. View(vid) \in Objects /\ View(vid) \in Made'
    BY <1>2, <2>3, MadeFacts
  <2> QED
    BY <1>0, <1>2, <2>9, <2>10, ReplyValid, HandleStep DEF Codes
<1>3. ASSUME Handle("CreateView",
               <<Reply(IF job[Arg] # "none" /\ ~Viewable(Arg) THEN "NotNow" ELSE "Failed",
                       View(0))>>)
      PROVE  \E code \in Codes \ {"Done"} : Handle("CreateView", <<Reply(code, View(0))>>)
  BY <1>3 DEF Codes
<1> QED
  BY <1>1, <1>2, <1>3 DEF CreateView, registryVars

LEMMA CloseHandlers ==
  ASSUME Safe, CloseScene \/ CloseView
  PROVE  QueuesInv' /\ RegistryInv' /\ Stable
<1>0. QueuesInv /\ RegistryInv
  BY DEF Safe
<1>1. /\ toBack # <<>> /\ Arg \in Made /\ Arg \in Objects
      /\ CloseScene => Arg \in SceneObjs
      /\ CloseView => Arg \in ViewObjs
  BY <1>0, ArgFacts DEF CloseScene, CloseView, Handle
<1>2. UNCHANGED <<scenecounter, viewcounter, view2scene>> /\ Made' = Made
  BY DEF CloseScene, CloseView, Made
<1>3. /\ job' \in [Objects -> JobStates]
      /\ \A o \in Objects : job'[o] = job[o] \/ job'[o] = "none"
  BY <1>0 DEF CloseScene, CloseView, RegistryInv, JobStates
<1>4. DoneScenes \subseteq DoneScenes'
  BY <1>2, <1>3, MadeFacts DEF DoneScenes
<1>5. NoViewWithoutScene'
  <2> SUFFICES ASSUME NEW s \in SceneIds, job'[Scene(s)] = "none",
                      NEW v \in ViewIds, view2scene[v] = s, job'[View(v)] # "none"
               PROVE  FALSE
    BY <1>2 DEF NoViewWithoutScene, ViewsOf
  <2>1. job[View(v)] # "none"
    BY <1>3, MadeFacts
  <2>2. job[Scene(s)] # "none"
    BY <1>0, <2>1 DEF RegistryInv, NoViewWithoutScene, ViewsOf
  <2>3. Arg = Scene(s)
    BY <1>0, <2>2, MadeFacts DEF CloseScene, CloseView, RegistryInv
  <2>4. CloseScene /\ ViewsOf(s) = {}
    BY <1>1, <2>2, <2>3, ObjectFacts DEF CloseScene, ViewObjs
  <2> QED
    BY <2>1, <2>4 DEF ViewsOf
<1>6. RegistryInv' /\ Stable
  BY <1>0, <1>2, <1>3, <1>4, <1>5 DEF RegistryInv, Stable
<1>7. \E op : \E code \in Codes : Handle(op, <<Reply(code, Arg)>>)
  <2>1. (IF job[Arg] = "none" THEN "Failed" ELSE "Done") \in Codes
        /\ (CASE job[Arg] = "none" -> "Failed" [] ViewsOf(Arg[2]) # {} -> "NotNow"
               [] OTHER -> "Done") \in Codes
    BY DEF Codes
  <2> QED
    BY <2>1 DEF CloseScene, CloseView
<1> QED
  BY <1>0, <1>1, <1>2, <1>6, <1>7, ReplyValid, HandleStep

LEMMA BackStep == ASSUME Safe, BackNext, UNCHANGED frontVars PROVE Safe'
<1>1. QueuesInv' /\ RegistryInv' /\ Stable
  BY StartHandlers, PauseHandlers, StopHandler, JobSteps, CreateSceneStep, CreateViewStep,
     CloseHandlers DEF BackNext, BackHandlers
<1> QED
  BY <1>1, FrontKept DEF Safe
-----------------------------------------------------------------------------
(* Replies and the waits they end.  What is to be answered and what has     *)
(* been are as many as the waits given up and the present one, whose answer *)
(* is the last.                                                             *)
Asks == {r \in Requests : r.op \notin {"StartParser", "StartRender"}}
Replies == {m \in Messages : m.kind = "reply"}
Answers(m, c) ==
  /\ m \in Replies
  /\ m.code = "Done" => /\ c.op = "CreateScene" => m.obj \in SceneObjs
                        /\ c.op = "CreateView" => m.obj \in ViewObjs
  /\ c.op \notin {"CreateScene", "CreateView"} => m.obj = c.obj

Waiting == IF call = NoCall THEN 0 ELSE 1
AtBack == \E k \in 1..Len(toBack) :
            /\ toBack[k] = call /\ call \in Asks
            /\ \A j \in 1..Len(toBack) : j > k => toBack[j] \notin Asks
OnItsWay == /\ \A j \in 1..Len(toBack) : toBack[j] \notin Asks
            /\ \E k \in 1..Len(toFront) :
                 /\ Answers(toFront[k], call)
                 /\ \A j \in 1..Len(toFront) : j > k => toFront[j] \notin Replies
MatchInv == /\ Count(toFront, Replies) + Count(toBack, Asks) = stale + Waiting
            /\ call # NoCall => AtBack \/ OnItsWay

LEMMA QueueTypes ==
  ASSUME QueuesInv
  PROVE  toBack \in Seq(Requests) /\ toFront \in Seq(Messages)
<1>1. ValidRequests \subseteq Requests /\ ValidMessages \subseteq Messages
  BY DEF ValidRequests, ValidMessages
<1> QED
  BY <1>1 DEF QueuesInv

AnswersHead(ms) ==
  \/ Head(toBack) \notin Asks /\ \A i \in 1..Len(ms) : ms[i] \notin Replies
  \/ /\ Head(toBack) \in Asks /\ Len(ms) >= 1 /\ Answers(ms[Len(ms)], Head(toBack))
     /\ \A i \in 1..Len(ms) : i # Len(ms) => ms[i] \notin Replies

LEMMA HandlerMatch ==
  ASSUME Safe, MatchInv, UNCHANGED frontVars, toBack # <<>>, toBack' = Tail(toBack),
         NEW ms \in Seq(Messages), toFront' = toFront \o ms, AnswersHead(ms)
  PROVE  MatchInv'
<1>1. toBack \in Seq(Requests) /\ toFront \in Seq(Messages)
  BY QueueTypes DEF Safe
<1>2. /\ Count(toFront', Replies) = Count(toFront, Replies) + Count(ms, Replies)
      /\ Count(toBack, Asks) = Count(Tail(toBack), Asks) + (IF Head(toBack) \in Asks THEN 1 ELSE 0)
      /\ Count(Tail(toBack), Asks) \in Nat /\ Count(toFront, Replies) \in Nat
  <2>1. Count(toFront \o ms, Replies) = Count(toFront, Replies) + Count(ms, Replies)
    BY <1>1, CountConcat
  <2>2. Tail(toBack) \in Seq(Requests)
    BY <1>1
  <2>3. Count(toBack, Asks)
          = Count(Tail(toBack), Asks) + (IF Head(toBack) \in Asks THEN 1 ELSE 0)
    BY <1>1, CountTail
  <2>4. Count(Tail(toBack), Asks) \in Nat
    BY <2>2, PlacesFinite
  <2>5. Count(toFront, Replies) \in Nat
    BY <1>1, PlacesFinite
  <2> QED
    BY <2>1, <2>3, <2>4, <2>5
<1>3. Count(ms, Replies) = IF Head(toBack) \in Asks THEN 1 ELSE 0
  <2>1. CASE Head(toBack) \notin Asks
    BY <2>1, CountNone DEF AnswersHead
  <2>2. CASE Head(toBack) \in Asks
    <3>1. Len(ms) \in 1..Len(ms) /\ ms[Len(ms)] \in Replies
      BY <2>2 DEF AnswersHead, Answers
    <3> QED
      BY <2>2, <3>1, CountOne DEF AnswersHead
  <2> QED
    BY <2>1, <2>2
<1>4. Waiting' = Waiting /\ stale' = stale /\ call' = call
  BY DEF Waiting, frontVars
<1>5. Count(toFront', Replies) + Count(toBack', Asks) = stale' + Waiting'
  BY <1>2, <1>3, <1>4 DEF MatchInv
<1>6. /\ Len(toBack') = Len(toBack) - 1 /\ Len(toBack) \in Nat /\ Len(toBack) >= 1
      /\ \A i \in 1..Len(toBack') : toBack'[i] = toBack[i + 1]
      /\ Head(toBack) = toBack[1]
  BY <1>1
<1>7. /\ Len(toFront') = Len(toFront) + Len(ms) /\ Len(toFront) \in Nat /\ Len(ms) \in Nat
      /\ \A i \in 1..Len(toFront) : toFront'[i] = toFront[i]
      /\ \A i \in 1..Len(ms) : toFront'[Len(toFront) + i] = ms[i]
      /\ \A i \in 1..Len(toFront') : i > Len(toFront) =>
           i - Len(toFront) \in 1..Len(ms) /\ toFront'[i] = ms[i - Len(toFront)]
  BY <1>1
<1>8. CASE AtBack
  <2>1. PICK k \in 1..Len(toBack) :
          /\ toBack[k] = call /\ call \in Asks
          /\ \A j \in 1..Len(toBack) : j > k => toBack[j] \notin Asks
    BY <1>8 DEF AtBack
  <2>2. CASE k > 1
    <3>1. k - 1 \in 1..Len(toBack') /\ toBack'[k - 1] = call'
      BY <1>4, <1>6, <2>1, <2>2
    <3>2. \A j \in 1..Len(toBack') : j > k - 1 => toBack'[j] \notin Asks
      BY <1>6, <2>1, <2>2
    <3> QED
      BY <1>4, <1>5, <2>1, <3>1, <3>2 DEF MatchInv, AtBack
  <2>3. CASE k = 1
    <3>1. \A j \in 1..Len(toBack') : toBack'[j] \notin Asks
      BY <1>6, <2>1, <2>3
    <3>2. Len(ms) >= 1 /\ Answers(ms[Len(ms)], call)
          /\ \A i \in 1..Len(ms) : i # Len(ms) => ms[i] \notin Replies
      BY <1>6, <2>1, <2>3 DEF AnswersHead
    <3>3. /\ Len(toFront') \in 1..Len(toFront') /\ toFront'[Len(toFront')] = ms[Len(ms)]
          /\ \A j \in 1..Len(toFront') : ~(j > Len(toFront'))
      BY <1>7, <3>2
    <3> QED
      BY <1>4, <1>5, <3>1, <3>2, <3>3 DEF MatchInv, OnItsWay, Answers
  <2> QED
    BY <2>2, <2>3
<1>9. CASE OnItsWay
  <2>1. PICK k \in 1..Len(toFront) :
          /\ Answers(toFront[k], call)
          /\ \A j \in 1..Len(toFront) : j > k => toFront[j] \notin Replies
    BY <1>9 DEF OnItsWay
  <2>2. \A j \in 1..Len(toBack') : toBack'[j] \notin Asks
    BY <1>6, <1>9 DEF OnItsWay
  <2>3. \A i \in 1..Len(ms) : ms[i] \notin Replies
    <3>1. Head(toBack) \notin Asks
      BY <1>6, <1>9 DEF OnItsWay
    <3> QED
      BY <3>1 DEF AnswersHead
  <2>4. k \in 1..Len(toFront') /\ toFront'[k] = toFront[k]
    BY <1>7, <2>1
  <2>5. \A j \in 1..Len(toFront') : j > k => toFront'[j] \notin Replies
    BY <1>7, <2>1, <2>3
  <2> QED
    BY <1>4, <1>5, <2>1, <2>2, <2>4, <2>5 DEF MatchInv, OnItsWay, Answers
<1> QED
  BY <1>4, <1>5, <1>8, <1>9 DEF MatchInv

-----------------------------------------------------------------------------
(* Without a fault the two sides differ about nothing but the object whose *)
(* creation or closing has been answered and not yet been heard of.        *)
Creates == {"CreateScene", "CreateView"}
Closes == {"CloseScene", "CloseView"}
Agree(o) == front[o] = "Unknown" <=> job[o] = "none"
NoReply == \A k \in 1..Len(toFront) : toFront[k] \notin Replies
Sent(m) == \E k \in 1..Len(toFront) : toFront[k] = m
NewsOf(m) ==
  LET decided == m.code = "Done" /\ call.op \in Creates \cup Closes IN
    /\ \A o \in Objects : Agree(o) \/ (decided /\ o = m.obj)
    /\ decided => (job[m.obj] = "none" <=> call.op \in Closes)
    /\ call.op = "CloseView" => job[Scene(view2scene[call.obj[2]])] # "none"
AgreeInv ==
  faults = 0 =>
    /\ call # NoCall /\ call.op # "CreateScene" => front[call.obj] # "Unknown"
    /\ \/ NoReply /\ \A o \in Objects : Agree(o)
       \/ /\ call # NoCall
          /\ \E m \in Replies : Sent(m) /\ NewsOf(m)

IInv == Safe /\ MatchInv /\ AgreeInv

-----------------------------------------------------------------------------
(* What the handlers answer, and what that does to the objects.            *)
Settles(m) == m.code = "Done" /\ Head(toBack).op \in Creates \cup Closes
SameJobs == \A o \in Objects : job'[o] = "none" <=> job[o] = "none"
Effect(m) ==
  /\ \A o \in Objects : (job'[o] = "none" <=> job[o] = "none") \/ (Settles(m) /\ o = m.obj)
  /\ Settles(m) => (job'[m.obj] = "none" <=> Head(toBack).op \in Closes)
  /\ Head(toBack).op = "CloseView" /\ job[Arg] # "none" =>
       job'[Scene(view2scene'[Arg[2]])] # "none"
Handled(ms) == toBack # <<>> /\ toBack' = Tail(toBack) /\ toFront' = toFront \o ms
Answered(ms, m) ==
  /\ Handled(ms) /\ Head(toBack) \in Asks /\ Answers(m, Head(toBack))
  /\ Len(ms) >= 1 /\ ms[Len(ms)] = m
  /\ \A i \in 1..Len(ms) : i # Len(ms) => ms[i] \notin Replies

LEMMA OneAnswer ==
  ASSUME Safe, NEW op \in Ops \ {"StartParser", "StartRender"}, NEW code \in Codes,
         NEW o \in Objects \cup {Scene(0), View(0)}, Handle(op, <<Reply(code, o)>>),
         code = "Done" => /\ op = "CreateScene" => o \in SceneObjs
                          /\ op = "CreateView" => o \in ViewObjs,
         op \notin {"CreateScene", "CreateView"} => o = Arg
  PROVE  <<Reply(code, o)>> \in Seq(Messages) /\ Answered(<<Reply(code, o)>>, Reply(code, o))
<1>1. Reply(code, o) \in Replies /\ <<Reply(code, o)>> \in Seq(Messages)
  BY DEF Reply, Replies, Messages
<1>2. Head(toBack) \in Requests /\ Head(toBack) \in Asks /\ Head(toBack).op = op
  BY HeadRequest DEF Safe, Handle, ValidRequests, Asks
<1>3. Answers(Reply(code, o), Head(toBack))
  BY <1>1, <1>2 DEF Answers, Arg, Reply
<1>4. Handled(<<Reply(code, o)>>)
  BY DEF Handled, Handle
<1> QED
  BY <1>1, <1>2, <1>3, <1>4 DEF Answered

LEMMA StartEffect ==
  ASSUME Safe, StartParser \/ StartRender
  PROVE  /\ Head(toBack) \notin Asks /\ SameJobs /\ UNCHANGED view2scene
         /\ \E ms \in Seq(Messages) :
              Handled(ms) /\ \A i \in 1..Len(ms) : ms[i] \notin Replies
<1>0. QueuesInv /\ job \in [Objects -> JobStates]
  BY DEF Safe, RegistryInv
<1>1. Head(toBack) \notin Asks
  BY DEF StartParser, StartRender, Handle, Asks
<1>2. toBack # <<>> /\ Arg \in Objects
  BY <1>0, ArgFacts DEF StartParser, StartRender, Handle
<1>3. SameJobs /\ UNCHANGED view2scene
  BY <1>0, <1>2 DEF SameJobs, StartParser, StartRender, Jobs
<1>4. Handled(<<>>) \/ Handled(<<Verdict("Failed", Arg)>>)
  BY DEF StartParser, StartRender, Handle, Handled
<1>5. Verdict("Failed", Arg) \in Messages /\ Verdict("Failed", Arg) \notin Replies
  BY <1>2 DEF Verdict, Messages, Replies, Codes
<1>6. \A m \in Messages \ Replies :
        <<m>> \in Seq(Messages) /\ \A i \in 1..Len(<<m>>) : <<m>>[i] \notin Replies
  OBVIOUS
<1>7. <<>> \in Seq(Messages) /\ \A i \in 1..Len(<<>>) : <<>>[i] \notin Replies
  OBVIOUS
<1> QED
  BY <1>1, <1>3, <1>4, <1>5, <1>6, <1>7

LEMMA PauseEffect ==
  ASSUME Safe, Pause \/ Resume
  PROVE  \E ms \in Seq(Messages), m \in Messages : Answered(ms, m) /\ Effect(m)
<1>0. QueuesInv /\ job \in [Objects -> JobStates]
  BY DEF Safe, RegistryInv
<1>1. toBack # <<>> /\ Arg \in Objects
  BY <1>0, ArgFacts DEF Pause, Resume, Handle
<1>2. SameJobs
  BY <1>0, <1>1 DEF SameJobs, Pause, Resume, Jobs, Busy
<1>3. PICK op \in {"Pause", "Resume"}, code \in Codes : Handle(op, <<Reply(code, Arg)>>)
  BY DEF Pause, Resume, Refusal, Codes
<1>4. op \in Ops
  BY DEF Ops
<1>5. /\ <<Reply(code, Arg)>> \in Seq(Messages)
      /\ Answered(<<Reply(code, Arg)>>, Reply(code, Arg))
  BY <1>1, <1>3, <1>4, OneAnswer
<1>6. Effect(Reply(code, Arg))
  BY <1>2, <1>3 DEF Effect, Settles, SameJobs, Handle, Creates, Closes
<1>7. Reply(code, Arg) \in Messages
  BY <1>1 DEF Reply, Messages
<1> QED
  BY <1>5, <1>6, <1>7

LEMMA TwoMore ==
  ASSUME NEW S, NEW q \in Seq(S), NEW a \in S, NEW b \in S
  PROVE  /\ q \o <<a, b>> \in Seq(S)
         /\ Len(q \o <<a, b>>) = Len(q) + 2 /\ Len(q) \in Nat
         /\ (q \o <<a, b>>)[Len(q) + 1] = a /\ (q \o <<a, b>>)[Len(q) + 2] = b
         /\ \A i \in 1..Len(q) : (q \o <<a, b>>)[i] = q[i] /\ q[i] \in S
<1>1. <<a, b>> \in Seq(S) /\ Len(<<a, b>>) = 2
  OBVIOUS
<1>2. q \o <<a, b>> \in Seq(S) /\ Len(q \o <<a, b>>) = Len(q) + 2 /\ Len(q) \in Nat
  BY <1>1
<1>3. (q \o <<a, b>>)[Len(q) + 1] = a /\ (q \o <<a, b>>)[Len(q) + 2] = b
  BY <1>1, <1>2
<1>4. \A i \in 1..Len(q) : (q \o <<a, b>>)[i] = q[i] /\ q[i] \in S
  BY <1>1, <1>2
<1> QED
  BY <1>2, <1>3, <1>4

LEMMA StopEffect ==
  ASSUME Safe, Stop
  PROVE  \E ms \in Seq(Messages), m \in Messages : Answered(ms, m) /\ Effect(m)
<1>0. QueuesInv /\ job \in [Objects -> JobStates]
  BY DEF Safe, RegistryInv
<1>1. toBack # <<>> /\ Arg \in Objects
  BY <1>0, ArgFacts DEF Stop, Handle
<1>2. SameJobs
  BY <1>0, <1>1 DEF SameJobs, Stop, Jobs, Busy, Endings
<1>3. Head(toBack).op = "Stop" /\ Head(toBack) \in Requests /\ "Stop" \in Ops
  BY <1>0, HeadRequest DEF Stop, Handle, ValidRequests, Ops
<1>4. Effect(Reply("Done", Arg)) /\ Effect(Reply("NotNow", Arg)) /\ Effect(Reply("Failed", Arg))
  BY <1>2, <1>3 DEF Effect, Settles, SameJobs, Creates, Closes
<1>5. CASE ~Busy(Arg)
  <2>1. PICK code \in Codes : Handle("Stop", <<Reply(code, Arg)>>)
    BY <1>5 DEF Stop, Refusal, Codes
  <2>2. /\ <<Reply(code, Arg)>> \in Seq(Messages)
        /\ Answered(<<Reply(code, Arg)>>, Reply(code, Arg))
    BY <1>1, <1>3, <2>1, OneAnswer
  <2>3. Reply(code, Arg) \in Messages /\ Effect(Reply(code, Arg))
    BY <1>1, <1>4 DEF Reply, Messages, Codes
  <2> QED
    BY <2>2, <2>3
<1>6. CASE Busy(Arg)
  <2>1. PICK ending \in Endings :
          Handle("Stop", [i \in DOMAIN ending[1] |-> Verdict(ending[1][i], Arg)]
                         \o <<Verdict("Failed", Arg), Reply("Done", Arg)>>)
    BY <1>6 DEF Stop
  <2> DEFINE first == [i \in DOMAIN ending[1] |-> Verdict(ending[1][i], Arg)]
             last == <<Verdict("Failed", Arg), Reply("Done", Arg)>>
             verdicts == {m \in Messages : m.kind = "verdict"}
  <2>2. Verdict("Failed", Arg) \in verdicts /\ Verdict("Done", Arg) \in verdicts
        /\ Reply("Done", Arg) \in Messages /\ Reply("Done", Arg) \in Replies
    BY <1>1 DEF Verdict, Reply, Messages, Codes, Replies
  <2>3. first \in Seq(verdicts)
    <3>1. CASE ending[1] = <<>>
      BY <3>1
    <3>2. CASE ending[1] = <<"Done">>
      <4>1. first = <<Verdict("Done", Arg)>>
        BY <3>2
      <4> HIDE DEF first, verdicts
      <4> QED
        BY <2>2, <4>1
    <3>3. CASE ending[1] = <<"Failed">>
      <4>1. first = <<Verdict("Failed", Arg)>>
        BY <3>3
      <4> HIDE DEF first, verdicts
      <4> QED
        BY <2>2, <4>1
    <3> QED
      BY <3>1, <3>2, <3>3 DEF Endings
  <2>4. verdicts \subseteq Messages /\ \A m \in verdicts : m \notin Replies
    BY DEF Replies
  <2> HIDE DEF first, verdicts
  <2>5. first \in Seq(Messages)
    BY <2>3, <2>4
  <2>6. /\ first \o last \in Seq(Messages)
        /\ Len(first \o last) = Len(first) + 2 /\ Len(first) \in Nat
        /\ (first \o last)[Len(first) + 2] = Reply("Done", Arg)
        /\ \A i \in 1..(Len(first) + 1) : (first \o last)[i] \notin Replies
    <3>1. /\ first \o last \in Seq(Messages)
          /\ Len(first \o last) = Len(first) + 2 /\ Len(first) \in Nat
          /\ (first \o last)[Len(first) + 1] = Verdict("Failed", Arg)
          /\ (first \o last)[Len(first) + 2] = Reply("Done", Arg)
          /\ \A i \in 1..Len(first) : (first \o last)[i] = first[i]
      BY <2>2, <2>4, <2>5, TwoMore
    <3>2. \A i \in 1..Len(first) : first[i] \in verdicts
      BY <2>3
    <3> QED
      BY <2>2, <2>4, <3>1, <3>2
  <2>7. Handled(first \o last)
    BY <2>1 DEF Handled, Handle, first, last
  <2>8. Answers(Reply("Done", Arg), Head(toBack)) /\ Head(toBack) \in Asks
    BY <1>3, <2>2 DEF Answers, Arg, Reply, Asks
  <2>9. Answered(first \o last, Reply("Done", Arg))
    BY <2>6, <2>7, <2>8 DEF Answered
  <2> QED
    BY <1>4, <2>2, <2>6, <2>9
<1> QED
  BY <1>5, <1>6

LEMMA CreateSceneEffect ==
  ASSUME Safe, CreateScene
  PROVE  \E ms \in Seq(Messages), m \in Messages : Answered(ms, m) /\ Effect(m)
<1>0. QueuesInv /\ job \in [Objects -> JobStates] /\ "CreateScene" \in Ops
  BY DEF Safe, RegistryInv, Ops
<1>1. CASE Handle("CreateScene", <<Reply("Failed", Scene(0))>>) /\ UNCHANGED job
  <2>1. /\ <<Reply("Failed", Scene(0))>> \in Seq(Messages)
        /\ Answered(<<Reply("Failed", Scene(0))>>, Reply("Failed", Scene(0)))
    BY <1>0, <1>1, OneAnswer DEF Codes
  <2>2. Effect(Reply("Failed", Scene(0))) /\ Reply("Failed", Scene(0)) \in Messages
    BY <1>1 DEF Effect, Settles, Reply, Messages, Codes, Handle
  <2> QED
    BY <2>1, <2>2
<1> DEFINE o == Scene(scenecounter + 1)
<1>2. CASE /\ Handle("CreateScene", <<Reply("Done", o)>>)
           /\ scenecounter + 1 \in SceneIds
           /\ job' = [job EXCEPT ![o] = "idle"]
  <2>0. o \in Objects /\ o \in SceneObjs
    BY <1>2, MadeFacts DEF SceneObjs
  <2> HIDE DEF o
  <2>1. <<Reply("Done", o)>> \in Seq(Messages) /\ Answered(<<Reply("Done", o)>>, Reply("Done", o))
    BY <1>0, <1>2, <2>0, OneAnswer DEF Codes
  <2>2. \A p \in Objects : p # o => job'[p] = job[p]
    BY <1>0, <1>2, <2>0
  <2>3. Head(toBack).op = "CreateScene"
    BY <1>2 DEF Handle
  <2>4. job'[o] = "idle"
    BY <1>0, <1>2, <2>0
  <2>5. Effect(Reply("Done", o))
    BY <2>2, <2>3, <2>4 DEF Effect, Settles, Reply, Creates, Closes
  <2> QED
    BY <2>0, <2>1, <2>5 DEF Reply, Messages, Codes
<1> QED
  BY <1>1, <1>2 DEF CreateScene

LEMMA CreateViewEffect ==
  ASSUME Safe, CreateView
  PROVE  \E ms \in Seq(Messages), m \in Messages : Answered(ms, m) /\ Effect(m)
<1>0. QueuesInv /\ job \in [Objects -> JobStates] /\ "CreateView" \in Ops
  BY DEF Safe, RegistryInv, Ops
<1>1. ASSUME NEW code \in Codes \ {"Done"}, Handle("CreateView", <<Reply(code, View(0))>>),
             UNCHANGED job
      PROVE  \E ms \in Seq(Messages), m \in Messages : Answered(ms, m) /\ Effect(m)
  <2>1. /\ <<Reply(code, View(0))>> \in Seq(Messages)
        /\ Answered(<<Reply(code, View(0))>>, Reply(code, View(0)))
    BY <1>0, <1>1, OneAnswer
  <2>2. Effect(Reply(code, View(0))) /\ Reply(code, View(0)) \in Messages
    BY <1>1 DEF Effect, Settles, Reply, Messages, Handle
  <2> QED
    BY <2>1, <2>2
<1> DEFINE o == View(viewcounter + 1)
<1>2. CASE /\ Handle("CreateView", <<Reply("Done", o)>>)
           /\ viewcounter + 1 \in ViewIds
           /\ job' = [job EXCEPT ![o] = "idle"]
  <2>0. o \in Objects /\ o \in ViewObjs
    BY <1>2, MadeFacts DEF ViewObjs
  <2> HIDE DEF o
  <2>1. <<Reply("Done", o)>> \in Seq(Messages) /\ Answered(<<Reply("Done", o)>>, Reply("Done", o))
    BY <1>0, <1>2, <2>0, OneAnswer DEF Codes
  <2>2. \A p \in Objects : p # o => job'[p] = job[p]
    BY <1>0, <1>2, <2>0
  <2>3. Head(toBack).op = "CreateView"
    BY <1>2 DEF Handle
  <2>4. job'[o] = "idle"
    BY <1>0, <1>2, <2>0
  <2>5. Effect(Reply("Done", o))
    BY <2>2, <2>3, <2>4 DEF Effect, Settles, Reply, Creates, Closes
  <2> QED
    BY <2>0, <2>1, <2>5 DEF Reply, Messages, Codes
<1>3. (IF job[Arg] # "none" /\ ~Viewable(Arg) THEN "NotNow" ELSE "Failed") \in Codes \ {"Done"}
  BY DEF Codes
<1> QED
  BY <1>1, <1>2, <1>3 DEF CreateView

(* What is closed is gone, and a scene is there as long as it has a view.  *)
LEMMA CloseEffect ==
  ASSUME Safe, CloseScene \/ CloseView
  PROVE  \E ms \in Seq(Messages), m \in Messages : Answered(ms, m) /\ Effect(m)
<1>0. QueuesInv /\ job \in [Objects -> JobStates]
  BY DEF Safe, RegistryInv
<1>1. /\ toBack # <<>> /\ Arg \in Objects
      /\ CloseScene => Arg \in SceneObjs
      /\ CloseView => Arg \in ViewObjs
  BY <1>0, ArgFacts DEF CloseScene, CloseView, Handle
<1>2. PICK op \in {"CloseScene", "CloseView"}, code \in Codes :
        /\ Handle(op, <<Reply(code, Arg)>>)
        /\ job' = IF code = "Done" THEN [job EXCEPT ![Arg] = "none"] ELSE job
        /\ code = "Done" => job[Arg] # "none"
        /\ op = "CloseView" => CloseView
  <2>1. CASE CloseView
    <3>1. job[Arg] = "none" => [job EXCEPT ![Arg] = "none"] = job
      BY <1>0, <1>1
    <3> QED
      BY <2>1, <3>1 DEF CloseView, Codes
  <2>2. CASE CloseScene
    <3>1. job[Arg] = "none" => [job EXCEPT ![Arg] = "none"] = job
      BY <1>0, <1>1
    <3>2. CASE job[Arg] = "none"
      BY <2>2, <3>1, <3>2 DEF CloseScene, Codes
    <3>3. CASE job[Arg] # "none" /\ ViewsOf(Arg[2]) # {}
      BY <2>2, <3>3 DEF CloseScene, Codes
    <3>4. CASE job[Arg] # "none" /\ ViewsOf(Arg[2]) = {}
      BY <2>2, <3>4 DEF CloseScene, Codes
    <3> QED
      BY <3>2, <3>3, <3>4
  <2> QED
    BY <2>1, <2>2
<1>3. op \in Ops /\ Head(toBack).op = op
  BY <1>2 DEF Ops, Handle
<1>4. /\ <<Reply(code, Arg)>> \in Seq(Messages)
      /\ Answered(<<Reply(code, Arg)>>, Reply(code, Arg))
  BY <1>1, <1>2, <1>3, OneAnswer
<1>5. code = "Done" => job'[Arg] = "none" /\ \A p \in Objects : p # Arg => job'[p] = job[p]
  BY <1>0, <1>1, <1>2
<1>6. ASSUME op = "CloseView", job[Arg] # "none"
      PROVE  job'[Scene(view2scene'[Arg[2]])] # "none"
  <2>1. PICK v \in ViewIds : Arg = View(v)
    BY <1>1, <1>2, <1>6 DEF ViewObjs
  <2>2. view2scene' = view2scene /\ Arg[2] = v
    BY <1>2, <1>6, <2>1, ObjectFacts DEF CloseView
  <2>3. v <= viewcounter /\ view2scene[v] \in SceneIds
    BY <1>6, <2>1, MadeFacts DEF Safe, RegistryInv, DoneScenes
  <2>4. job[Scene(view2scene[v])] # "none"
    BY <1>6, <2>1, <2>3 DEF Safe, RegistryInv, NoViewWithoutScene, ViewsOf
  <2>5. Scene(view2scene[v]) \in Objects /\ Scene(view2scene[v]) # Arg
    BY <2>1, <2>3, MadeFacts, ObjectFacts
  <2> QED
    BY <1>2, <1>5, <2>2, <2>4, <2>5
<1>7. Effect(Reply(code, Arg))
  BY <1>2, <1>3, <1>5, <1>6 DEF Effect, Settles, Reply, Creates, Closes
<1>8. Reply(code, Arg) \in Messages
  BY <1>1 DEF Reply, Messages
<1> QED
  BY <1>4, <1>7, <1>8

LEMMA HandlersAnswer ==
  ASSUME Safe, BackHandlers
  PROVE  \/ /\ Head(toBack) \notin Asks /\ SameJobs /\ UNCHANGED view2scene
            /\ \E ms \in Seq(Messages) :
                 Handled(ms) /\ \A i \in 1..Len(ms) : ms[i] \notin Replies
         \/ \E ms \in Seq(Messages), m \in Messages : Answered(ms, m) /\ Effect(m)
BY StartEffect, PauseEffect, StopEffect, CreateSceneEffect, CreateViewEffect, CloseEffect
   DEF BackHandlers

-----------------------------------------------------------------------------
(* While no wait has been given up there is one request or one reply.      *)
LEMMA OneAtATime ==
  ASSUME QueuesInv, MatchInv, stale = 0
  PROVE  /\ call = NoCall => NoReply /\ \A j \in 1..Len(toBack) : toBack[j] \notin Asks
         /\ AtBack => /\ NoReply /\ call # NoCall
                      /\ \A j \in 1..Len(toBack) : toBack[j] \in Asks => toBack[j] = call
         /\ \A j \in 1..Len(toFront) : toFront[j] \in Replies =>
              /\ call # NoCall /\ Answers(toFront[j], call)
              /\ \A i \in 1..Len(toFront) : i # j => toFront[i] \notin Replies
<1>1. toBack \in Seq(Requests) /\ toFront \in Seq(Messages)
  BY QueueTypes
<1>2. Count(toFront, Replies) \in Nat /\ Count(toBack, Asks) \in Nat
  BY <1>1, PlacesFinite
<1>3. Count(toFront, Replies) + Count(toBack, Asks) = Waiting
  BY <1>2 DEF MatchInv, Waiting
<1>4. \A j \in 1..Len(toFront) : toFront[j] \in Replies => Count(toFront, Replies) >= 1
  BY <1>1, CountSome
<1>5. \A j \in 1..Len(toBack) : toBack[j] \in Asks => Count(toBack, Asks) >= 1
  BY <1>1, CountSome
<1>6. \A i, j \in 1..Len(toFront) : (i # j /\ toFront[i] \in Replies /\ toFront[j] \in Replies)
        => Count(toFront, Replies) >= 2
  BY <1>1, CountTwo
<1>7. \A i, j \in 1..Len(toBack) : (i # j /\ toBack[i] \in Asks /\ toBack[j] \in Asks)
        => Count(toBack, Asks) >= 2
  BY <1>1, CountTwo
<1>8. call = NoCall => NoReply /\ \A j \in 1..Len(toBack) : toBack[j] \notin Asks
  BY <1>2, <1>3, <1>4, <1>5 DEF Waiting, NoReply
<1>9. ASSUME AtBack
      PROVE  /\ NoReply /\ call # NoCall
             /\ \A j \in 1..Len(toBack) : toBack[j] \in Asks => toBack[j] = call
  <2>1. PICK k \in 1..Len(toBack) : toBack[k] = call /\ call \in Asks
    BY <1>9 DEF AtBack
  <2>2. Count(toBack, Asks) >= 1
    BY <1>5, <2>1
  <2>3. call # NoCall /\ NoReply
    BY <1>2, <1>3, <1>4, <2>2 DEF Waiting, NoReply
  <2>4. Count(toBack, Asks) < 2
    BY <1>2, <1>3 DEF Waiting
  <2> QED
    BY <1>2, <1>7, <2>1, <2>3, <2>4
<1>10. ASSUME NEW j \in 1..Len(toFront), toFront[j] \in Replies
       PROVE  /\ call # NoCall /\ Answers(toFront[j], call)
              /\ \A i \in 1..Len(toFront) : i # j => toFront[i] \notin Replies
  <2>1. call # NoCall
    BY <1>8, <1>10 DEF NoReply
  <2>2. ~AtBack
    BY <1>9, <1>10 DEF NoReply
  <2>3. PICK k \in 1..Len(toFront) : Answers(toFront[k], call)
    BY <2>1, <2>2 DEF MatchInv, OnItsWay
  <2>4. toFront[k] \in Replies
    BY <2>3 DEF Answers
  <2>5. Count(toFront, Replies) < 2
    BY <1>2, <1>3 DEF Waiting
  <2> QED
    BY <1>2, <1>6, <1>10, <2>1, <2>3, <2>4, <2>5
<1> QED
  BY <1>8, <1>9, <1>10

LEMMA JobMatch ==
  ASSUME Safe, MatchInv, UNCHANGED frontVars, UNCHANGED toBack,
         toFront' = toFront \/ \E m \in Messages \ Replies : toFront' = Append(toFront, m)
  PROVE  MatchInv'
<1>0. call' = call /\ stale' = stale /\ Waiting' = Waiting /\ toBack' = toBack
  BY DEF frontVars, Waiting
<1>1. CASE toFront' = toFront
  BY <1>0, <1>1 DEF MatchInv, AtBack, OnItsWay, Answers
<1>2. ASSUME NEW m \in Messages \ Replies, toFront' = Append(toFront, m) PROVE MatchInv'
  <2>1. toFront \in Seq(Messages)
    BY QueueTypes DEF Safe
  <2>2. Count(toFront', Replies) = Count(toFront, Replies)
    <3>1. Count(Append(toFront, m), Replies) = Count(toFront, Replies) + 0
      BY <2>1, CountAppend
    <3>2. Count(toFront, Replies) \in Nat
      BY <2>1, PlacesFinite
    <3> QED
      BY <1>2, <3>1, <3>2
  <2>3. /\ Len(toFront') = Len(toFront) + 1 /\ Len(toFront) \in Nat
        /\ \A j \in 1..Len(toFront) : toFront'[j] = toFront[j]
        /\ toFront'[Len(toFront) + 1] = m
    BY <1>2, <2>1
  <2>4. ASSUME OnItsWay PROVE OnItsWay'
    <3>1. PICK k \in 1..Len(toFront) :
            /\ Answers(toFront[k], call)
            /\ \A j \in 1..Len(toFront) : j > k => toFront[j] \notin Replies
      BY <2>4 DEF OnItsWay
    <3>2. k \in 1..Len(toFront') /\ Answers(toFront'[k], call')
      BY <1>0, <2>3, <3>1
    <3>3. \A j \in 1..Len(toFront') : j > k => toFront'[j] \notin Replies
      BY <2>3, <3>1
    <3> QED
      BY <1>0, <2>4, <3>2, <3>3 DEF OnItsWay, Answers
  <2> QED
    BY <1>0, <2>2, <2>4 DEF MatchInv, AtBack
<1> QED
  BY <1>1, <1>2

LEMMA BackMatch == ASSUME Safe, MatchInv, BackNext, UNCHANGED frontVars PROVE MatchInv'
<1>1. CASE BackHandlers
  <2>1. ASSUME NEW ms \in Seq(Messages), Handled(ms), AnswersHead(ms) PROVE MatchInv'
    BY <2>1, HandlerMatch DEF Handled
  <2>2. ASSUME NEW ms \in Seq(Messages), NEW m, Answered(ms, m)
        PROVE  Handled(ms) /\ AnswersHead(ms)
    BY <2>2 DEF Answered, AnswersHead
  <2> QED
    BY <1>1, <2>1, <2>2, HandlersAnswer DEF AnswersHead
<1>2. ASSUME NEW o \in Objects, JobDone(o) \/ JobFails(o) \/ ReportFailure(o) \/ RunsOn(o)
      PROVE  MatchInv'
  <2>1. \A code \in Codes : Verdict(code, o) \in Messages \ Replies
    BY DEF Verdict, Messages, Replies
  <2>2. toBack' = toBack
    BY <1>2 DEF JobDone, JobFails, ReportFailure, RunsOn
  <2>3. toFront' = toFront \/ \E m \in Messages \ Replies : toFront' = Append(toFront, m)
    BY <1>2, <2>1 DEF JobDone, JobFails, ReportFailure, RunsOn, Codes
  <2> QED
    BY <2>2, <2>3, JobMatch
<1> QED
  BY <1>1, <1>2 DEF BackNext

(* What is known, and what job there is, stays; so does the news.          *)
SameKnown == \A o \in Objects : front'[o] = "Unknown" <=> front[o] = "Unknown"

LEMMA SentValid == ASSUME QueuesInv, NEW m, Sent(m) PROVE m \in ValidMessages
BY DEF QueuesInv, Sent

LEMMA ClosingViewsScene ==
  ASSUME Safe, call.op = "CloseView"
  PROVE  call.obj \in Objects /\ Scene(view2scene[call.obj[2]]) \in Objects
<1>1. call.obj \in ViewObjs /\ call.obj \in Made
  BY DEF Safe, FrontInv, ValidRequests, NoCall
<1>2. PICK v \in ViewIds : call.obj = View(v)
  BY <1>1 DEF ViewObjs
<1>3. call.obj[2] = v /\ v <= viewcounter
  BY <1>1, <1>2, ObjectFacts, MadeFacts
<1>4. view2scene[v] \in SceneIds
  BY <1>3 DEF Safe, RegistryInv, DoneScenes
<1> QED
  BY <1>2, <1>3, <1>4, MadeFacts

LEMMA NewsKept ==
  ASSUME Safe, NEW m, Sent(m), NewsOf(m), SameJobs, SameKnown, UNCHANGED <<view2scene, call>>,
         m.kind = "reply"
  PROVE  NewsOf(m)'
<1>1. m.code = "Done" => m.obj \in Objects
  BY SentValid, MadeFacts DEF Safe, ValidMessages
<1>2. \A o \in Objects : Agree(o) <=> Agree(o)'
  BY DEF Agree, SameJobs, SameKnown
<1>3. call.op = "CloseView" => Scene(view2scene[call.obj[2]]) \in Objects
  BY ClosingViewsScene
<1>4. \A o \in Objects :
        Agree(o)' \/ (m.code = "Done" /\ call.op \in Creates \cup Closes /\ o = m.obj)
  BY <1>2 DEF NewsOf
<1> QED
  BY <1>1, <1>3, <1>4 DEF NewsOf, SameJobs

LEMMA AgreeKept ==
  ASSUME Safe, AgreeInv, SameJobs, SameKnown, UNCHANGED <<view2scene, call>>,
         faults' = 0 => faults = 0,
         NoReply => NoReply', \A m \in Replies : Sent(m) => Sent(m)'
  PROVE  AgreeInv'
<1> SUFFICES ASSUME faults' = 0 PROVE AgreeInv'
  BY DEF AgreeInv
<1>1. \A o \in Objects : Agree(o) <=> Agree(o)'
  BY DEF Agree, SameJobs, SameKnown
<1>2. call # NoCall /\ call.op # "CreateScene" => front'[call.obj] # "Unknown"
  <2>1. call # NoCall /\ call.op # "CreateScene" => call.obj \in Objects
    BY MadeFacts DEF Safe, FrontInv, ValidRequests
  <2> QED
    BY <2>1 DEF AgreeInv, SameKnown
<1>3. ASSUME NEW m \in Replies, Sent(m), NewsOf(m) PROVE Sent(m)' /\ NewsOf(m)'
  BY <1>3, NewsKept DEF Replies
<1> QED
  BY <1>1, <1>2, <1>3 DEF AgreeInv

LEMMA BackAgree == ASSUME IInv, BackNext, UNCHANGED frontVars PROVE AgreeInv'
<1>0. /\ Safe /\ MatchInv /\ AgreeInv /\ toFront \in Seq(Messages) /\ toBack \in Seq(Requests)
      /\ SameKnown /\ call' = call /\ faults' = faults
  BY QueueTypes DEF IInv, Safe, SameKnown, frontVars
<1>1. ASSUME SameJobs, UNCHANGED view2scene, NEW ms \in Seq(Messages), toFront' = toFront \o ms,
             \A i \in 1..Len(ms) : ms[i] \notin Replies
      PROVE  AgreeInv'
  <2>1. /\ Len(toFront') = Len(toFront) + Len(ms) /\ Len(toFront) \in Nat /\ Len(ms) \in Nat
        /\ \A i \in 1..Len(toFront) : toFront'[i] = toFront[i]
        /\ \A i \in 1..Len(toFront') : i > Len(toFront) =>
             i - Len(toFront) \in 1..Len(ms) /\ toFront'[i] = ms[i - Len(toFront)]
    BY <1>0, <1>1
  <2>2. NoReply => NoReply'
    BY <1>1, <2>1 DEF NoReply
  <2>3. \A m \in Replies : Sent(m) => Sent(m)'
    BY <2>1 DEF Sent
  <2> QED
    BY <1>0, <1>1, <2>2, <2>3, AgreeKept
<1>2. ASSUME NEW ms \in Seq(Messages), NEW m, Answered(ms, m), Effect(m), faults = 0
      PROVE  AgreeInv'
  <2>1. stale = 0 /\ toBack # <<>> /\ Head(toBack) \in Asks /\ QueuesInv
    BY <1>0, <1>2 DEF Safe, FrontInv, Answered, Handled
  <2>2. 1 \in 1..Len(toBack) /\ Head(toBack) = toBack[1]
    BY <1>0, <2>1
  <2>3. ~OnItsWay /\ call # NoCall
    BY <1>0, <2>1, <2>2, OneAtATime DEF OnItsWay
  <2>4. NoReply /\ Head(toBack) = call
    BY <1>0, <2>1, <2>2, <2>3, OneAtATime DEF MatchInv
  <2>5. \A o \in Objects : Agree(o)
    BY <1>0, <1>2, <2>4 DEF AgreeInv, NoReply, Sent
  <2>6. m \in Replies /\ Sent(m)'
    <3>1. Len(ms) \in Nat /\ Len(ms) >= 1 /\ ms[Len(ms)] = m /\ toFront' = toFront \o ms
      BY <1>2 DEF Answered, Handled
    <3>2. Len(toFront) + Len(ms) \in 1..Len(toFront') /\ toFront'[Len(toFront) + Len(ms)] = m
      BY <1>0, <3>1
    <3> QED
      BY <1>2, <3>2 DEF Sent, Answered, Answers
  <2>7. call.op # "CreateScene" => call.obj \in Objects /\ front[call.obj] # "Unknown"
    BY <1>0, <1>2, <2>3, MadeFacts DEF Safe, FrontInv, ValidRequests, AgreeInv
  <2>8. NewsOf(m)'
    <3>1. \A o \in Objects : Agree(o)' \/ (Settles(m) /\ o = m.obj)
      BY <1>0, <1>2, <2>5 DEF Agree, Effect, SameKnown
    <3>2. call'.op = "CloseView" => job'[Scene(view2scene'[call'.obj[2]])] # "none"
      BY <1>0, <1>2, <2>4, <2>5, <2>7 DEF Agree, Effect, Arg
    <3> QED
      BY <1>0, <1>2, <2>4, <3>1, <3>2 DEF NewsOf, Effect, Settles
  <2>9. call'.op # "CreateScene" => front'[call'.obj] # "Unknown"
    BY <1>0, <2>7 DEF SameKnown
  <2> QED
    BY <1>0, <2>3, <2>6, <2>8, <2>9 DEF AgreeInv
<1>3. CASE BackHandlers
  BY <1>0, <1>1, <1>2, <1>3, HandlersAnswer DEF Handled, AgreeInv
<1>4. ASSUME NEW o \in Objects, JobDone(o) \/ JobFails(o) \/ ReportFailure(o) \/ RunsOn(o)
      PROVE  AgreeInv'
  <2>1. job \in [Objects -> JobStates]
    BY <1>0 DEF Safe, RegistryInv
  <2>2. SameJobs /\ UNCHANGED view2scene
    BY <1>4, <2>1 DEF SameJobs, JobDone, JobFails, ReportFailure, RunsOn, Jobs
  <2>3. toFront' = toFront \/ \E code \in Codes : toFront' = Append(toFront, Verdict(code, o))
    BY <1>4 DEF JobDone, JobFails, ReportFailure, RunsOn, Codes
  <2>4. CASE toFront' = toFront
    <3>1. toFront' = toFront \o <<>> /\ <<>> \in Seq(Messages)
          /\ \A i \in 1..Len(<<>>) : <<>>[i] \notin Replies
      BY <1>0, <2>4
    <3> QED
      BY <1>1, <2>2, <3>1
  <2>5. ASSUME NEW code \in Codes, toFront' = Append(toFront, Verdict(code, o)) PROVE AgreeInv'
    <3>1. Verdict(code, o) \in Messages \ Replies
      BY DEF Verdict, Messages, Replies
    <3>2. \A m \in Messages \ Replies : /\ <<m>> \in Seq(Messages)
                                        /\ \A i \in 1..Len(<<m>>) : <<m>>[i] \notin Replies
                                        /\ Append(toFront, m) = toFront \o <<m>>
      BY <1>0
    <3> QED
      BY <1>1, <2>2, <2>5, <3>1, <3>2
  <2> QED
    BY <2>3, <2>4, <2>5
<1> QED
  BY <1>3, <1>4 DEF BackNext

-----------------------------------------------------------------------------
(* The front end's steps leave the registry alone.                         *)
LEMMA SameRegistry ==
  ASSUME UNCHANGED registryVars
  PROVE  /\ Made' = Made /\ DoneScenes' = DoneScenes /\ FrontMaps' = FrontMaps
         /\ ValidRequests' = ValidRequests /\ ValidMessages' = ValidMessages
         /\ NoViewWithoutScene' = NoViewWithoutScene
<1>1. Made' = Made /\ DoneScenes' = DoneScenes
  BY DEF registryVars, Made, DoneScenes
<1> QED
  BY <1>1 DEF registryVars, FrontMaps, ValidRequests, ValidMessages, NoViewWithoutScene,
     ViewsOf

Asking(r) == call = NoCall /\ toBack' = Append(toBack, r) /\ call' = r
             /\ r \in ValidRequests \cap Asks /\ UNCHANGED <<toFront, stale>>
Telling(r) == toBack' = Append(toBack, r) /\ r \in ValidRequests \ Asks
              /\ UNCHANGED <<toFront, call, stale>>
Hearing == /\ toFront # <<>> /\ Head(toFront) \notin Replies /\ toFront' = Tail(toFront)
           /\ UNCHANGED <<toBack, call, stale>>
TooLate == /\ toFront # <<>> /\ Head(toFront) \in Replies /\ toFront' = Tail(toFront)
           /\ stale > 0 /\ stale' = stale - 1 /\ UNCHANGED <<toBack, call>>
InTime == /\ toFront # <<>> /\ Head(toFront) \in Replies /\ toFront' = Tail(toFront)
          /\ stale = 0 /\ stale' = stale
TheAnswer == InTime /\ call' = NoCall /\ toBack' = toBack
AnswerAndAsk(r) == InTime /\ toBack' = Append(toBack, r) /\ call' = r
                   /\ r \in ValidRequests \cap Asks
GivenUp == call # NoCall /\ call' = NoCall /\ stale' = stale + 1 /\ UNCHANGED <<toBack, toFront>>
Quiet == UNCHANGED <<toBack, toFront, call, stale>>
FrontShape ==
  /\ UNCHANGED registryVars
  /\ \/ Quiet \/ Hearing \/ TooLate \/ TheAnswer \/ GivenUp
     \/ \E r \in Requests : Asking(r) \/ Telling(r) \/ AnswerAndAsk(r)

LEMMA ShapeSafe == ASSUME Safe, FrontShape, FrontInv' PROVE Safe'
<1>1. UNCHANGED registryVars /\ QueuesInv /\ RegistryInv
  BY DEF FrontShape, Safe
<1>2. RegistryInv'
  BY <1>1, RegistryKept
<1>3. toBack' \in Seq(ValidRequests)
  BY <1>1, SeqFacts DEF FrontShape, QueuesInv, Quiet, Hearing, TooLate, TheAnswer, GivenUp,
     Asking, Telling, AnswerAndAsk
<1>4. toFront' \in Seq(ValidMessages)
  BY <1>1, SeqFacts DEF FrontShape, QueuesInv, Quiet, Hearing, TooLate, TheAnswer, GivenUp,
     Asking, Telling, AnswerAndAsk, InTime
<1> QED
  BY <1>1, <1>2, <1>3, <1>4, SameRegistry DEF Safe, QueuesInv

LEMMA TailFacts ==
  ASSUME toFront \in Seq(Messages), toFront # <<>>, toFront' = Tail(toFront)
  PROVE  /\ Len(toFront') = Len(toFront) - 1 /\ Len(toFront) \in Nat /\ Len(toFront) >= 1
         /\ \A i \in 1..Len(toFront') : toFront'[i] = toFront[i + 1]
         /\ Head(toFront) = toFront[1] /\ 1 \in 1..Len(toFront)
         /\ Count(toFront, Replies)
              = Count(toFront', Replies) + (IF Head(toFront) \in Replies THEN 1 ELSE 0)
         /\ Count(toFront', Replies) \in Nat
<1>1. /\ Len(toFront') = Len(toFront) - 1 /\ Len(toFront) \in Nat /\ Len(toFront) >= 1
      /\ \A i \in 1..Len(toFront') : toFront'[i] = toFront[i + 1]
      /\ Head(toFront) = toFront[1] /\ 1 \in 1..Len(toFront)
  OBVIOUS
<1>2. Count(toFront, Replies)
        = Count(Tail(toFront), Replies) + (IF Head(toFront) \in Replies THEN 1 ELSE 0)
  BY CountTail
<1>3. Tail(toFront) \in Seq(Messages)
  OBVIOUS
<1>4. Count(Tail(toFront), Replies) \in Nat
  BY <1>3, PlacesFinite
<1> QED
  BY <1>1, <1>2, <1>4

LEMMA AppendFacts ==
  ASSUME toBack \in Seq(Requests), NEW r \in Requests, toBack' = Append(toBack, r)
  PROVE  /\ Len(toBack') = Len(toBack) + 1 /\ Len(toBack) \in Nat
         /\ \A i \in 1..Len(toBack) : toBack'[i] = toBack[i]
         /\ toBack'[Len(toBack) + 1] = r
         /\ Count(toBack', Asks) = Count(toBack, Asks) + (IF r \in Asks THEN 1 ELSE 0)
         /\ Count(toBack, Asks) \in Nat
<1>1. /\ Len(toBack') = Len(toBack) + 1 /\ Len(toBack) \in Nat
      /\ \A i \in 1..Len(toBack) : toBack'[i] = toBack[i]
      /\ toBack'[Len(toBack) + 1] = r
  OBVIOUS
<1>2. Count(Append(toBack, r), Asks) = Count(toBack, Asks) + (IF r \in Asks THEN 1 ELSE 0)
  BY CountAppend
<1>3. Count(toBack, Asks) \in Nat
  BY PlacesFinite
<1> QED
  BY <1>1, <1>2, <1>3

LEMMA AskMatch == 
  ASSUME Safe, MatchInv, NEW r \in Requests, Asking(r) PROVE MatchInv'
<1>1. toBack \in Seq(Requests) /\ toFront \in Seq(Messages) /\ r \in Asks /\ stale \in Nat
  BY QueueTypes DEF Safe, Asking, FrontInv
<1>2. Count(toFront, Replies) \in Nat /\ r # NoCall
  BY <1>1, PlacesFinite DEF NoCall, Asks, Requests, Ops
<1>3. AtBack'
  <2>1. /\ Len(toBack) + 1 \in 1..Len(toBack') /\ toBack'[Len(toBack) + 1] = call'
        /\ \A j \in 1..Len(toBack') : ~(j > Len(toBack) + 1)
    BY <1>1, AppendFacts DEF Asking
  <2> QED
    BY <1>1, <2>1 DEF AtBack, Asking
<1>4. Waiting = 0 /\ Waiting' = 1
  BY <1>2 DEF Waiting, Asking
<1>5. Count(toBack', Asks) = Count(toBack, Asks) + 1 /\ Count(toBack, Asks) \in Nat
  BY <1>1, AppendFacts DEF Asking
<1>6. Count(toFront', Replies) + Count(toBack', Asks) = stale' + Waiting'
  BY <1>1, <1>2, <1>4, <1>5 DEF MatchInv, Asking
<1> QED
  BY <1>3, <1>6 DEF MatchInv

LEMMA TellMatch ==
  ASSUME Safe, MatchInv, NEW r \in Requests, Telling(r) PROVE MatchInv'
<1>1. toBack \in Seq(Requests) /\ r \notin Asks
  BY QueueTypes DEF Safe, Telling
<1>2. /\ Count(toBack', Asks) = Count(toBack, Asks) /\ Count(toBack, Asks) \in Nat
      /\ Len(toBack') = Len(toBack) + 1 /\ Len(toBack) \in Nat
      /\ \A i \in 1..Len(toBack) : toBack'[i] = toBack[i]
      /\ toBack'[Len(toBack) + 1] = r
  BY <1>1, AppendFacts DEF Telling
<1>3. AtBack => AtBack'
  <2> SUFFICES ASSUME NEW k \in 1..Len(toBack), toBack[k] = call, call \in Asks,
                      \A j \in 1..Len(toBack) : j > k => toBack[j] \notin Asks
               PROVE  AtBack'
    BY DEF AtBack
  <2>1. k \in 1..Len(toBack') /\ toBack'[k] = call'
    BY <1>2 DEF Telling
  <2>2. \A j \in 1..Len(toBack') : j > k => toBack'[j] \notin Asks
    BY <1>1, <1>2
  <2> QED
    BY <2>1, <2>2 DEF AtBack, Telling
<1>4. OnItsWay => OnItsWay'
  <2>1. (\A j \in 1..Len(toBack) : toBack[j] \notin Asks)
          => \A j \in 1..Len(toBack') : toBack'[j] \notin Asks
    BY <1>1, <1>2
  <2> QED
    BY <2>1 DEF OnItsWay, Telling, Answers
<1> QED
  BY <1>2, <1>3, <1>4 DEF MatchInv, Telling, Waiting

(* A reply further down the queue moves up.                                *)
LEMMA MovesUp ==
  ASSUME toFront \in Seq(Messages), toFront # <<>>, toFront' = Tail(toFront),
         UNCHANGED <<toBack, call>>, OnItsWay,
         Head(toFront) \in Replies => \E j \in 2..Len(toFront) : toFront[j] \in Replies
  PROVE  OnItsWay'
<1>1. /\ Len(toFront') = Len(toFront) - 1 /\ Len(toFront) \in Nat /\ Len(toFront) >= 1
      /\ \A i \in 1..Len(toFront') : toFront'[i] = toFront[i + 1]
      /\ Head(toFront) = toFront[1]
  BY TailFacts
<1>2. PICK k \in 1..Len(toFront) :
        /\ Answers(toFront[k], call)
        /\ \A j \in 1..Len(toFront) : j > k => toFront[j] \notin Replies
  BY DEF OnItsWay
<1>3. k # 1
  BY <1>1, <1>2 DEF Answers
<1>4. k - 1 \in 1..Len(toFront') /\ toFront'[k - 1] = toFront[k]
  BY <1>1, <1>3
<1>5. \A j \in 1..Len(toFront') : j > k - 1 => toFront'[j] \notin Replies
  BY <1>1, <1>2, <1>3
<1> QED
  BY <1>2, <1>4, <1>5 DEF OnItsWay, Answers

LEMMA HearMatch == ASSUME Safe, MatchInv, Hearing PROVE MatchInv'
<1>1. toFront \in Seq(Messages)
  BY QueueTypes DEF Safe
<1>2. OnItsWay => OnItsWay'
  BY <1>1, MovesUp DEF Hearing
<1>3. Count(toFront', Replies) = Count(toFront, Replies)
  BY <1>1, TailFacts DEF Hearing
<1> QED
  BY <1>2, <1>3 DEF MatchInv, Hearing, AtBack, Waiting

LEMMA LateMatch == ASSUME Safe, MatchInv, TooLate PROVE MatchInv'
<1>1. toFront \in Seq(Messages) /\ toBack \in Seq(Requests) /\ stale \in Nat
  BY QueueTypes DEF Safe, FrontInv
<1>2. /\ Count(toFront, Replies) = Count(toFront', Replies) + 1
      /\ Count(toFront', Replies) \in Nat
      /\ 1 \in 1..Len(toFront) /\ toFront[1] \in Replies /\ Len(toFront) \in Nat
  BY <1>1, TailFacts DEF TooLate
<1>3. Count(toBack, Asks) \in Nat
  BY <1>1, PlacesFinite
<1>4. call # NoCall => (OnItsWay => OnItsWay')
  <2> SUFFICES ASSUME call # NoCall, OnItsWay PROVE OnItsWay'
    OBVIOUS
  <2>1. Count(toBack, Asks) = 0
    BY <1>1, CountNone DEF OnItsWay
  <2>2. Count(toFront, Replies) >= 2
    BY <1>1, <1>2, <2>1 DEF MatchInv, Waiting, TooLate
  <2>3. \E j \in 2..Len(toFront) : toFront[j] \in Replies
    <3> SUFFICES ASSUME \A j \in 2..Len(toFront) : toFront[j] \notin Replies PROVE FALSE
      OBVIOUS
    <3>1. \A j \in 1..Len(toFront) : j # 1 => toFront[j] \notin Replies
      BY <1>2
    <3>2. Count(toFront, Replies) = 1
      BY <1>1, <1>2, <3>1, CountOne
    <3> QED
      BY <2>2, <3>2
  <2> QED
    BY <1>1, <2>3, MovesUp DEF TooLate
<1>5. Count(toFront', Replies) + Count(toBack', Asks) = stale' + Waiting'
  <2>1. Waiting \in Nat /\ Waiting' = Waiting /\ toBack' = toBack
    BY DEF TooLate, Waiting
  <2> QED
    BY <1>1, <1>2, <1>3, <2>1 DEF MatchInv, TooLate
<1> QED
  BY <1>4, <1>5 DEF MatchInv, TooLate, AtBack

(* The reply at the head is the one that is waited for.                    *)
LEMMA TheReply ==
  ASSUME Safe, MatchInv, toFront # <<>>, Head(toFront) \in Replies, stale = 0,
         toFront' = Tail(toFront)
  PROVE  /\ call # NoCall /\ Answers(Head(toFront), call) /\ Sent(Head(toFront))
         /\ NoReply' /\ Count(toFront', Replies) = 0 /\ Count(toBack, Asks) = 0
         /\ \A m \in Replies : Sent(m) => m = Head(toFront)
<1>1. toFront \in Seq(Messages) /\ toBack \in Seq(Requests) /\ QueuesInv
  BY QueueTypes DEF Safe
<1>2. /\ Len(toFront') = Len(toFront) - 1 /\ Len(toFront) \in Nat
      /\ \A i \in 1..Len(toFront') : toFront'[i] = toFront[i + 1]
      /\ Head(toFront) = toFront[1] /\ 1 \in 1..Len(toFront)
      /\ Count(toFront, Replies) = Count(toFront', Replies) + 1
      /\ Count(toFront', Replies) \in Nat
  BY <1>1, TailFacts
<1>3. /\ call # NoCall /\ Answers(toFront[1], call)
      /\ \A i \in 1..Len(toFront) : i # 1 => toFront[i] \notin Replies
  BY <1>1, <1>2, OneAtATime
<1>4. NoReply'
  BY <1>2, <1>3 DEF NoReply
<1>5. Count(toBack, Asks) \in Nat
  BY <1>1, PlacesFinite
<1>6. Count(toFront', Replies) = 0 /\ Count(toBack, Asks) = 0
  BY <1>2, <1>3, <1>5 DEF MatchInv, Waiting
<1> QED
  BY <1>2, <1>3, <1>4, <1>6 DEF Sent

LEMMA AnswerMatch == ASSUME Safe, MatchInv, TheAnswer PROVE MatchInv'
<1>1. Count(toFront', Replies) = 0 /\ Count(toBack, Asks) = 0
  BY TheReply DEF TheAnswer, InTime
<1> QED
  BY <1>1 DEF MatchInv, TheAnswer, InTime, Waiting

LEMMA AnswerAskMatch ==
  ASSUME Safe, MatchInv, NEW r \in Requests, AnswerAndAsk(r) PROVE MatchInv'
<1>1. toBack \in Seq(Requests) /\ r \in Asks
  BY QueueTypes DEF Safe, AnswerAndAsk
<1>2. Count(toFront', Replies) = 0 /\ Count(toBack, Asks) = 0
  BY TheReply DEF AnswerAndAsk, InTime
<1>3. AtBack'
  <2>1. /\ Len(toBack) + 1 \in 1..Len(toBack') /\ toBack'[Len(toBack) + 1] = call'
        /\ \A j \in 1..Len(toBack') : ~(j > Len(toBack) + 1)
    BY <1>1, AppendFacts DEF AnswerAndAsk
  <2> QED
    BY <1>1, <2>1 DEF AtBack, AnswerAndAsk
<1>4. Count(toBack', Asks) = 1
  BY <1>1, <1>2, AppendFacts DEF AnswerAndAsk
<1>5. Waiting' = 1
  BY <1>1 DEF Waiting, AnswerAndAsk, NoCall, Asks, Requests, Ops
<1> QED
  BY <1>2, <1>3, <1>4, <1>5 DEF MatchInv, AnswerAndAsk, InTime

LEMMA ShapeMatch == ASSUME Safe, MatchInv, FrontShape PROVE MatchInv'
<1>1. CASE Quiet
  BY <1>1 DEF Quiet, MatchInv, AtBack, OnItsWay, Answers, Waiting
<1>2. CASE GivenUp
  <2>1. Waiting = 1 /\ Waiting' = 0 /\ stale \in Nat
    BY <1>2 DEF GivenUp, Waiting, Safe, FrontInv
  <2>2. stale' + Waiting' = stale + Waiting
    BY <1>2, <2>1 DEF GivenUp
  <2> QED
    BY <1>2, <2>2 DEF GivenUp, MatchInv
<1> QED
  BY <1>1, <1>2, HearMatch, LateMatch, AnswerMatch, AskMatch, TellMatch, AnswerAskMatch
     DEF FrontShape

-----------------------------------------------------------------------------
(* The requests of the user.                                               *)
LEMMA OneFront ==
  ASSUME NEW f \in FrontMaps, NEW o, NEW st \in FrontStates,
         st # "Unknown" => o \in Made,
         st = "Finished" => o \in ViewObjs \/ \E s \in DoneScenes : o = Scene(s)
  PROVE  [f EXCEPT ![o] = st] \in FrontMaps
<1> DEFINE g == [f EXCEPT ![o] = st]
<1>1. g \in [Objects -> FrontStates] /\ \A p \in Objects : g[p] = f[p] \/ (p = o /\ g[p] = st)
  BY DEF FrontMaps
<1> HIDE DEF g
<1>2. \A p \in Objects : g[p] # "Unknown" => p \in Made
  BY <1>1 DEF FrontMaps
<1>3. \A s \in SceneIds : g[Scene(s)] = "Finished" => s \in DoneScenes
  BY <1>1, MadeFacts, ObjectFacts DEF FrontMaps, ViewObjs
<1>4. g \in FrontMaps
  BY <1>1, <1>2, <1>3 DEF FrontMaps
<1> QED
  BY <1>4 DEF g

LEMMA FrontChange ==
  ASSUME Safe, UNCHANGED registryVars, front' \in FrontMaps, result' \in Results,
         call' = NoCall \/ call' \in ValidRequests,
         stale' \in Nat, faults' \in 0..MaxFaults, stale' <= faults'
  PROVE  FrontInv'
<1>1. ValidRequests' = ValidRequests /\ FrontMaps' = FrontMaps
  BY SameRegistry
<1> QED
  BY <1>1 DEF FrontInv, Results

LEMMA AtRest ==
  ASSUME IInv, call = NoCall, SameKnown, UNCHANGED <<registryVars, toFront, faults>>,
         call' # NoCall /\ call'.op # "CreateScene" => front'[call'.obj] # "Unknown"
  PROVE  AgreeInv'
<1> SUFFICES ASSUME faults = 0 PROVE AgreeInv'
  BY DEF AgreeInv
<1>1. stale = 0 /\ QueuesInv /\ MatchInv
  BY DEF IInv, Safe, FrontInv
<1>2. NoReply /\ \A o \in Objects : Agree(o)
  BY <1>1, OneAtATime DEF IInv, AgreeInv
<1>3. NoReply' /\ \A o \in Objects : Agree(o)'
  BY <1>2 DEF NoReply, Agree, SameKnown, registryVars
<1> QED
  BY <1>3 DEF AgreeInv

LEMMA AskKeeps ==
  ASSUME IInv, NEW op \in Ops, NEW o, [op |-> op, obj |-> o] \in ValidRequests \cap Asks,
         Ask(op, o), front' \in FrontMaps, SameKnown,
         op # "CreateScene" => o \in Objects /\ front[o] # "Unknown"
  PROVE  IInv'
<1> DEFINE r == [op |-> op, obj |-> o]
<1>1. Asking(r) /\ UNCHANGED registryVars /\ r \in Requests
  BY DEF Asking, Ask, Send, BackOnlyUnchanged, registryVars, Asks
<1>2. FrontShape
  BY <1>1 DEF FrontShape
<1>3. FrontInv'
  BY <1>1, FrontChange DEF IInv, Safe, FrontInv, Ask
<1>4. AgreeInv'
  BY <1>1, AtRest DEF Ask, Send, BackOnlyUnchanged, SameKnown
<1> QED
  BY <1>2, <1>3, <1>4, ShapeSafe, ShapeMatch DEF IInv

LEMMA TellKeeps ==
  ASSUME IInv, NEW op \in Ops, NEW o \in Objects, [op |-> op, obj |-> o] \in ValidRequests \ Asks,
         Tell(op, o), front' \in FrontMaps, SameKnown
  PROVE  IInv'
<1> DEFINE r == [op |-> op, obj |-> o]
<1>1. Telling(r) /\ UNCHANGED registryVars /\ r \in Requests
  BY DEF Telling, Tell, Send, BackOnlyUnchanged, registryVars, ValidRequests
<1>2. FrontShape
  BY <1>1 DEF FrontShape
<1>3. FrontInv'
  BY <1>1, FrontChange DEF IInv, Safe, FrontInv, Tell, Results
<1>4. AgreeInv'
  BY <1>1, AtRest DEF Tell, Send, BackOnlyUnchanged
<1> QED
  BY <1>2, <1>3, <1>4, ShapeSafe, ShapeMatch DEF IInv

LEMMA QuietKeeps ==
  ASSUME IInv, call = NoCall, UNCHANGED <<backVars, call, stale, faults>>,
         result' \in Results, front' \in FrontMaps, SameKnown
  PROVE  IInv'
<1>1. UNCHANGED registryVars /\ Quiet
  BY DEF backVars, registryVars, Quiet
<1>2. FrontShape
  BY <1>1 DEF FrontShape
<1>3. FrontInv'
  BY <1>1, FrontChange DEF IInv, Safe, FrontInv
<1>4. AgreeInv'
  BY <1>1, AtRest DEF backVars
<1> QED
  BY <1>2, <1>3, <1>4, ShapeSafe, ShapeMatch DEF IInv

(* A request is sent for an object that is known, which stays known.       *)
LEMMA KnownMade ==
  ASSUME Safe, NEW o \in Objects, front[o] # "Unknown"
  PROVE  o \in Made
BY DEF Safe, FrontInv, FrontMaps

LEMMA KnownChange ==
  ASSUME Safe, NEW o \in Objects, NEW st \in FrontStates \ {"Unknown"}, front[o] # "Unknown",
         st = "Finished" => front[o] = "Finished",
         front' = [front EXCEPT ![o] = st]
  PROVE  front' \in FrontMaps /\ SameKnown
<1>1. front \in FrontMaps /\ o \in Made
  BY KnownMade DEF Safe, FrontInv
<1>2. o \in ViewObjs \/ \E s \in SceneIds : o = Scene(s)
  BY ObjectFacts DEF SceneObjs
<1>3. front' \in FrontMaps
  BY <1>1, <1>2, OneFront DEF FrontMaps
<1>4. \A p \in Objects : front'[p] = front[p] \/ (p = o /\ front'[p] = st)
  BY <1>1 DEF FrontMaps
<1> QED
  BY <1>3, <1>4 DEF SameKnown

LEMMA RequestKeeps ==
  ASSUME IInv, NEW op \in {"CloseScene", "CloseView", "Pause", "Resume", "Stop"},
         NEW o \in Objects, NEW allowed \in SUBSET (FrontStates \ {"Unknown"}), NEW st,
         op = "CloseScene" => o \in SceneObjs, op = "CloseView" => o \in ViewObjs,
         front[o] \in allowed => /\ st \in FrontStates \ {"Unknown"}
                                 /\ st = "Finished" => front[o] = "Finished",
         Request(op, o, allowed, st)
  PROVE  IInv'
<1>0. Safe /\ StateOf(o) = front[o] /\ op \in Ops
  BY DEF IInv, StateOf, Ops
<1>1. CASE front[o] \in allowed /\ Ask(op, o) /\ front' = [front EXCEPT ![o] = st]
  <2>1. front' \in FrontMaps /\ SameKnown
    BY <1>0, <1>1, KnownChange
  <2>2. [op |-> op, obj |-> o] \in ValidRequests \cap Asks
    BY <1>0, <1>1, KnownMade DEF ValidRequests, Requests, Asks
  <2> QED
    BY <1>0, <1>1, <2>1, <2>2, AskKeeps
<1>2. CASE NotSent(o) /\ UNCHANGED front
  <2>1. result' \in Results /\ front' \in FrontMaps /\ SameKnown
    BY <1>0, <1>2 DEF NotSent, Results, Safe, FrontInv, SameKnown
  <2> QED
    BY <1>2, <2>1, QuietKeeps DEF NotSent
<1> QED
  BY <1>0, <1>1, <1>2 DEF Request

LEMMA BeginKeeps ==
  ASSUME IInv, NEW op \in {"StartParser", "StartRender"}, NEW o \in Objects,
         NEW allowed \in SUBSET (FrontStates \ {"Unknown"}),
         op = "StartParser" => o \in SceneObjs, op = "StartRender" => o \in ViewObjs,
         Begin(op, o, allowed)
  PROVE  IInv'
<1>0. Safe /\ StateOf(o) = front[o] /\ op \in Ops
  BY DEF IInv, StateOf, Ops
<1>1. CASE front[o] \in allowed /\ Tell(op, o) /\ front' = [front EXCEPT ![o] = "Working"]
  <2>1. front' \in FrontMaps /\ SameKnown
    BY <1>0, <1>1, KnownChange DEF FrontStates
  <2>2. [op |-> op, obj |-> o] \in ValidRequests \ Asks
    BY <1>0, <1>1, KnownMade DEF ValidRequests, Requests, Asks
  <2> QED
    BY <1>0, <1>1, <2>1, <2>2, TellKeeps
<1>2. CASE NotSent(o) /\ UNCHANGED front
  <2>1. result' \in Results /\ front' \in FrontMaps /\ SameKnown
    BY <1>0, <1>2 DEF NotSent, Results, Safe, FrontInv, SameKnown
  <2> QED
    BY <1>2, <2>1, QuietKeeps DEF NotSent
<1> QED
  BY <1>0, <1>1, <1>2 DEF Begin

LEMMA CreateSceneRequested == ASSUME IInv, RequestCreateScene PROVE IInv'
<1>1. [op |-> "CreateScene", obj |-> Scene(0)] \in ValidRequests \cap Asks /\ "CreateScene" \in Ops
  BY DEF ValidRequests, Requests, Asks, Ops
<1>2. front' \in FrontMaps /\ SameKnown
  BY DEF IInv, Safe, FrontInv, RequestCreateScene, SameKnown
<1> QED
  BY <1>1, <1>2, AskKeeps DEF RequestCreateScene

LEMMA CreateViewRequested ==
  ASSUME IInv, NEW s \in SceneIds, RequestCreateView(Scene(s))
  PROVE  IInv'
<1>0. Safe /\ Scene(s) \in Objects /\ StateOf(Scene(s)) = front[Scene(s)]
  BY MadeFacts DEF IInv, StateOf
<1>1. front' \in FrontMaps /\ SameKnown
  BY <1>0 DEF Safe, FrontInv, RequestCreateView, SameKnown
<1>2. CASE front[Scene(s)] = "Finished" /\ Ask("CreateView", Scene(s))
  <2>1. s \in DoneScenes /\ Scene(s) \in Made
    BY <1>0, <1>2, KnownMade DEF Safe, FrontInv, FrontMaps
  <2>2. [op |-> "CreateView", obj |-> Scene(s)] \in ValidRequests \cap Asks
        /\ "CreateView" \in Ops
    BY <1>0, <2>1, ObjectFacts DEF ValidRequests, Requests, Asks, Ops, SceneObjs
  <2> QED
    BY <1>0, <1>1, <1>2, <2>2, AskKeeps
<1>3. CASE /\ call = NoCall /\ result' = [ok |-> FALSE, obj |-> Scene(s)]
           /\ UNCHANGED <<call, stale, faults>> /\ UNCHANGED backVars
  BY <1>0, <1>1, <1>3, QuietKeeps DEF Results
<1> QED
  BY <1>0, <1>2, <1>3 DEF RequestCreateView

LEMMA CloseSceneRequested ==
  ASSUME IInv, NEW s \in SceneIds, RequestCloseScene(Scene(s))
  PROVE  IInv'
<1>0. Safe /\ Scene(s) \in Objects /\ Scene(s) \in SceneObjs
      /\ StateOf(Scene(s)) = front[Scene(s)]
  BY MadeFacts DEF IInv, StateOf, SceneObjs
<1>1. CASE /\ front[Scene(s)] \in {"Created", "Finished", "Failed"} /\ NotSent(Scene(s))
           /\ front' = [front EXCEPT ![Scene(s)] = "Closing"]
  <2>1. front' \in FrontMaps /\ SameKnown
    BY <1>0, <1>1, KnownChange DEF FrontStates
  <2>2. result' \in Results
    BY <1>0, <1>1 DEF NotSent, Results
  <2> QED
    BY <1>1, <2>1, <2>2, QuietKeeps DEF NotSent
<1>2. CASE Request("CloseScene", Scene(s), {"Created", "Finished", "Failed"}, "Closing")
  BY <1>0, <1>2, RequestKeeps DEF FrontStates
<1> QED
  BY <1>0, <1>1, <1>2 DEF RequestCloseScene

LEMMA UserStep == ASSUME IInv, UserOfFrontend PROVE IInv'
<1>1. \A s \in SceneIds : Scene(s) \in Objects /\ Scene(s) \in SceneObjs
  BY MadeFacts DEF SceneObjs
<1>2. \A v \in ViewIds : View(v) \in Objects /\ View(v) \in ViewObjs
  BY MadeFacts DEF ViewObjs
<1>3. ASSUME NEW s \in SceneIds, RequestStartParser(Scene(s)) PROVE IInv'
  BY <1>1, <1>3, BeginKeeps DEF RequestStartParser, FrontStates
<1>4. ASSUME NEW s \in SceneIds,
             RequestPauseParser(Scene(s)) \/ RequestResumeParser(Scene(s))
               \/ RequestStopParser(Scene(s))
      PROVE  IInv'
  BY <1>1, <1>4, RequestKeeps DEF RequestPauseParser, RequestResumeParser,
     RequestStopParser,
     FrontStates
<1>5. ASSUME NEW v \in ViewIds, RequestStartRender(View(v)) PROVE IInv'
  BY <1>2, <1>5, BeginKeeps DEF RequestStartRender, FrontStates
<1>6. ASSUME NEW v \in ViewIds,
             RequestPauseRender(View(v)) \/ RequestResumeRender(View(v))
               \/ RequestStopRender(View(v))
      PROVE  IInv'
  BY <1>2, <1>6, RequestKeeps DEF RequestPauseRender, RequestResumeRender,
     RequestStopRender,
     FrontStates
<1>7. ASSUME NEW v \in ViewIds, RequestCloseView(View(v)) PROVE IInv'
  <2>1. StateOf(View(v)) = front[View(v)] /\ front[View(v)] \in FrontStates
    BY <1>2 DEF StateOf, IInv, Safe, FrontInv, FrontMaps
  <2>2. Request("CloseView", View(v), {"Created", "Finished", "Failed"}, front[View(v)])
    BY <1>7, <2>1 DEF RequestCloseView
  <2> QED
    BY <1>2, <2>1, <2>2, RequestKeeps DEF FrontStates
<1> QED
  BY <1>3, <1>4, <1>5, <1>6, <1>7, CreateSceneRequested, CreateViewRequested,
     CloseSceneRequested DEF UserOfFrontend

-----------------------------------------------------------------------------
(* What arrives.                                                           *)
LEMMA TakeFacts ==
  ASSUME Safe, NEW kind, Take(kind)
  PROVE  /\ toFront # <<>> /\ toFront' = Tail(toFront) /\ UNCHANGED registryVars
         /\ Head(toFront) \in ValidMessages /\ Head(toFront) \in Messages
         /\ Head(toFront).kind = kind /\ (Head(toFront) \in Replies <=> kind = "reply")
<1>1. Head(toFront) \in ValidMessages /\ Head(toFront).kind = kind
  BY HeadMessage DEF Safe, Take
<1> QED
  BY <1>1 DEF Take, registryVars, ValidMessages, Replies

LEMMA VerdictKeeps == ASSUME IInv, VerdictArrives PROVE IInv'
<1> DEFINE m == Head(toFront)
<1>0. /\ Safe /\ MatchInv /\ AgreeInv /\ toFront \in Seq(Messages)
      /\ UNCHANGED registryVars /\ toFront # <<>> /\ toFront' = Tail(toFront)
      /\ m \in ValidMessages /\ m.kind = "verdict" /\ m \notin Replies
      /\ UNCHANGED <<toBack, call, result, stale, faults>>
  BY QueueTypes, TakeFacts DEF IInv, Safe, VerdictArrives
<1>1. FrontShape
  BY <1>0 DEF FrontShape, Hearing
<1>2. front' \in FrontMaps /\ SameKnown
  <2>1. CASE StateOf(m.obj) = "Unknown"
    BY <1>0, <2>1 DEF VerdictArrives, SameKnown, Safe, FrontInv
  <2>2. CASE StateOf(m.obj) # "Unknown"
    <3> DEFINE st == IF m.code = "Done" THEN "Finished" ELSE "Failed"
    <3>1. /\ m.obj \in Objects /\ front[m.obj] # "Unknown" /\ front \in FrontMaps
          /\ front' = [front EXCEPT ![m.obj] = st]
      BY <1>0, <2>2 DEF VerdictArrives, StateOf, Safe, FrontInv
    <3>2. m.obj \in Made
      BY <1>0, <3>1, KnownMade
    <3>3. st \in FrontStates \ {"Unknown"}
      BY DEF FrontStates
    <3>4. st = "Finished" => m.obj \in ViewObjs \/ \E s \in DoneScenes : m.obj = Scene(s)
      BY <1>0 DEF ValidMessages
    <3> HIDE DEF st, m
    <3>5. front' \in FrontMaps
      BY <3>1, <3>2, <3>3, <3>4, OneFront
    <3>6. \A p \in Objects : front'[p] = front[p] \/ (p = m.obj /\ front'[p] = st)
      BY <3>1 DEF FrontMaps
    <3> QED
      BY <3>1, <3>3, <3>5, <3>6 DEF SameKnown
  <2> QED
    BY <2>1, <2>2
<1>3. FrontInv'
  BY <1>0, <1>2, FrontChange DEF Safe, FrontInv
<1>4. /\ Len(toFront') = Len(toFront) - 1 /\ Len(toFront) \in Nat
      /\ \A i \in 1..Len(toFront') : toFront'[i] = toFront[i + 1]
      /\ m = toFront[1]
  BY <1>0, TailFacts
<1>5. NoReply => NoReply'
  BY <1>4 DEF NoReply
<1>6. ASSUME NEW r \in Replies, Sent(r) PROVE Sent(r)'
  <2>1. PICK k \in 1..Len(toFront) : toFront[k] = r
    BY <1>6 DEF Sent
  <2>2. k # 1
    BY <1>0, <1>4, <1>6, <2>1
  <2>3. k - 1 \in 1..Len(toFront') /\ toFront'[k - 1] = r
    BY <1>4, <2>1, <2>2
  <2> QED
    BY <2>3 DEF Sent
<1>7. SameJobs
  BY <1>0 DEF SameJobs, registryVars
<1>8. AgreeInv'
  BY <1>0, <1>2, <1>5, <1>6, <1>7, AgreeKept DEF registryVars
<1> QED
  BY <1>0, <1>1, <1>3, <1>8, ShapeSafe, ShapeMatch DEF IInv

LEMMA LateReplyKeeps == ASSUME IInv, LateReply PROVE IInv'
<1>0. /\ Safe /\ MatchInv /\ UNCHANGED registryVars /\ toFront # <<>>
      /\ toFront' = Tail(toFront) /\ Head(toFront) \in Replies /\ stale > 0
      /\ stale' = stale - 1 /\ UNCHANGED <<toBack, front, call, result, faults>>
  BY TakeFacts DEF IInv, LateReply
<1>1. FrontShape
  BY <1>0 DEF FrontShape, TooLate
<1>2. stale \in Nat /\ stale <= faults /\ faults \in Int
  BY <1>0 DEF Safe, FrontInv
<1>3. FrontInv'
  BY <1>0, <1>2, FrontChange DEF Safe, FrontInv
<1>4. faults' # 0
  BY <1>0, <1>2
<1> QED
  BY <1>0, <1>1, <1>3, <1>4, ShapeSafe, ShapeMatch DEF IInv, AgreeInv

LEMMA RepliedInTime ==
  ASSUME IInv, NEW op \in Ops, NEW code, Replied(op, code)
  PROVE  /\ InTime /\ UNCHANGED registryVars /\ call.op = op /\ call \in ValidRequests
         /\ Head(toFront) \in ValidMessages /\ Head(toFront).code \in code
         /\ Answers(Head(toFront), call)
         /\ op # "CreateScene" => call.obj \in Made /\ call.obj \in Objects
<1>1. Safe /\ MatchInv /\ Take("reply") /\ stale = 0 /\ stale' = stale
      /\ call.op = op /\ Head(toFront).code \in code
  BY DEF IInv, Replied
<1>2. InTime /\ UNCHANGED registryVars /\ Head(toFront) \in ValidMessages
  BY <1>1, TakeFacts DEF InTime
<1>3. call \in ValidRequests
  BY <1>1 DEF Safe, FrontInv, NoCall, Ops
<1>4. Answers(Head(toFront), call)
  BY <1>1, <1>2, TheReply DEF InTime
<1> QED
  BY <1>1, <1>2, <1>3, <1>4, MadeFacts DEF ValidRequests

LEMMA News ==
  ASSUME IInv, InTime, faults = 0
  PROVE  /\ NewsOf(Head(toFront))
         /\ call.op # "CreateScene" => front[call.obj] # "Unknown"
<1>1. /\ call # NoCall /\ Sent(Head(toFront)) /\ Head(toFront) \in Replies
      /\ \A m \in Replies : Sent(m) => m = Head(toFront)
  BY TheReply DEF IInv, InTime
<1>2. ~NoReply
  BY <1>1 DEF NoReply, Sent
<1>3. /\ call # NoCall /\ call.op # "CreateScene" => front[call.obj] # "Unknown"
      /\ \E m \in Replies : Sent(m) /\ NewsOf(m)
  BY <1>2 DEF IInv, AgreeInv
<1> QED
  BY <1>1, <1>3

LEMMA AnswerKeeps ==
  ASSUME IInv, InTime, UNCHANGED <<registryVars, toBack>>, call' = NoCall,
         front' \in FrontMaps, result' \in Results,
         UNCHANGED faults \/ Fault,
         faults = 0 /\ UNCHANGED faults => \A o \in Objects : Agree(o)'
  PROVE  IInv'
<1>1. Safe /\ MatchInv /\ faults \in 0..MaxFaults /\ stale = 0 /\ stale' = stale
  BY DEF IInv, Safe, FrontInv, InTime
<1>2. FrontShape
  BY DEF FrontShape, TheAnswer
<1>3. /\ faults' \in 0..MaxFaults /\ stale' <= faults'
      /\ faults' = 0 => faults = 0 /\ faults' = faults
  BY <1>1, MaxFaultsAssumption DEF Fault
<1>4. FrontInv'
  BY <1>1, <1>3, FrontChange
<1>5. NoReply'
  BY <1>1, TheReply DEF InTime
<1>6. AgreeInv'
  BY <1>3, <1>5 DEF AgreeInv
<1> QED
  BY <1>1, <1>2, <1>4, <1>6, ShapeSafe, ShapeMatch DEF IInv

LEMMA UndoKeeps ==
  ASSUME IInv, InTime, UNCHANGED <<registryVars, front, result>>, Fault,
         NEW r \in ValidRequests \cap Asks, toBack' = Append(toBack, r), call' = r
  PROVE  IInv'
<1>1. Safe /\ MatchInv /\ faults \in 0..MaxFaults /\ stale = 0 /\ stale' = stale
  BY DEF IInv, Safe, FrontInv, InTime
<1>2. FrontShape
  BY DEF FrontShape, AnswerAndAsk, ValidRequests
<1>3. faults' \in 0..MaxFaults /\ stale' <= faults' /\ faults' # 0
  BY <1>1, MaxFaultsAssumption DEF Fault
<1>4. FrontInv'
  BY <1>1, <1>3, FrontChange DEF Safe, FrontInv
<1> QED
  BY <1>1, <1>2, <1>3, <1>4, ShapeSafe, ShapeMatch DEF IInv, AgreeInv

LEMMA SceneCreatedKeeps == ASSUME IInv, SceneCreated PROVE IInv'
<1> DEFINE m == Head(toFront)
<1>0. /\ InTime /\ UNCHANGED registryVars /\ call.op = "CreateScene" /\ m \in ValidMessages
      /\ m.code = "Done" /\ Answers(m, call)
  BY RepliedInTime DEF SceneCreated, Ops
<1>1. /\ m.kind = "reply" /\ m.obj \in SceneObjs /\ m.obj \in Made /\ m.obj \in Objects
      /\ front \in FrontMaps
  BY <1>0, MadeFacts DEF Answers, Replies, ValidMessages, IInv, Safe, FrontInv
<1> HIDE DEF m
<1>2. CASE /\ front' = [front EXCEPT ![m.obj] = "Created"] /\ Return(TRUE, m.obj)
           /\ UNCHANGED <<toBack, faults>>
  <2>1. front' \in FrontMaps
    BY <1>1, <1>2, OneFront DEF FrontStates
  <2>2. ASSUME faults = 0 PROVE \A o \in Objects : Agree(o)'
    <3>1. NewsOf(m)
      BY <1>0, <2>2, News DEF m
    <3>2. \A o \in Objects : Agree(o) \/ o = m.obj
      BY <3>1 DEF NewsOf
    <3>3. job[m.obj] # "none"
      BY <1>0, <3>1 DEF NewsOf, Creates, Closes
    <3>4. \A o \in Objects : front'[o] = IF o = m.obj THEN "Created" ELSE front[o]
      BY <1>1, <1>2 DEF FrontMaps
    <3> QED
      BY <1>0, <3>2, <3>3, <3>4 DEF Agree, registryVars
  <2> QED
    BY <1>0, <1>1, <1>2, <2>1, <2>2, AnswerKeeps DEF Return, Results
<1>3. CASE Fault /\ Return(FALSE, Scene(0)) /\ UNCHANGED <<toBack, front>>
  <2>1. ~UNCHANGED faults
    BY <1>3 DEF Fault, IInv, Safe, FrontInv
  <2> QED
    BY <1>0, <1>1, <1>3, <2>1, AnswerKeeps DEF Return, Results
<1>4. CASE /\ Fault /\ toBack' = Append(toBack, [op |-> "CloseScene", obj |-> m.obj])
           /\ call' = [op |-> "CloseScene", obj |-> m.obj] /\ UNCHANGED <<front, result>>
  <2>1. [op |-> "CloseScene", obj |-> m.obj] \in ValidRequests \cap Asks
    BY <1>1 DEF ValidRequests, Requests, Asks, Ops
  <2> QED
    BY <1>0, <1>4, <2>1, UndoKeeps
<1> QED
  BY <1>2, <1>3, <1>4 DEF SceneCreated, m

LEMMA ViewCreatedKeeps == ASSUME IInv, ViewCreated PROVE IInv'
<1> DEFINE m == Head(toFront)
           c == call.obj
<1>0. /\ InTime /\ UNCHANGED registryVars /\ call.op = "CreateView" /\ m \in ValidMessages
      /\ m.code = "Done" /\ Answers(m, call) /\ c \in Made /\ c \in Objects
  BY RepliedInTime DEF ViewCreated, Ops
<1>1. /\ m.kind = "reply" /\ m.obj \in ViewObjs /\ m.obj \in Made /\ m.obj \in Objects
      /\ front \in FrontMaps
  BY <1>0, MadeFacts DEF Answers, Replies, ValidMessages, IInv, Safe, FrontInv
<1> HIDE DEF m, c
<1>2. CASE /\ front' = [front EXCEPT ![m.obj] = "Created", ![c] = "Viewing"]
           /\ Return(TRUE, m.obj) /\ UNCHANGED <<toBack, faults>>
  <2>1. [front EXCEPT ![m.obj] = "Created"] \in FrontMaps
    BY <1>1, OneFront DEF FrontStates
  <2>2. [[front EXCEPT ![m.obj] = "Created"] EXCEPT ![c] = "Viewing"] \in FrontMaps
    BY <1>0, <2>1, OneFront DEF FrontStates
  <2>3. front' \in FrontMaps
    BY <1>2, <2>2
  <2>4. ASSUME faults = 0 PROVE \A o \in Objects : Agree(o)'
    <3>1. NewsOf(m) /\ front[c] # "Unknown"
      BY <1>0, <2>4, News DEF m, c
    <3>2. \A o \in Objects : Agree(o) \/ o = m.obj
      BY <3>1 DEF NewsOf
    <3>3. job[m.obj] # "none"
      BY <1>0, <3>1 DEF NewsOf, Creates, Closes
    <3>4. \A o \in Objects : front'[o] = IF o = c THEN "Viewing" ELSE
                                         IF o = m.obj THEN "Created" ELSE front[o]
      BY <1>1, <1>2 DEF FrontMaps
    <3> QED
      BY <1>0, <3>1, <3>2, <3>3, <3>4 DEF Agree, registryVars
  <2> QED
    BY <1>0, <1>1, <1>2, <2>3, <2>4, AnswerKeeps DEF Return, Results
<1>3. CASE /\ Fault /\ toBack' = Append(toBack, [op |-> "CloseView", obj |-> m.obj])
           /\ call' = [op |-> "CloseView", obj |-> m.obj] /\ UNCHANGED <<front, result>>
  <2>1. [op |-> "CloseView", obj |-> m.obj] \in ValidRequests \cap Asks
    BY <1>1 DEF ValidRequests, Requests, Asks, Ops
  <2> QED
    BY <1>0, <1>3, <2>1, UndoKeeps
<1> QED
  BY <1>2, <1>3 DEF ViewCreated, m, c

LEMMA CreateRefusedKeeps == ASSUME IInv, CreateRefused PROVE IInv'
<1> DEFINE m == Head(toFront)
<1>0. /\ InTime /\ UNCHANGED registryVars /\ m.code # "Done"
  BY RepliedInTime DEF CreateRefused, Ops
<1>1. front' \in FrontMaps /\ result' \in Results
  BY DEF CreateRefused, Return, Results, IInv, Safe, FrontInv
<1>2. ASSUME faults = 0 PROVE \A o \in Objects : Agree(o)'
  BY <1>0, <1>2, News DEF NewsOf, Agree, registryVars, CreateRefused
<1> QED
  BY <1>0, <1>1, <1>2, AnswerKeeps DEF CreateRefused, Return

LEMMA ControlledKeeps ==
  ASSUME IInv, NEW op \in {"Pause", "Resume", "Stop"}, NEW next \in {"Paused", "Working", "same"},
         Controlled(op, next)
  PROVE  IInv'
<1> DEFINE c == call.obj
<1>0. /\ InTime /\ UNCHANGED registryVars /\ call.op = op /\ c \in Made /\ c \in Objects
      /\ front \in FrontMaps /\ op \in Ops /\ UNCHANGED <<toBack, faults>>
  BY RepliedInTime DEF Controlled, Ops, IInv, Safe, FrontInv
<1>1. /\ call' = NoCall /\ result' \in Results
      /\ front' = front \/ (next # "same" /\ front' = [front EXCEPT ![c] = next])
  <2>1. Return(TRUE, c) \/ Return(FALSE, c)
    BY DEF Controlled
  <2>2. front' = front \/ front' = [front EXCEPT ![c] = IF next = "same" THEN front[c] ELSE next]
    BY DEF Controlled
  <2>3. [front EXCEPT ![c] = front[c]] = front
    BY <1>0 DEF FrontMaps
  <2>4. call' = NoCall /\ result' \in Results
    <3>1. c \in Objects
      BY <1>0
    <3> HIDE DEF c
    <3>2. \A ok \in BOOLEAN : [ok |-> ok, obj |-> c] \in Results
      BY <3>1 DEF Results
    <3> QED
      BY <2>1, <3>2 DEF Return
  <2>5. CASE next = "same"
    BY <2>2, <2>3, <2>4, <2>5
  <2>6. CASE next # "same"
    BY <2>2, <2>4, <2>6
  <2> QED
    BY <2>5, <2>6
<1> HIDE DEF c
<1>2. front' \in FrontMaps
  <2>1. next # "same" => next \in FrontStates \ {"Unknown", "Finished"}
    BY DEF FrontStates
  <2> QED
    BY <1>0, <1>1, <2>1, OneFront
<1>3. ASSUME faults = 0 PROVE \A o \in Objects : Agree(o)'
  <2>1. (\A o \in Objects : Agree(o)) /\ front[c] # "Unknown"
    BY <1>0, <1>3, News DEF NewsOf, Creates, Closes, c
  <2>2. \A o \in Objects : front'[o] = front[o] \/ (o = c /\ front'[o] # "Unknown")
    BY <1>0, <1>1 DEF FrontMaps
  <2> QED
    BY <1>0, <2>1, <2>2 DEF Agree, registryVars
<1> QED
  BY <1>0, <1>1, <1>2, <1>3, AnswerKeeps

LEMMA SceneClosedKeeps == ASSUME IInv, SceneClosed PROVE IInv'
<1> DEFINE m == Head(toFront)
           c == call.obj
           st == IF m.code = "Done" THEN "Unknown" ELSE "Invalid"
<1>0. /\ InTime /\ UNCHANGED registryVars /\ call.op = "CloseScene" /\ Answers(m, call)
      /\ c \in Made /\ c \in Objects /\ front \in FrontMaps /\ UNCHANGED <<toBack, faults>>
  BY RepliedInTime DEF SceneClosed, Ops, IInv, Safe, FrontInv
<1>1. /\ call' = NoCall /\ result' \in Results /\ st \in FrontStates \ {"Finished"}
      /\ front' = IF front[c] # "Unknown" THEN [front EXCEPT ![c] = st] ELSE front
  BY <1>0 DEF SceneClosed, Return, Results, FrontStates
<1>2. m.obj = c
  BY <1>0 DEF Answers
<1> HIDE DEF c
<1>3. front' \in FrontMaps
  BY <1>0, <1>1, OneFront
<1>4. ASSUME faults = 0 PROVE \A o \in Objects : Agree(o)'
  <2>1. NewsOf(m) /\ front[c] # "Unknown"
    BY <1>0, <1>4, News DEF c
  <2>2. /\ \A o \in Objects : Agree(o) \/ (m.code = "Done" /\ o = c)
        /\ m.code = "Done" => job[c] = "none"
    BY <1>0, <1>2, <2>1 DEF NewsOf, Creates, Closes
  <2>3. \A o \in Objects : front'[o] = IF o = c THEN st ELSE front[o]
    BY <1>0, <1>1, <2>1 DEF FrontMaps
  <2> QED
    BY <1>0, <2>1, <2>2, <2>3 DEF Agree, registryVars
<1> QED
  BY <1>0, <1>1, <1>3, <1>4, AnswerKeeps

LEMMA ViewClosedKeeps == ASSUME IInv, ViewClosed PROVE IInv'
<1> DEFINE m == Head(toFront)
           c == call.obj
           s == view2scene[c[2]]
<1>0. /\ InTime /\ UNCHANGED registryVars /\ call.op = "CloseView" /\ Answers(m, call)
      /\ c \in Made /\ c \in Objects /\ call \in ValidRequests
      /\ front \in FrontMaps /\ UNCHANGED <<toBack, faults>>
  BY RepliedInTime DEF ViewClosed, Ops, IInv, Safe, FrontInv
<1>1. m.obj = c /\ s \in DoneScenes /\ Scene(s) \in Made /\ Scene(s) \in Objects /\ Scene(s) # c
  <2>1. PICK v \in ViewIds : c = View(v)
    BY <1>0 DEF ValidRequests, ViewObjs
  <2>2. c[2] = v /\ v <= viewcounter
    BY <1>0, <2>1, ObjectFacts, MadeFacts
  <2>3. s \in DoneScenes
    BY <2>2 DEF IInv, Safe, RegistryInv
  <2> QED
    BY <1>0, <2>1, <2>3, MadeFacts, ObjectFacts DEF Answers, DoneScenes
<1>2. /\ call' = NoCall /\ result' \in Results
      /\ \/ front[c] = "Unknown" /\ front' = front
         \/ /\ front[c] # "Unknown" /\ m.code # "Done"
            /\ front' = [front EXCEPT ![c] = "Invalid"]
         \/ /\ front[c] # "Unknown" /\ m.code = "Done"
            /\ \E st \in {"Finished", front[Scene(s)]} :
                 front' = [front EXCEPT ![c] = "Unknown", ![Scene(s)] = st]
  <2>1. call' = NoCall /\ result' \in Results
    BY <1>0 DEF ViewClosed, Return, Results
  <2>2. [front EXCEPT ![c] = "Unknown"][Scene(s)] = front[Scene(s)]
    BY <1>0, <1>1 DEF FrontMaps
  <2> QED
    BY <2>1, <2>2 DEF ViewClosed
<1> HIDE DEF c, s
<1>3. front' \in FrontMaps
  <2>1. [front EXCEPT ![c] = "Unknown"] \in FrontMaps
    BY <1>0, OneFront DEF FrontStates
  <2>2. front[Scene(s)] \in FrontStates
    BY <1>0, <1>1 DEF FrontMaps
  <2>3. ASSUME NEW st \in {"Finished", front[Scene(s)]}
        PROVE  [[front EXCEPT ![c] = "Unknown"] EXCEPT ![Scene(s)] = st] \in FrontMaps
    BY <1>1, <2>1, <2>2, OneFront DEF FrontStates
  <2>4. [front EXCEPT ![c] = "Invalid"] \in FrontMaps
    BY <1>0, OneFront DEF FrontStates
  <2> QED
    BY <1>0, <1>2, <2>3, <2>4
<1>4. ASSUME faults = 0 PROVE \A o \in Objects : Agree(o)'
  <2>1. NewsOf(m) /\ front[c] # "Unknown"
    BY <1>0, <1>4, News DEF c
  <2>2. /\ \A o \in Objects : Agree(o) \/ (m.code = "Done" /\ o = c)
        /\ m.code = "Done" => job[c] = "none"
        /\ job[Scene(s)] # "none"
    BY <1>0, <1>1, <2>1 DEF NewsOf, Creates, Closes, c, s
  <2>3. front[Scene(s)] # "Unknown"
    BY <1>1, <2>2 DEF Agree
  <2>4. CASE m.code # "Done"
    <3>1. \A o \in Objects : front'[o] = IF o = c THEN "Invalid" ELSE front[o]
      BY <1>0, <1>2, <2>1, <2>4 DEF FrontMaps
    <3> QED
      BY <1>0, <2>1, <2>2, <2>4, <3>1 DEF Agree, registryVars
  <2>5. CASE m.code = "Done"
    <3>1. PICK st \in {"Finished", front[Scene(s)]} :
            front' = [front EXCEPT ![c] = "Unknown", ![Scene(s)] = st]
      BY <1>2, <2>1, <2>5
    <3>2. \A o \in Objects : front'[o] = IF o = Scene(s) THEN st ELSE
                                         IF o = c THEN "Unknown" ELSE front[o]
      BY <1>0, <3>1 DEF FrontMaps
    <3> QED
      BY <1>0, <1>1, <2>2, <2>3, <2>5, <3>2 DEF Agree, registryVars
  <2> QED
    BY <2>4, <2>5
<1> QED
  BY <1>0, <1>2, <1>3, <1>4, AnswerKeeps

LEMMA TimedOutKeeps == ASSUME IInv, TimedOut PROVE IInv'
<1>0. /\ Safe /\ MatchInv /\ UNCHANGED registryVars /\ GivenUp /\ front \in FrontMaps
      /\ stale \in Nat /\ faults \in 0..MaxFaults /\ stale <= faults
      /\ call \in ValidRequests /\ Fault /\ result' = [ok |-> FALSE, obj |-> call.obj]
  BY DEF IInv, Safe, FrontInv, TimedOut, GivenUp, Return, backVars, registryVars
<1>1. FrontShape
  BY <1>0 DEF FrontShape
<1>2. stale' \in Nat /\ faults' \in 0..MaxFaults /\ stale' <= faults' /\ faults' # 0
  BY <1>0, MaxFaultsAssumption DEF GivenUp, Fault
<1>3. front' \in FrontMaps
  <2>1. CASE call.op \in {"CloseScene", "CloseView"} /\ front[call.obj] # "Unknown"
    <3>1. call.obj \in Made
      BY <1>0, <2>1 DEF ValidRequests
    <3>2. front' = [front EXCEPT ![call.obj] = "Invalid"]
      BY <2>1 DEF TimedOut
    <3> QED
      BY <1>0, <3>1, <3>2, OneFront DEF FrontStates
  <2>2. CASE ~(call.op \in {"CloseScene", "CloseView"} /\ front[call.obj] # "Unknown")
    <3>1. front' = front
      BY <2>2 DEF TimedOut
    <3> QED
      BY <1>0, <3>1
  <2> QED
    BY <2>1, <2>2
<1>4. result' \in Results /\ call' = NoCall
  BY <1>0 DEF Results, ValidRequests, Requests, GivenUp
<1>5. FrontInv'
  BY <1>0, <1>2, <1>3, <1>4, FrontChange
<1> QED
  BY <1>0, <1>1, <1>2, <1>5, ShapeSafe, ShapeMatch DEF IInv, AgreeInv

-----------------------------------------------------------------------------
LEMMA InitIInv == Init => IInv
<1> SUFFICES ASSUME Init PROVE IInv
  OBVIOUS
<1>1. QueuesInv
  BY DEF Init, BackInit, QueuesInv
<1>2. \A o \in Objects : job[o] = "none" /\ front[o] = "Unknown"
  BY DEF Init, BackInit, FrontInit
<1>3. RegistryInv
  <2>1. job \in [Objects -> JobStates] /\ view2scene \in [ViewIds -> SceneIds \cup {0}]
    BY DEF Init, BackInit, JobStates
  <2>2. \A v \in ViewIds : ~(v <= viewcounter)
    BY IdFacts DEF Init, BackInit
  <2>3. NoViewWithoutScene
    BY <1>2, MadeFacts DEF NoViewWithoutScene, ViewsOf
  <2> QED
    BY <1>2, <2>1, <2>2, <2>3 DEF RegistryInv, Init, BackInit
<1>4. front \in FrontMaps
  <2>1. front \in [Objects -> FrontStates]
    BY DEF Init, FrontInit, FrontStates
  <2> QED
    BY <1>2, <2>1, MadeFacts DEF FrontMaps
<1>5. FrontInv
  BY <1>4, MaxFaultsAssumption DEF FrontInv, Init, FrontInit, Results
<1>6. MatchInv
  <2>1. toFront = <<>> /\ toBack = <<>> /\ <<>> \in Seq(Messages)
        /\ \A S : \A i \in 1..Len(<<>>) : <<>>[i] \notin S
    BY DEF Init, BackInit
  <2>2. Count(toFront, Replies) = 0 /\ Count(toBack, Asks) = 0
    BY <2>1, CountNone
  <2> QED
    BY <2>2 DEF MatchInv, Init, FrontInit, Waiting
<1>7. NoReply
  BY DEF NoReply, Init, BackInit
<1>8. AgreeInv
  BY <1>2, <1>7 DEF AgreeInv, Agree, Init, FrontInit
<1> QED
  BY <1>1, <1>3, <1>5, <1>6, <1>8 DEF IInv, Safe

LEMMA NextIInv == IInv /\ [Next]_vars => IInv'
<1> SUFFICES ASSUME IInv, [Next]_vars PROVE IInv'
  OBVIOUS
<1>1. CASE UNCHANGED vars
  <2>1. UNCHANGED registryVars /\ Quiet /\ UNCHANGED frontVars
    BY <1>1 DEF vars, backVars, frontVars, registryVars, Quiet
  <2>2. FrontShape
    BY <2>1 DEF FrontShape
  <2>3. FrontInv'
    BY <2>1, RegistryKept, FrontKept DEF IInv, Safe
  <2>4. AgreeInv'
    BY <1>1 DEF IInv, AgreeInv, NoReply, Agree, Sent, NewsOf, vars, backVars, frontVars
  <2> QED
    BY <2>2, <2>3, <2>4, ShapeSafe, ShapeMatch DEF IInv
<1>2. CASE ReplyArrives
  BY <1>2, SceneCreatedKeeps, ViewCreatedKeeps, CreateRefusedKeeps, SceneClosedKeeps,
     ViewClosedKeeps, ControlledKeeps DEF ReplyArrives, PauseReplied, ResumeReplied, StopReplied
<1>3. CASE BackNext /\ UNCHANGED frontVars
  BY <1>3, BackStep, BackMatch, BackAgree DEF IInv
<1> QED
  BY <1>1, <1>2, <1>3, UserStep, VerdictKeeps, LateReplyKeeps, TimedOutKeeps DEF Next,
     Receive

(* What the invariant means.                                               *)
LEMMA FrontendIsSound == IInv => FrontendInv
<1> SUFFICES ASSUME IInv PROVE FrontendInv
  OBVIOUS
<1>1. BackTypeOK
  BY QueueTypes DEF IInv, Safe, RegistryInv, BackTypeOK
<1>2. stale \in 0..MaxFaults
  BY MaxFaultsAssumption DEF IInv, Safe, FrontInv
<1>3. call.op \in Ops \cup {"none"} /\ call.obj \in Objects \cup {Scene(0), View(0)}
  BY DEF IInv, Safe, FrontInv, NoCall, ValidRequests, Requests
<1> QED
  BY <1>1, <1>2, <1>3 DEF FrontendInv, TypeOK, FrontTypeOK, IInv, Safe, FrontInv,
     RegistryInv, FrontMaps, Results

LEMMA RendersParsedScenes == IInv => RenderAfterParse
<1> SUFFICES ASSUME IInv, NEW v \in ViewIds, job[View(v)] # "none"
             PROVE  job[Scene(view2scene[v])] = "done"
  BY DEF RenderAfterParse
<1>1. v <= viewcounter
  BY MadeFacts DEF IInv, Safe, RegistryInv
<1>2. view2scene[v] \in DoneScenes
  BY <1>1 DEF IInv, Safe, RegistryInv
<1>3. job[Scene(view2scene[v])] # "none"
  BY <1>2 DEF IInv, Safe, RegistryInv, NoViewWithoutScene, ViewsOf, DoneScenes
<1> QED
  BY <1>2, <1>3 DEF DoneScenes

LEMMA SidesKnowTheSame == IInv => SidesAgree
BY DEF IInv, AgreeInv, SidesAgree, Agree

(* The state keeps its type, and the back end never holds a view of a      *)
(* scene it has closed, whatever waits were given up and whatever arrives  *)
(* late: CloseScene looks at the views, and the request for a view finds   *)
(* its scene gone.                                                         *)
THEOREM FrontendStaysSound == Spec => []FrontendInv
BY FrontendIsSound, InitIInv, NextIInv, PTL DEF Spec

(* A view renders only for a scene that was parsed to the end and is still *)
(* there.                                                                  *)
THEOREM RenderingFollowsParsing == Spec => []RenderAfterParse
BY RendersParsedScenes, InitIInv, NextIInv, PTL DEF Spec

(* As long as no wait was given up and nothing failed locally, both sides  *)
(* know of the same scenes and views whenever no request is under way.     *)
THEOREM SidesStayAgreed == Spec => []SidesAgree
BY SidesKnowTheSame, InitIInv, NextIInv, PTL DEF Spec

(***************************************************************************)
(* Part 2: the session that issues the requests.                           *)
(***************************************************************************)

ExitCodes == 0..2
Shellouts ==
  [hadPreScene : BOOLEAN, hadPostScene : BOOLEAN, hadUserAbort : BOOLEAN,
   cancelRender : BOOLEAN, skipCallouts : BOOLEAN, skipNextFrame : BOOLEAN,
   skipAllFrames : BOOLEAN, killRequested : BOOLEAN, exitCode : ExitCodes, frameNo : Nat,
   event : Events \cup {"none"}, running : BOOLEAN]

(* Frames are skipped for good only in a render that is cancelled.         *)
SkipsSound(sh) == sh \in Shellouts /\ (sh.skipAllFrames => sh.cancelRender)
(* What follows from sh is sound, and a cancel is not taken back.          *)
Follows(sh, next) == SkipsSound(next) /\ (sh.cancelRender => next.cancelRender)

LEMMA ShelloutsTyped == \A sh \in Shellouts : ShelloutTypeOK(sh)
BY DEF Shellouts, ExitCodes, ShelloutTypeOK, NewShellout

LEMMA ExitCodesAre == 0 \in ExitCodes /\ 1 \in ExitCodes /\ 2 \in ExitCodes
BY DEF ExitCodes

LEMMA MarkFollows ==
  ASSUME NEW sh, SkipsSound(sh), NEW e \in Events
  PROVE  Follows(sh, Mark(sh, e))
<1>1. Mark(sh, e) \in {sh, [sh EXCEPT !.hadPreScene = TRUE], [sh EXCEPT !.hadPostScene = TRUE],
        [sh EXCEPT !.hadUserAbort = TRUE],
        [sh EXCEPT !.cancelRender = TRUE, !.skipCallouts = TRUE, !.exitCode = 1]}
  BY DEF Mark
<1>2. Follows(sh, sh) /\ Follows(sh, [sh EXCEPT !.hadPreScene = TRUE])
      /\ Follows(sh, [sh EXCEPT !.hadPostScene = TRUE])
      /\ Follows(sh, [sh EXCEPT !.hadUserAbort = TRUE])
  BY DEF SkipsSound, Follows, Shellouts
<1>3. Follows(sh, [sh EXCEPT !.cancelRender = TRUE, !.skipCallouts = TRUE, !.exitCode = 1])
  BY ExitCodesAre DEF SkipsSound, Follows, Shellouts
<1> QED
  BY <1>1, <1>2, <1>3

LEMMA HandleFollows ==
  ASSUME NEW sh, SkipsSound(sh), NEW cmds, NEW e \in Events, NEW internal \in BOOLEAN,
         NEW r \in HandleProcessEvent(sh, cmds, e, internal)
  PROVE  Follows(sh, r.sh)
<1> DEFINE f == IF sh.hadPreScene THEN e ELSE "preScene"
           m == Mark(sh, f)
           started == [m EXCEPT !.event = f]
<1>1. f \in Events
  BY DEF Events
<1>2. Follows(sh, m)
  BY <1>1, MarkFollows
<1>3. Follows(sh, started) 
  BY <1>1, <1>2 DEF Follows, SkipsSound, Shellouts
<1>4. r \in {Outcome(sh, "none")} \/ r \in {Outcome(m, "none")} \/ r \in ExecuteCommand(started)
  BY DEF HandleProcessEvent
<1>5. Follows(sh, sh)
  BY DEF Follows
<1> HIDE DEF m, f
<1>6. CASE r \in ExecuteCommand(started)
  <2> HIDE DEF started
  <2> DEFINE failing == [started EXCEPT !.skipCallouts = TRUE]
             runs(b) == [started EXCEPT !.running = b]
  <2>1. \/ r = Outcome(started, "prohibited")
        \/ r = Outcome(failing, "failed")
        \/ \E b \in BOOLEAN : r = Outcome(runs(b), "none")
    <3>1. CASE started.running
      BY <1>6, <3>1 DEF ExecuteCommand
    <3>2. CASE ~started.running
      BY <1>6, <3>2 DEF ExecuteCommand
    <3> QED
      BY <3>1, <3>2
  <2>2. Follows(sh, failing)
    <3>1. failing \in Shellouts /\ failing.skipAllFrames = started.skipAllFrames
          /\ failing.cancelRender = started.cancelRender
      BY <1>3 DEF Follows, SkipsSound, Shellouts
    <3> QED
      BY <1>3, <3>1 DEF Follows, SkipsSound, Shellouts
  <2>3. ASSUME NEW b \in BOOLEAN PROVE Follows(sh, runs(b))
    BY <1>3 DEF Follows, SkipsSound, Shellouts
  <2> HIDE DEF failing, runs
  <2>4. \A s, x : Outcome(s, x).sh = s
    BY DEF Outcome
  <2> QED
    BY <1>3, <2>1, <2>2, <2>3, <2>4
<1> QED
  BY <1>2, <1>4, <1>5, <1>6 DEF Outcome

LEMMA ReturnedFollows ==
  ASSUME NEW sh, SkipsSound(sh), NEW cmds, NEW e,
         NEW r \in Returned(sh, cmds, e)
  PROVE  Follows(sh, r.sh)
<1> DEFINE cancelled == [sh EXCEPT !.cancelRender = TRUE]
           abort == [cancelled EXCEPT !.exitCode = 2]
           fatal == [cancelled EXCEPT !.exitCode = 1]
<1>1. Follows(sh, sh) /\ Follows(sh, cancelled) /\ cancelled.cancelRender
  BY DEF Follows, SkipsSound, Shellouts
<1> HIDE DEF cancelled
<1>2. Follows(sh, abort) /\ Follows(sh, fatal) /\ abort.cancelRender /\ fatal.cancelRender
  BY ExitCodesAre, <1>1 DEF Follows, SkipsSound, Shellouts
<1>3. /\ Follows(sh, [cancelled EXCEPT !.skipCallouts = TRUE, !.exitCode = 0])
      /\ \A b \in BOOLEAN : Follows(sh, [cancelled EXCEPT !.exitCode = 0, !.skipCallouts = @ \/ b])
      /\ Follows(sh, [sh EXCEPT !.skipNextFrame = TRUE])
      /\ Follows(sh, [cancelled EXCEPT !.skipAllFrames = TRUE, !.exitCode = 0])
      /\ Follows(sh, [cancelled EXCEPT !.skipAllFrames = TRUE])
  <2>1. Follows(sh, [cancelled EXCEPT !.skipCallouts = TRUE, !.exitCode = 0])
    BY ExitCodesAre, <1>1 DEF Follows, SkipsSound, Shellouts
  <2>2. ASSUME NEW b \in BOOLEAN
        PROVE  Follows(sh, [cancelled EXCEPT !.exitCode = 0, !.skipCallouts = @ \/ b])
    BY ExitCodesAre, <1>1 DEF Follows, SkipsSound, Shellouts
  <2>3. Follows(sh, [sh EXCEPT !.skipNextFrame = TRUE])
    BY ExitCodesAre, <1>1 DEF Follows, SkipsSound, Shellouts
  <2>4. Follows(sh, [cancelled EXCEPT !.skipAllFrames = TRUE, !.exitCode = 0])
    BY ExitCodesAre, <1>1 DEF Follows, SkipsSound, Shellouts
  <2>5. Follows(sh, [cancelled EXCEPT !.skipAllFrames = TRUE])
    BY ExitCodesAre, <1>1 DEF Follows, SkipsSound, Shellouts
  <2> QED
    BY <2>1, <2>2, <2>3, <2>4, <2>5
<1> HIDE DEF abort, fatal
<1>4. "userAbort" \in Events /\ "fatalError" \in Events
  BY DEF Events
<1>5. ASSUME r \in HandleProcessEvent(abort, cmds, "userAbort", TRUE)
             \/ r \in HandleProcessEvent(fatal, cmds, "fatalError", TRUE)
      PROVE  Follows(sh, r.sh)
  BY <1>2, <1>4, <1>5, HandleFollows DEF Follows
<1> DEFINE quit == [cancelled EXCEPT !.skipCallouts = TRUE, !.exitCode = 0]
           skipScene(b) == [cancelled EXCEPT !.exitCode = 0, !.skipCallouts = @ \/ b]
           skipOne == [sh EXCEPT !.skipNextFrame = TRUE]
           skipAll == [cancelled EXCEPT !.skipAllFrames = TRUE, !.exitCode = 0]
           noMore == [cancelled EXCEPT !.skipAllFrames = TRUE]
           aborts == HandleProcessEvent(abort, cmds, "userAbort", TRUE)
           fatals == HandleProcessEvent(fatal, cmds, "fatalError", TRUE)
           ends == {Outcome(s, "none") : s \in {sh, abort, quit, skipScene(TRUE),
                      skipScene(FALSE), skipOne, skipAll, noMore}}
<1>6. Returned(sh, cmds, e) \in {aborts, fatals} \/ Returned(sh, cmds, e) \subseteq ends
  <2> DEFINE action == cmds[e]
             common == e \notin {"userAbort", "fatalError"}
             skips == action \in {"skipOne", "skipAll"}
             isAll == action = "skipAll"
             only(s) == {Outcome(s, "none")}
  <2>1. skipScene(isAll) \in {skipScene(TRUE), skipScene(FALSE)}
    BY isAll \in BOOLEAN, skipScene(isAll) = skipScene(TRUE) \/ skipScene(isAll) = skipScene(FALSE)
  <2>2. Returned(sh, cmds, e) =
       CASE action = "ignore" -> only(sh)
         [] common /\ action = "quit" -> only(quit)
         [] common /\ action = "abort" -> aborts
         [] common /\ action = "fatal" -> fatals
         [] e = "preScene" /\ skips -> only(skipScene(isAll))
         [] e = "preFrame" /\ action = "skipOne" -> only(skipOne)
         [] e = "preFrame" /\ action = "skipAll" -> only(skipAll)
         [] e = "postFrame" /\ skips -> only(noMore)
         [] e = "userAbort" /\ action = "fatal" -> fatals
         [] e = "userAbort" /\ action # "fatal" -> only(abort)
         [] OTHER -> only(sh)
    BY DEF Returned, abort, fatal, cancelled
  <2> HIDE DEF quit, skipScene, skipOne, skipAll, noMore, aborts, fatals, action
  <2>3. \A s \in {sh, abort, quit, skipScene(TRUE), skipScene(FALSE), skipOne, skipAll, noMore} :
          only(s) \subseteq ends
    OBVIOUS
  <2> HIDE DEF only, ends
  <2> QED
    BY <2>1, <2>2, <2>3
<1> HIDE DEF aborts, fatals
<1>7. ASSUME r \in ends PROVE Follows(sh, r.sh)
  <2>1. Follows(sh, skipScene(TRUE)) /\ Follows(sh, skipScene(FALSE))
    BY <1>3
  <2>2. Follows(sh, quit) /\ Follows(sh, skipOne) /\ Follows(sh, skipAll) /\ Follows(sh, noMore)
    BY <1>3
  <2> HIDE DEF quit, skipScene, skipOne, skipAll, noMore
  <2>3. PICK s \in {sh, abort, quit, skipScene(TRUE), skipScene(FALSE), skipOne, skipAll, noMore} :
          r = Outcome(s, "none")
    BY <1>7
  <2>4. r.sh = s
    BY <2>3 DEF Outcome
  <2>5. Follows(sh, s)
    BY <1>1, <1>2, <2>1, <2>2
  <2> QED
    BY <2>4, <2>5
<1> QED
  BY <1>5, <1>6, <1>7 DEF aborts, fatals

LEMMA RunningFollows ==
  ASSUME NEW sh, SkipsSound(sh), NEW cmds, NEW r \in ShelloutRunning(sh, cmds)
  PROVE  Follows(sh, r.sh)
<1> DEFINE collected == [sh EXCEPT !.event = "none"]
<1>1. Follows(sh, sh) /\ Follows(sh, collected)
  BY DEF Follows, SkipsSound, Shellouts
<1> HIDE DEF collected
<1>2. r.sh \in {sh, collected} \/ r \in Returned(collected, cmds, sh.event)
  BY DEF ShelloutRunning, PostProcessEvent, Outcome, collected
<1>3. ASSUME r \in Returned(collected, cmds, sh.event) PROVE Follows(sh, r.sh)
  BY <1>1, <1>3, ReturnedFollows DEF Follows
<1> QED
  BY <1>1, <1>2, <1>3

LEMMA KillFollows ==
  ASSUME NEW sh, SkipsSound(sh), NEW next \in KillShellouts(sh)
  PROVE  Follows(sh, next)
BY ZenonT(60) DEF KillShellouts, Follows, SkipsSound, Shellouts

LEMMA ClockFollows ==
  ASSUME NEW sh, SkipsSound(sh), NEW n \in Nat
  PROVE  Follows(sh, SetFrameClock(sh, n))
BY DEF SetFrameClock, Follows, SkipsSound, Shellouts

-----------------------------------------------------------------------------
(* What a session does to its RenderFrontend: a request for the scene or   *)
(* the view it has, which may be none, what RenderFrontend does, or a      *)
(* fault outside of it.                                                    *)
SceneAsked(s) ==
  \/ RequestCreateView(Scene(s)) \/ RequestStartParser(Scene(s))
  \/ RequestPauseParser(Scene(s)) \/ RequestResumeParser(Scene(s))
  \/ RequestStopParser(Scene(s)) \/ RequestCloseScene(Scene(s))
ViewAsked(v) ==
  \/ RequestStartRender(View(v)) \/ RequestPauseRender(View(v))
  \/ RequestResumeRender(View(v)) \/ RequestStopRender(View(v))
  \/ RequestCloseView(View(v))
Requested ==
  \/ RequestCreateScene
  \/ \E s \in SceneIds \cup {0} : SceneAsked(s)
  \/ \E v \in ViewIds \cup {0} : ViewAsked(v)
LocalFault == Fault /\ UNCHANGED <<backVars, front, call, result, stale>>

(* Of the default id nothing is known, and nothing is sent about it.       *)
LEMMA DefaultNotSent ==
  /\ SceneAsked(0) => /\ result' \in Results /\ call = NoCall
                      /\ UNCHANGED <<backVars, call, stale, faults, front>>
  /\ ViewAsked(0) => /\ result' \in Results /\ call = NoCall
                     /\ UNCHANGED <<backVars, call, stale, faults, front>>
<1>1. StateOf(Scene(0)) = "Unknown" /\ StateOf(View(0)) = "Unknown"
  BY IdFacts DEF StateOf
<1>2. SceneAsked(0) => /\ call = NoCall
                       /\ NotSent(Scene(0)) \/ (result' = [ok |-> FALSE, obj |-> Scene(0)]
                            /\ UNCHANGED <<call, stale, faults>> /\ UNCHANGED backVars)
                       /\ UNCHANGED front
  BY <1>1 DEF SceneAsked, RequestCreateView, RequestStartParser, RequestPauseParser,
     RequestResumeParser, RequestStopParser, RequestCloseScene, Request, Begin, NotSent
<1>3. ViewAsked(0) => call = NoCall /\ NotSent(View(0)) /\ UNCHANGED front
  BY <1>1 DEF ViewAsked, RequestStartRender, RequestPauseRender, RequestResumeRender,
     RequestStopRender, RequestCloseView, Request, Begin, NotSent
<1>4. ASSUME NEW o \in {Scene(0), View(0)}, NotSent(o)
      PROVE  result' \in Results /\ UNCHANGED <<backVars, call, stale, faults>>
  BY <1>4 DEF NotSent, Results
<1>5. [ok |-> FALSE, obj |-> Scene(0)] \in Results
  BY DEF Results
<1>6. SceneAsked(0) => /\ result' \in Results /\ call = NoCall
                       /\ UNCHANGED <<backVars, call, stale, faults, front>>
  BY <1>2, <1>4, <1>5
<1> QED
  BY <1>3, <1>4, <1>6

LEMMA RequestedKeeps == ASSUME IInv, Requested PROVE IInv'
<1>1. CASE UserOfFrontend
  BY <1>1, UserStep
<1>2. CASE SceneAsked(0) \/ ViewAsked(0)
  <2>1. /\ result' \in Results /\ call = NoCall
        /\ UNCHANGED <<backVars, call, stale, faults, front>>
    BY <1>2, DefaultNotSent
  <2>2. front' \in FrontMaps /\ SameKnown
    BY <2>1 DEF IInv, Safe, FrontInv, SameKnown
  <2> QED
    BY <2>1, <2>2, QuietKeeps
<1>3. ASSUME NEW s \in SceneIds, SceneAsked(s) PROVE UserOfFrontend
  BY <1>3 DEF SceneAsked, UserOfFrontend
<1>4. ASSUME NEW v \in ViewIds, ViewAsked(v) PROVE UserOfFrontend
  BY <1>4 DEF ViewAsked, UserOfFrontend
<1> QED
  BY <1>1, <1>2, <1>3, <1>4 DEF Requested, UserOfFrontend

LEMMA LocalFaultKeeps == ASSUME IInv, LocalFault PROVE IInv'
<1>1. UNCHANGED registryVars /\ Quiet /\ FrontShape
  BY DEF LocalFault, backVars, registryVars, Quiet, FrontShape
<1>2. faults' = faults + 1 /\ faults \in Nat /\ faults < MaxFaults
  BY MaxFaultsAssumption DEF LocalFault, Fault, IInv, Safe, FrontInv
<1>3. FrontInv'
  BY <1>1, <1>2, FrontChange, MaxFaultsAssumption DEF IInv, Safe, FrontInv, LocalFault
<1>4. AgreeInv'
  BY <1>2 DEF AgreeInv
<1> QED
  BY <1>1, <1>3, <1>4, ShapeSafe, ShapeMatch DEF IInv

LEMMA ReceiveKeeps == ASSUME IInv, Receive PROVE IInv'
<1>1. Next
  BY DEF Next
<1> QED
  BY <1>1, NextIInv

LEMMA BackKeeps == ASSUME IInv, BackNext, UNCHANGED frontVars PROVE IInv'
<1>1. Next
  BY DEF Next
<1> QED
  BY <1>1, NextIInv

(* Every step of a session is one of these.                                *)
FrontStep ==
  \/ UNCHANGED vars
  \/ Requested \/ Receive \/ TimedOut \/ LocalFault
  \/ BackNext /\ UNCHANGED frontVars

LEMMA FrontStepKeeps == ASSUME IInv, FrontStep PROVE IInv'
<1>1. CASE UNCHANGED vars
  BY <1>1, NextIInv
<1> QED
  BY <1>1, RequestedKeeps, LocalFaultKeeps, ReceiveKeeps, BackKeeps, TimedOutKeeps
     DEF FrontStep

-----------------------------------------------------------------------------
FrameNos == 1..Frames
Members == [postPause : States, pauseRequested : BOOLEAN, pausedAfterFrame : BOOLEAN,
            sceneId : SceneIds \cup {0}, viewId : ViewIds \cup {0}, frame : FrameNos]
Flags == [succeeded : BOOLEAN, failed : BOOLEAN, cancelRequested : BOOLEAN,
          request : {"none", "Pause", "Resume"}]
Elsewhere == Places \cup {"process", "control", "catch"}

TypeInv ==
  /\ state \in States /\ fe \in Members /\ session \in Flags
  /\ pc \in Elsewhere \cup Waits /\ then \in Places
  /\ doing \in {"none", "Pause", "Resume"} /\ user \in {"none", "Pause", "Resume"}
  /\ SkipsSound(shellout) /\ commands \in Commands
  /\ settled \subseteq FrameNos
  /\ starts \in 0..MaxStarts /\ requests \in 0..MaxRequests
  /\ call # NoCall => pc \in Waits

(* The worker waits for a reply only in the states the wait belongs to.    *)
ClosingStates == {"Parsing", "PostFrameShellout", "Stopped"}
WaitsIn(p) ==
  CASE p = "sceneCreated" -> {"PreFrameShellout"}
    [] p = "viewCreated"  -> {"Parsing"}
    [] p = "viewClosed"   -> ClosingStates
    [] p = "sceneClosed"  -> ClosingStates
    [] p = "pausing"      -> {"Parsing", "Rendering"}
    [] p = "resuming"     -> {"PausedParsing", "PausedRendering"}
    [] p = "stopping"     -> {"Parsing", "PausedParsing", "Rendering", "PausedRendering"}

PlaceInv ==
  /\ pc \in Waits => state \in WaitsIn(pc)
  /\ state = "PostShelloutPause" => fe.postPause \in {"Parsing", "Starting", "Stopped"}

CreateInv ==
  /\ pc = "sceneCreated" /\ call # NoCall => call.op \in {"CreateScene", "CloseScene"}
  /\ pc = "sceneCreated" /\ call = NoCall /\ result.ok => result.obj \in SceneObjs
  /\ pc = "viewCreated" /\ call # NoCall => call.op \in {"CreateView", "CloseView"}
  /\ pc = "viewCreated" /\ call = NoCall /\ result.ok => result.obj \in ViewObjs

PauseInv == fe.pauseRequested =>
  state \in {"PreSceneShellout", "PreFrameShellout", "PostFrameShellout",
             "PostSceneShellout", "Failed", "Stopped", "Done", "Ready"}

FramesInv ==
  /\ 1..(fe.frame - 1) \subseteq settled
  /\ state = "PostFrameShellout" => fe.frame \in settled
  /\ state = "Parsing" /\ pc \in {"viewClosed", "sceneClosed"} => fe.frame \in settled
  /\ state = "PostFrameShellout" /\ pc \in {"viewClosed", "sceneClosed"} => MoreFrames

SuccessInv ==
  session.succeeded /\ ~session.failed /\ ~shellout.cancelRender => settled = FrameNos

LocalInv == TypeInv /\ PlaceInv /\ CreateInv /\ PauseInv /\ FramesInv /\ SuccessInv

-----------------------------------------------------------------------------
LEMMA LeaveFacts ==
  ASSUME TypeInv, NEW st, Leave(st)
  PROVE  state' = st /\ pc' \in Elsewhere
BY DEF Leave, Onward, Control, TypeInv, Elsewhere, Places

LEMMA PlacesAre ==
  /\ \A p \in Elsewhere : p \notin Waits
  /\ \A p \in Waits : p \notin {"receive", "last", "drain", "stop", "process", "control", "catch"}
BY DEF Elsewhere, Places, Waits

(* The frames so far, when one more is settled.                            *)
LEMMA FrameFacts ==
  ASSUME TypeInv, FramesInv
  PROVE  /\ Frames \in Nat /\ fe.frame \in Nat /\ fe.frame >= 1 /\ fe.frame <= Frames
         /\ 1 \in FrameNos
         /\ MoreFrames => fe.frame + 1 \in FrameNos
         /\ ~MoreFrames => settled \cup {fe.frame} = FrameNos
         /\ settled \cup {fe.frame} \subseteq FrameNos
         /\ 1..((fe.frame + 1) - 1) \subseteq settled \cup {fe.frame}
<1>1. Frames \in Nat /\ fe.frame \in Nat /\ fe.frame >= 1 /\ fe.frame <= Frames
  BY FramesAssumption DEF TypeInv, Members, FrameNos
<1>2. 1 \in FrameNos /\ (MoreFrames => fe.frame + 1 \in FrameNos)
  BY <1>1 DEF FrameNos, MoreFrames
<1>3. settled \subseteq FrameNos /\ 1..(fe.frame - 1) \subseteq settled /\ fe.frame \in FrameNos
  BY DEF TypeInv, FramesInv, Members
<1>4. ~MoreFrames => FrameNos = 1..fe.frame
  BY <1>1 DEF FrameNos, MoreFrames
<1>5. 1..fe.frame = 1..(fe.frame - 1) \cup {fe.frame} /\ (fe.frame + 1) - 1 = fe.frame
  BY <1>1
<1> QED
  BY <1>1, <1>2, <1>3, <1>4, <1>5


(* What a shell-out did to the record of its members is sound, and once    *)
(* the render is cancelled it stays so.                                    *)
LEMMA ShelloutFollows ==
  ASSUME TypeInv
  PROVE  /\ \A r \in ShelloutRunning(shellout, commands) : Follows(shellout, r.sh)
         /\ \A e \in Events : \A b \in BOOLEAN :
              \A r \in HandleProcessEvent(shellout, commands, e, b) : Follows(shellout, r.sh)
         /\ Follows(shellout, shellout)
         /\ \A n \in Nat : Follows(shellout, SetFrameClock(shellout, n))
BY RunningFollows, HandleFollows, ClockFollows DEF TypeInv, Follows

(* Changes of the members.                                                 *)
LEMMA MembersChange ==
  ASSUME NEW m \in Members, NEW st \in States, NEW f \in FrameNos
  PROVE  /\ [m EXCEPT !.postPause = st, !.pauseRequested = FALSE] \in Members
         /\ [m EXCEPT !.frame = f] \in Members
         /\ [m EXCEPT !.frame = f, !.pausedAfterFrame = TRUE, !.pauseRequested = FALSE] \in Members
         /\ [m EXCEPT !.frame = f, !.pauseRequested = FALSE, !.postPause = st] \in Members
BY DEF Members

LEMMA MembersScene ==
  ASSUME NEW m \in Members, NEW st \in States, NEW i \in SceneIds
  PROVE  [m EXCEPT !.sceneId = i, !.postPause = st, !.pauseRequested = FALSE] \in Members
BY DEF Members

LEMMA MembersView ==
  ASSUME NEW m \in Members, NEW i \in ViewIds
  PROVE  [m EXCEPT !.viewId = i] \in Members
BY DEF Members

LEMMA ProcessNothingKeeps ==
  ASSUME IInv, LocalInv, ProcessNothing
  PROVE  LocalInv' /\ FrontStep
<1>1. TypeInv'
  <2>1. /\ state' \in States /\ pc' \in Elsewhere \cup Waits /\ then' \in Places
        /\ doing' \in {"none", "Pause", "Resume"} /\ user' \in {"none", "Pause", "Resume"}
    BY DEF LocalInv, ProcessNothing, Leave, Onward, Control, Local, UserVars, TypeInv, Elsewhere,
       Places
  <2>2. fe' \in Members
    BY DEF LocalInv, ProcessNothing, TypeInv
  <2>3. session' \in Flags
    BY DEF LocalInv, ProcessNothing, TypeInv
  <2>4. SkipsSound(shellout') /\ settled' \subseteq FrameNos
    BY DEF LocalInv, ProcessNothing, TypeInv
  <2>5. commands' \in Commands /\ starts' \in 0..MaxStarts /\ requests' \in 0..MaxRequests
    BY DEF LocalInv, TypeInv, ProcessNothing, Local, UserVars
  <2>6. call' # NoCall => pc' \in Waits
    BY PlacesAre DEF LocalInv, ProcessNothing, Local, TypeInv, vars, frontVars
  <2> QED
    BY <2>1, <2>2, <2>3, <2>4, <2>5, <2>6 DEF TypeInv
<1>2. PlaceInv'
  BY PlacesAre DEF LocalInv, ProcessNothing, Leave, Onward, Control, PlaceInv, Elsewhere, TypeInv
<1>3. CreateInv'
  BY DEF LocalInv, ProcessNothing, Leave, Onward, Control, CreateInv, TypeInv, Places
<1>4. PauseInv'
  BY DEF LocalInv, ProcessNothing, Leave, PauseInv
<1>5. FramesInv'
  BY DEF LocalInv, ProcessNothing, Leave, Onward, Control, FramesInv, TypeInv, Places
<1>6. SuccessInv'
  BY DEF LocalInv, ProcessNothing, SuccessInv
<1>7. FrontStep
  BY DEF ProcessNothing, Local, FrontStep
<1> QED
  BY <1>1, <1>2, <1>3, <1>4, <1>5, <1>6, <1>7 DEF LocalInv

LEMMA ProcessStartingKeeps ==
  ASSUME IInv, LocalInv, ProcessStarting
  PROVE  LocalInv' /\ FrontStep
<1>1. TypeInv'
  <2>1. /\ state' \in States /\ pc' \in Elsewhere \cup Waits /\ then' \in Places
        /\ doing' \in {"none", "Pause", "Resume"} /\ user' \in {"none", "Pause", "Resume"}
    BY ShelloutFollows, PlacesAre, FrameFacts DEF LocalInv, ProcessStarting, Leave, Onward, Control,
       Remote, UserVars, At, HandleShelloutCancel, Failing, Succeeding, MoreFrames, TypeInv,
       Elsewhere, Waits, Places, States
  <2>2. fe' \in Members
    BY DEF LocalInv, ProcessStarting, TypeInv
  <2>3. session' \in Flags
    BY ShelloutFollows, PlacesAre, FrameFacts, ZenonT(60) DEF LocalInv, ProcessStarting, Leave,
       Onward, Control,
       Remote, UserVars, At, HandleShelloutCancel, Failing, Succeeding, MoreFrames, TypeInv, Flags
  <2>4. SkipsSound(shellout') /\ settled' \subseteq FrameNos
    <3> DEFINE sh == IF Frames > 1 THEN SetFrameClock(shellout, fe.frame) ELSE shellout
    <3>1. SkipsSound(sh)
      BY ShelloutFollows, FrameFacts DEF LocalInv, TypeInv, Follows
    <3>2. shellout' = sh
          \/ \E r \in HandleProcessEvent(sh, commands, "preFrame", FALSE) : shellout' = r.sh
      BY DEF ProcessStarting
    <3> HIDE DEF sh
    <3>3. SkipsSound(shellout')
      BY <3>1, <3>2, HandleFollows DEF Follows, Events
    <3> QED
      BY <3>3 DEF ProcessStarting, LocalInv, TypeInv
  <2>5. commands' \in Commands /\ starts' \in 0..MaxStarts /\ requests' \in 0..MaxRequests
    BY DEF LocalInv, TypeInv, ProcessStarting, Remote, UserVars
  <2>6. call' # NoCall => pc' \in Waits
    BY PlacesAre DEF LocalInv, ProcessStarting, Leave, Onward, Control, Idle, Local, Remote,
       UserVars, At, HasReturned, LeaveOrPause, HandleShelloutCancel, Failing, Succeeding, Closing,
       Completed, Finished, UserAborts, Answer, Taken, CarryOut, MoreFrames, OfUser, ProcessVerdict,
       TypeInv, Waits, Ask, Tell, NotSent, Request, Begin, RequestCreateScene, RequestCreateView,
       RequestStartParser, RequestStartRender, RequestCloseView, RequestCloseScene, vars, frontVars
  <2> QED
    BY <2>1, <2>2, <2>3, <2>4, <2>5, <2>6 DEF TypeInv
<1>2. PlaceInv'
  BY ShelloutFollows, PlacesAre, FrameFacts DEF LocalInv, ProcessStarting, Leave, Onward, Control,
     Remote, UserVars, At, HandleShelloutCancel, Failing, Succeeding, MoreFrames, PlaceInv,
     Elsewhere, WaitsIn, TypeInv, Places, Members, States, ClosingStates
<1>3. CreateInv'
  BY ShelloutFollows, PlacesAre, FrameFacts DEF LocalInv, ProcessStarting, Leave, Onward, Control,
     Remote, UserVars, At, HandleShelloutCancel, Failing, Succeeding, MoreFrames, CreateInv,
     Elsewhere, TypeInv, Places, vars, NoCall
<1>4. PauseInv'
  BY DEF LocalInv, ProcessStarting, At, PauseInv
<1>5. FramesInv'
  BY ShelloutFollows, PlacesAre, FrameFacts DEF LocalInv, ProcessStarting, Leave, Onward, Control,
     Remote, UserVars, At, HandleShelloutCancel, Failing, Succeeding, MoreFrames, FramesInv,
     TypeInv, Members, States, Elsewhere, Places
<1>6. SuccessInv'
  BY ShelloutFollows, PlacesAre, FrameFacts, ZenonT(60) DEF LocalInv, ProcessStarting, Leave,
     Onward, Control,
     Remote, UserVars, At, HandleShelloutCancel, Failing, Succeeding, MoreFrames, SuccessInv,
     TypeInv, Flags, Follows, Events, FrameNos
<1>7. FrontStep
  BY DEF ProcessStarting, Leave, Onward, Control, Remote, UserVars, At, HandleShelloutCancel,
     Failing, Succeeding, FrontStep, Requested, SceneAsked, ViewAsked, LocalInv, TypeInv, Members,
     CreateInv, LocalFault, SceneObjs, ViewObjs
<1> QED
  BY <1>1, <1>2, <1>3, <1>4, <1>5, <1>6, <1>7 DEF LocalInv

LEMMA ProcessShelloutKeeps ==
  ASSUME IInv, LocalInv, ProcessShellout
  PROVE  LocalInv' /\ FrontStep
<1>1. TypeInv'
  <2>1. /\ state' \in States /\ pc' \in Elsewhere \cup Waits /\ then' \in Places
        /\ doing' \in {"none", "Pause", "Resume"} /\ user' \in {"none", "Pause", "Resume"}
    BY DEF LocalInv, ProcessShellout, Leave, Onward, Control, Local, UserVars, HandleShelloutCancel,
       TypeInv, Elsewhere, Places, States
  <2>2. fe' \in Members
    BY DEF LocalInv, ProcessShellout, TypeInv
  <2>3. session' \in Flags
    BY ShelloutFollows, PlacesAre, FrameFacts, ZenonT(60) DEF LocalInv, ProcessShellout, Leave,
       Onward, Control,
       Local, UserVars, At, HandleShelloutCancel, Failing, Succeeding, Completed, MoreFrames,
       TypeInv, Flags
  <2>4. SkipsSound(shellout') /\ settled' \subseteq FrameNos
    BY ShelloutFollows, FrameFacts DEF LocalInv, ProcessShellout, Follows
  <2>5. commands' \in Commands /\ starts' \in 0..MaxStarts /\ requests' \in 0..MaxRequests
    BY DEF LocalInv, TypeInv, ProcessShellout, Local, UserVars
  <2>6. call' # NoCall => pc' \in Waits
    BY PlacesAre DEF LocalInv, ProcessShellout, Local, At, TypeInv, vars, frontVars
  <2> QED
    BY <2>1, <2>2, <2>3, <2>4, <2>5, <2>6 DEF TypeInv
<1>2. PlaceInv'
  BY PlacesAre DEF LocalInv, ProcessShellout, Leave, Onward, Control, HandleShelloutCancel,
     PlaceInv, Elsewhere, TypeInv
<1>3. CreateInv'
  BY DEF LocalInv, ProcessShellout, Leave, Onward, Control, HandleShelloutCancel, CreateInv,
     TypeInv, Places
<1>4. PauseInv'
  BY DEF LocalInv, ProcessShellout, Leave, HandleShelloutCancel, PauseInv
<1>5. FramesInv'
  BY DEF LocalInv, ProcessShellout, Leave, Onward, Control, HandleShelloutCancel, FramesInv,
     TypeInv, Places
<1>6. SuccessInv'
  BY ShelloutFollows DEF LocalInv, ProcessShellout, Failing, Completed, SuccessInv, TypeInv, Flags,
     Follows
<1>7. FrontStep
  BY DEF ProcessShellout, Local, FrontStep
<1> QED
  BY <1>1, <1>2, <1>3, <1>4, <1>5, <1>6, <1>7 DEF LocalInv

LEMMA ProcessPreSceneKeeps ==
  ASSUME IInv, LocalInv, ProcessPreScene
  PROVE  LocalInv' /\ FrontStep
<1>1. TypeInv'
  <2>1. /\ state' \in States /\ pc' \in Elsewhere \cup Waits /\ then' \in Places
        /\ doing' \in {"none", "Pause", "Resume"} /\ user' \in {"none", "Pause", "Resume"}
    BY DEF LocalInv, ProcessPreScene, Leave, Onward, Control, Local, UserVars, LeaveOrPause,
       TypeInv, Elsewhere, Places, States
  <2>2. fe' \in Members
    <3>1. fe \in Members /\ "Starting" \in States /\ fe.frame \in FrameNos
      BY DEF LocalInv, TypeInv, States, Members
    <3> QED
      BY <3>1, MembersChange DEF ProcessPreScene, LeaveOrPause
  <2>3. session' \in Flags
    BY DEF LocalInv, ProcessPreScene, TypeInv
  <2>4. SkipsSound(shellout') /\ settled' \subseteq FrameNos
    BY ShelloutFollows, FrameFacts DEF LocalInv, ProcessPreScene, Follows
  <2>5. commands' \in Commands /\ starts' \in 0..MaxStarts /\ requests' \in 0..MaxRequests
    BY DEF LocalInv, TypeInv, ProcessPreScene, Local, UserVars
  <2>6. call' # NoCall => pc' \in Waits
    BY PlacesAre DEF LocalInv, ProcessPreScene, Local, At, TypeInv, vars, frontVars
  <2> QED
    BY <2>1, <2>2, <2>3, <2>4, <2>5, <2>6 DEF TypeInv
<1>2. PlaceInv'
  BY ShelloutFollows, PlacesAre, FrameFacts DEF LocalInv, ProcessPreScene, Leave, Onward, Control,
     Local, UserVars, At, LeaveOrPause, Completed, MoreFrames, PlaceInv, Elsewhere, WaitsIn,
     TypeInv, Places, Members, States, ClosingStates
<1>3. CreateInv'
  BY DEF LocalInv, ProcessPreScene, Leave, Onward, Control, LeaveOrPause, CreateInv, TypeInv, Places
<1>4. PauseInv'
  BY ShelloutFollows, PlacesAre, FrameFacts DEF LocalInv, ProcessPreScene, Leave, Onward, Control,
     Local, UserVars, At, LeaveOrPause, Completed, MoreFrames, PauseInv, TypeInv, Members, States
<1>5. FramesInv'
  BY ShelloutFollows, PlacesAre, FrameFacts, ZenonT(60) DEF LocalInv, ProcessPreScene, Leave,
     Onward, Control,
     Local, UserVars, At, LeaveOrPause, Completed, MoreFrames, FramesInv, TypeInv, Members, States,
     Elsewhere, Places
<1>6. SuccessInv'
  BY ShelloutFollows DEF LocalInv, ProcessPreScene, SuccessInv, Follows
<1>7. FrontStep
  BY DEF ProcessPreScene, Local, FrontStep
<1> QED
  BY <1>1, <1>2, <1>3, <1>4, <1>5, <1>6, <1>7 DEF LocalInv

LEMMA ProcessPreFrameKeeps ==
  ASSUME IInv, LocalInv, ProcessPreFrame
  PROVE  LocalInv' /\ FrontStep
<1>1. TypeInv'
  <2>1. /\ state' \in States /\ pc' \in Elsewhere \cup Waits /\ then' \in Places
        /\ doing' \in {"none", "Pause", "Resume"} /\ user' \in {"none", "Pause", "Resume"}
    BY DEF LocalInv, ProcessPreFrame, Leave, Onward, Control, Remote, UserVars, TypeInv, Elsewhere,
       Waits, Places, States
  <2>2. fe' \in Members
    <3> DEFINE n == IF MoreFrames THEN fe.frame + 1 ELSE fe.frame
               st == IF MoreFrames THEN "Starting" ELSE "Stopped"
               next == [fe EXCEPT !.frame = n]
    <3>1. fe \in Members /\ st \in States /\ n \in FrameNos
      BY FrameFacts DEF LocalInv, TypeInv, States, Members
    <3>2. next \in Members
      BY <3>1, MembersChange
    <3>3. fe' \in {fe, next, [next EXCEPT !.postPause = st, !.pauseRequested = FALSE]}
      BY <3>1 DEF ProcessPreFrame, Members
    <3> HIDE DEF n, st, next
    <3> QED
      BY <3>1, <3>2, <3>3, MembersChange
  <2>3. session' \in Flags
    BY ShelloutFollows, PlacesAre, FrameFacts DEF LocalInv, ProcessPreFrame, Leave, Onward, Control,
       Remote, UserVars, At, Succeeding, Completed, MoreFrames, TypeInv, Flags
  <2>4. SkipsSound(shellout') /\ settled' \subseteq FrameNos
    BY ShelloutFollows, FrameFacts DEF LocalInv, ProcessPreFrame, Follows
  <2>5. commands' \in Commands /\ starts' \in 0..MaxStarts /\ requests' \in 0..MaxRequests
    BY DEF LocalInv, TypeInv, ProcessPreFrame, Remote, UserVars
  <2>6. call' # NoCall => pc' \in Waits
    BY DEF LocalInv, ProcessPreFrame, At, TypeInv, Waits, vars, frontVars
  <2> QED
    BY <2>1, <2>2, <2>3, <2>4, <2>5, <2>6 DEF TypeInv
<1>2. PlaceInv'
  BY ShelloutFollows, PlacesAre, FrameFacts, ZenonT(60) DEF LocalInv, ProcessPreFrame, Leave,
     Onward, Control,
     Remote, UserVars, At, Succeeding, Completed, MoreFrames, PlaceInv, Elsewhere, WaitsIn, TypeInv,
     Places, Members, States, ClosingStates
<1>3. CreateInv'
  BY DEF LocalInv, ProcessPreFrame, Leave, Onward, Control, CreateInv, TypeInv, Places,
     RequestCreateScene, Ask, NoCall
<1>4. PauseInv'
  BY ShelloutFollows, PlacesAre, FrameFacts, ZenonT(60) DEF LocalInv, ProcessPreFrame, Leave,
     Onward, Control,
     Remote, UserVars, At, Succeeding, Completed, MoreFrames, PauseInv, TypeInv, Members, States
<1>5. FramesInv'
  <2>1. CASE UNCHANGED <<fe, settled>> /\ state' = "PreFrameShellout"
    BY <2>1 DEF LocalInv, FramesInv
  <2>2. CASE /\ settled' = settled \cup {fe.frame} /\ pc' \in Elsewhere
             /\ state' \in {"Starting", "Stopped", "PostShelloutPause"}
             /\ fe'.frame = fe.frame \/ fe'.frame = fe.frame + 1
    <3>1. 1..(fe'.frame - 1) \subseteq settled'
      BY <2>2, FrameFacts DEF LocalInv, FramesInv
    <3> QED
      BY <2>2, <3>1 DEF FramesInv
  <2> QED
    BY <2>1, <2>2, LeaveFacts DEF ProcessPreFrame, At, LocalInv, TypeInv, Members
<1>6. SuccessInv'
  BY ShelloutFollows, PlacesAre, FrameFacts DEF LocalInv, ProcessPreFrame, Leave, Onward, Control,
     Remote, UserVars, At, Succeeding, Completed, MoreFrames, SuccessInv, TypeInv, Flags, Follows,
     Events, FrameNos
<1>7. FrontStep
  BY DEF ProcessPreFrame, FrontStep, Requested
<1> QED
  BY <1>1, <1>2, <1>3, <1>4, <1>5, <1>6, <1>7 DEF LocalInv

LEMMA SceneIsCreatedKeeps ==
  ASSUME IInv, LocalInv, SceneIsCreated
  PROVE  LocalInv' /\ FrontStep
<1>1. TypeInv'
  <2>1. /\ state' \in States /\ pc' \in Elsewhere \cup Waits /\ then' \in Places
        /\ doing' \in {"none", "Pause", "Resume"} /\ user' \in {"none", "Pause", "Resume"}
    BY DEF LocalInv, SceneIsCreated, Leave, Onward, Control, Remote, UserVars, TypeInv, Elsewhere,
       Places, States
  <2>2. fe' \in Members
    <3> DEFINE st == IF fe.pauseRequested THEN "Parsing" ELSE fe.postPause
    <3>1. fe \in Members /\ st \in States /\ fe.frame \in FrameNos
      BY DEF LocalInv, TypeInv, States, Members
    <3>2. result.ok => result.obj[2] \in SceneIds
      BY ObjectFacts DEF LocalInv, CreateInv, SceneIsCreated, HasReturned, SceneObjs
    <3>3. fe' = fe \/ (result.ok /\ fe' = [fe EXCEPT !.sceneId = result.obj[2],
                                              !.postPause = st, !.pauseRequested = FALSE])
      BY DEF SceneIsCreated
    <3> HIDE DEF st
    <3>4. result.ok => [fe EXCEPT !.sceneId = result.obj[2], !.postPause = st,
                                  !.pauseRequested = FALSE] \in Members
      BY <3>1, <3>2, MembersScene
    <3> QED
      BY <3>1, <3>3, <3>4
  <2>3. session' \in Flags
    BY ShelloutFollows, PlacesAre, FrameFacts DEF LocalInv, SceneIsCreated, Leave, Onward, Control,
       Remote, UserVars, HasReturned, Failing, MoreFrames, TypeInv, Flags
  <2>4. SkipsSound(shellout') /\ settled' \subseteq FrameNos
    BY DEF LocalInv, SceneIsCreated, TypeInv
  <2>5. commands' \in Commands /\ starts' \in 0..MaxStarts /\ requests' \in 0..MaxRequests
    BY DEF LocalInv, TypeInv, SceneIsCreated, Remote, UserVars
  <2>6. call' # NoCall => pc' \in Waits
    BY DEF SceneIsCreated, UserVars, At, HasReturned, Tell, NotSent, Begin, RequestStartParser,
       vars, frontVars
  <2> QED
    BY <2>1, <2>2, <2>3, <2>4, <2>5, <2>6 DEF TypeInv
<1>2. PlaceInv'
  BY ShelloutFollows, PlacesAre, FrameFacts DEF LocalInv, SceneIsCreated, Leave, Onward, Control,
     Remote, UserVars, HasReturned, Failing, MoreFrames, PlaceInv, Elsewhere, WaitsIn, TypeInv,
     Places, Members, States, ClosingStates
<1>3. CreateInv'
  BY DEF LocalInv, SceneIsCreated, Leave, Onward, Control, CreateInv, TypeInv, Places
<1>4. PauseInv'
  BY ShelloutFollows, PlacesAre, FrameFacts DEF LocalInv, SceneIsCreated, Leave, Onward, Control,
     Remote, UserVars, HasReturned, Failing, MoreFrames, PauseInv, TypeInv, Members, States
<1>5. FramesInv'
  BY ShelloutFollows, PlacesAre, FrameFacts DEF LocalInv, SceneIsCreated, Leave, Onward, Control,
     Remote, UserVars, HasReturned, Failing, MoreFrames, FramesInv, TypeInv, Members, States,
     Elsewhere, Places
<1>6. SuccessInv'
  BY DEF LocalInv, SceneIsCreated, Failing, SuccessInv, TypeInv, Flags
<1>7. FrontStep
  BY DEF SceneIsCreated, HasReturned, FrontStep, Requested, SceneAsked, LocalInv, CreateInv,
     SceneObjs
<1> QED
  BY <1>1, <1>2, <1>3, <1>4, <1>5, <1>6, <1>7 DEF LocalInv

LEMMA ProcessParsingKeeps ==
  ASSUME IInv, LocalInv, ProcessParsing
  PROVE  LocalInv' /\ FrontStep
<1>1. TypeInv'
  <2>1. /\ state' \in States /\ pc' \in Elsewhere \cup Waits /\ then' \in Places
        /\ doing' \in {"none", "Pause", "Resume"} /\ user' \in {"none", "Pause", "Resume"}
    BY DEF LocalInv, ProcessParsing, Leave, Onward, Control, Local, Remote, UserVars,
       ProcessVerdict, TypeInv, Elsewhere, Waits, Places, States
  <2>2. fe' \in Members
    BY DEF LocalInv, ProcessParsing, ProcessVerdict, TypeInv
  <2>3. session' \in Flags
    BY ShelloutFollows, PlacesAre, FrameFacts DEF LocalInv, ProcessParsing, Leave, Onward, Control,
       Local, Remote, UserVars, At, Failing, MoreFrames, ProcessVerdict, TypeInv, Flags
  <2>4. SkipsSound(shellout') /\ settled' \subseteq FrameNos
    BY DEF LocalInv, ProcessParsing, ProcessVerdict, TypeInv
  <2>5. commands' \in Commands /\ starts' \in 0..MaxStarts /\ requests' \in 0..MaxRequests
    BY DEF LocalInv, TypeInv, ProcessParsing, Local, Remote, UserVars, ProcessVerdict
  <2>6. call' # NoCall => pc' \in Waits
    BY PlacesAre DEF LocalInv, ProcessParsing, Local, At, ProcessVerdict, TypeInv, Waits, vars,
       frontVars
  <2> QED
    BY <2>1, <2>2, <2>3, <2>4, <2>5, <2>6 DEF TypeInv
<1>2. PlaceInv'
  BY ShelloutFollows, PlacesAre, FrameFacts DEF LocalInv, ProcessParsing, Leave, Onward, Control,
     At, ProcessVerdict, PlaceInv, Elsewhere, WaitsIn, TypeInv
<1>3. CreateInv'
  BY DEF LocalInv, ProcessParsing, Leave, Onward, Control, ProcessVerdict, CreateInv, TypeInv,
     Places, RequestCreateView, Ask, NoCall
<1>4. PauseInv'
  BY DEF LocalInv, ProcessParsing, At, ProcessVerdict, PauseInv
<1>5. FramesInv'
  BY DEF LocalInv, ProcessParsing, Leave, ProcessVerdict, FramesInv
<1>6. SuccessInv'
  BY DEF LocalInv, ProcessParsing, Failing, ProcessVerdict, SuccessInv, TypeInv, Flags
<1>7. FrontStep
  BY DEF ProcessParsing, Local, ProcessVerdict, FrontStep, Requested, SceneAsked, LocalInv, TypeInv,
     Members
<1> QED
  BY <1>1, <1>2, <1>3, <1>4, <1>5, <1>6, <1>7 DEF LocalInv

LEMMA ViewIsCreatedKeeps ==
  ASSUME IInv, LocalInv, ViewIsCreated
  PROVE  LocalInv' /\ FrontStep
<1>1. TypeInv'
  <2>1. /\ state' \in States /\ pc' \in Elsewhere \cup Waits /\ then' \in Places
        /\ doing' \in {"none", "Pause", "Resume"} /\ user' \in {"none", "Pause", "Resume"}
    BY DEF LocalInv, ViewIsCreated, Leave, Onward, Control, Remote, UserVars, Closing, TypeInv,
       Elsewhere, Waits, Places, States
  <2>2. fe' \in Members
    <3>1. fe \in Members /\ fe.postPause \in States /\ fe.frame \in FrameNos
      BY DEF LocalInv, TypeInv, Members
    <3>2. result.ok => result.obj[2] \in ViewIds
      BY ObjectFacts DEF LocalInv, CreateInv, ViewIsCreated, HasReturned, ViewObjs
    <3>3. fe' = fe \/ (result.ok /\ fe' = [fe EXCEPT !.viewId = result.obj[2]])
      BY DEF ViewIsCreated
    <3>4. result.ok => [fe EXCEPT !.viewId = result.obj[2]] \in Members
      BY <3>1, <3>2, MembersView
    <3> QED
      BY <3>1, <3>3, <3>4
  <2>3. session' \in Flags
    BY ShelloutFollows, PlacesAre, FrameFacts DEF LocalInv, ViewIsCreated, Leave, Onward, Control,
       Remote, UserVars, HasReturned, Failing, Closing, MoreFrames, TypeInv, Flags
  <2>4. SkipsSound(shellout') /\ settled' \subseteq FrameNos
    BY FrameFacts DEF LocalInv, ViewIsCreated, TypeInv
  <2>5. commands' \in Commands /\ starts' \in 0..MaxStarts /\ requests' \in 0..MaxRequests
    BY DEF LocalInv, TypeInv, ViewIsCreated, Remote, UserVars
  <2>6. call' # NoCall => pc' \in Waits
    BY DEF ViewIsCreated, UserVars, At, HasReturned, Succeeding, Closing, Completed, Waits, Ask,
       Tell, NotSent, Begin, RequestStartRender, vars, frontVars
  <2> QED
    BY <2>1, <2>2, <2>3, <2>4, <2>5, <2>6 DEF TypeInv
<1>2. PlaceInv'
  BY ShelloutFollows, PlacesAre, FrameFacts DEF LocalInv, ViewIsCreated, Leave, Onward, Control,
     Closing, PlaceInv, Elsewhere, WaitsIn, TypeInv, Places, ClosingStates
<1>3. CreateInv'
  BY DEF LocalInv, ViewIsCreated, Leave, Onward, Control, Closing, CreateInv, TypeInv, Places
<1>4. PauseInv'
  <2>1. fe'.pauseRequested = fe.pauseRequested /\ fe'.frame = fe.frame
    BY DEF ViewIsCreated, LocalInv, TypeInv, Members
  <2>2. state = "Parsing"
    BY DEF ViewIsCreated, LocalInv, PlaceInv, WaitsIn, Waits
  <2> QED
    BY <2>1, <2>2 DEF LocalInv, PauseInv
<1>5. FramesInv'
  <2>1. fe'.frame = fe.frame
    BY DEF ViewIsCreated, LocalInv, TypeInv, Members
  <2>2. state = "Parsing"
    BY DEF ViewIsCreated, LocalInv, PlaceInv, WaitsIn, Waits
  <2>3. \/ settled' = settled \cup {fe.frame} /\ state' = state
        \/ settled' = settled /\ pc' \in Elsewhere /\ state' \in {"Rendering", "Failed"}
    BY LeaveFacts DEF ViewIsCreated, LocalInv, Closing
  <2> QED
    BY <2>1, <2>2, <2>3, PlacesAre DEF LocalInv, FramesInv, Waits
<1>6. SuccessInv'
  BY FrameFacts DEF LocalInv, ViewIsCreated, Leave, Onward, Control, Remote, UserVars, Failing,
     Closing, SuccessInv, TypeInv, Flags
<1>7. FrontStep
  BY DEF ViewIsCreated, HasReturned, FrontStep, Requested, ViewAsked, LocalInv, CreateInv, ViewObjs
<1> QED
  BY <1>1, <1>2, <1>3, <1>4, <1>5, <1>6, <1>7 DEF LocalInv

LEMMA ProcessRenderingKeeps ==
  ASSUME IInv, LocalInv, ProcessRendering
  PROVE  LocalInv' /\ FrontStep
<1>1. TypeInv'
  <2>1. /\ state' \in States /\ pc' \in Elsewhere \cup Waits /\ then' \in Places
        /\ doing' \in {"none", "Pause", "Resume"} /\ user' \in {"none", "Pause", "Resume"}
    BY ShelloutFollows, PlacesAre, FrameFacts, ZenonT(60) DEF LocalInv, ProcessRendering, Leave,
       Onward,
       Control, Local, Remote, UserVars, At, HandleShelloutCancel, Failing, Succeeding, MoreFrames,
       ProcessVerdict, TypeInv, Elsewhere, Waits, Places, States
  <2>2. fe' \in Members
    BY ShelloutFollows, PlacesAre, FrameFacts DEF LocalInv, ProcessRendering, Leave, Onward,
       Control, Local, Remote, UserVars, At, HandleShelloutCancel, Failing, Succeeding, MoreFrames,
       ProcessVerdict, TypeInv, Members, States
  <2>3. session' \in Flags
    BY ShelloutFollows, PlacesAre, FrameFacts DEF LocalInv, ProcessRendering, Leave, Onward,
       Control, Local, Remote, UserVars, At, HandleShelloutCancel, Failing, Succeeding, MoreFrames,
       ProcessVerdict, TypeInv, Flags
  <2>4. SkipsSound(shellout') /\ settled' \subseteq FrameNos
    BY ShelloutFollows, PlacesAre, FrameFacts DEF LocalInv, ProcessRendering, Leave, Onward,
       Control, Local, Remote, UserVars, At, HandleShelloutCancel, Failing, Succeeding, MoreFrames,
       ProcessVerdict, TypeInv, Follows, Events
  <2>5. commands' \in Commands /\ starts' \in 0..MaxStarts /\ requests' \in 0..MaxRequests
    BY BoundsAssumption DEF LocalInv, TypeInv, ProcessRendering, Leave, Onward, Control, Local,
       Remote, UserVars, At, HandleShelloutCancel, Failing, Succeeding, ProcessVerdict
  <2>6. call' # NoCall => pc' \in Waits
    BY PlacesAre DEF LocalInv, ProcessRendering, Leave, Onward, Control, Idle, Local, Remote,
       UserVars, At, HasReturned, LeaveOrPause, HandleShelloutCancel, Failing, Succeeding, Closing,
       Completed, Finished, UserAborts, Answer, Taken, CarryOut, MoreFrames, OfUser, ProcessVerdict,
       TypeInv, Waits, Ask, Tell, NotSent, Request, Begin, RequestCreateScene, RequestCreateView,
       RequestStartParser, RequestStartRender, RequestCloseView, RequestCloseScene, vars, frontVars
  <2> QED
    BY <2>1, <2>2, <2>3, <2>4, <2>5, <2>6 DEF TypeInv
<1>2. PlaceInv'
  <2>1. pc' \in Elsewhere /\ state' # "PostShelloutPause"
    <3>1. CASE ProcessVerdict({"Rendering", "PausedRendering"}, View(fe.viewId), "PausedRendering")
      BY <3>1, LeaveFacts DEF ProcessVerdict, LocalInv
    <3>2. CASE \E st \in {"Failed", "Stopped", "PostFrameShellout"} : Leave(st)
      BY <3>2, LeaveFacts DEF LocalInv
    <3> QED
      BY <3>1, <3>2 DEF ProcessRendering, HandleShelloutCancel
  <2> QED
    BY <2>1, PlacesAre DEF PlaceInv
<1>3. CreateInv'
  BY ShelloutFollows, PlacesAre, FrameFacts DEF LocalInv, ProcessRendering, Leave, Onward, Control,
     Local, Remote, UserVars, At, HandleShelloutCancel, Failing, Succeeding, MoreFrames,
     ProcessVerdict, CreateInv, Elsewhere, TypeInv, Places, vars, NoCall
<1>4. PauseInv'
  BY ShelloutFollows, PlacesAre, FrameFacts DEF LocalInv, ProcessRendering, Leave, Onward, Control,
     Local, Remote, UserVars, At, HandleShelloutCancel, Failing, Succeeding, MoreFrames,
     ProcessVerdict, PauseInv, TypeInv, Members, States
<1>5. FramesInv'
  BY ShelloutFollows, PlacesAre, FrameFacts DEF LocalInv, ProcessRendering, Leave, Onward, Control,
     Local, Remote, UserVars, At, HandleShelloutCancel, Failing, Succeeding, MoreFrames,
     ProcessVerdict, FramesInv, TypeInv, Members, States, Elsewhere, Places
<1>6. SuccessInv'
  BY ShelloutFollows, PlacesAre, FrameFacts DEF LocalInv, ProcessRendering, Leave, Onward, Control,
     Local, Remote, UserVars, At, HandleShelloutCancel, Failing, Succeeding, MoreFrames,
     ProcessVerdict, SuccessInv, TypeInv, Flags, Follows, Events, FrameNos
<1>7. FrontStep
  BY DEF ProcessRendering, Leave, Onward, Control, Local, Remote, UserVars, At,
     HandleShelloutCancel, Failing, Succeeding, ProcessVerdict, FrontStep, Requested, SceneAsked,
     ViewAsked, LocalInv, TypeInv, Members, CreateInv, LocalFault, SceneObjs, ViewObjs
<1> QED
  BY <1>1, <1>2, <1>3, <1>4, <1>5, <1>6, <1>7 DEF LocalInv

LEMMA ProcessPostFrameKeeps ==
  ASSUME IInv, LocalInv, ProcessPostFrame
  PROVE  LocalInv' /\ FrontStep
<1>1. TypeInv'
  <2>1. /\ state' \in States /\ pc' \in Elsewhere \cup Waits /\ then' \in Places
        /\ doing' \in {"none", "Pause", "Resume"} /\ user' \in {"none", "Pause", "Resume"}
    BY DEF LocalInv, ProcessPostFrame, Leave, Onward, Control, Remote, UserVars, LeaveOrPause,
       Closing, TypeInv, Elsewhere, Waits, Places, States
  <2>2. fe' \in Members
    <3>1. fe \in Members /\ "Stopped" \in States /\ fe.frame \in FrameNos
      BY DEF LocalInv, TypeInv, States, Members
    <3>2. fe' \in {fe, [fe EXCEPT !.postPause = "Stopped", !.pauseRequested = FALSE]}
      BY DEF ProcessPostFrame, LeaveOrPause
    <3> QED
      BY <3>1, <3>2, MembersChange, ZenonT(60)
  <2>3. session' \in Flags
    BY ShelloutFollows, PlacesAre, FrameFacts DEF LocalInv, ProcessPostFrame, Leave, Onward,
       Control, Remote, UserVars, At, LeaveOrPause, Succeeding, Closing, Completed, MoreFrames,
       TypeInv, Flags
  <2>4. SkipsSound(shellout') /\ settled' \subseteq FrameNos
    BY ShelloutFollows, FrameFacts DEF LocalInv, ProcessPostFrame, Follows
  <2>5. commands' \in Commands /\ starts' \in 0..MaxStarts /\ requests' \in 0..MaxRequests
    BY DEF LocalInv, TypeInv, ProcessPostFrame, Remote, UserVars
  <2>6. call' # NoCall => pc' \in Waits
    BY PlacesAre DEF LocalInv, ProcessPostFrame, At, Closing, TypeInv, Waits, vars, frontVars
  <2> QED
    BY <2>1, <2>2, <2>3, <2>4, <2>5, <2>6 DEF TypeInv
<1>2. PlaceInv'
  BY ShelloutFollows, PlacesAre, FrameFacts DEF LocalInv, ProcessPostFrame, Leave, Onward, Control,
     Remote, UserVars, At, LeaveOrPause, Succeeding, Closing, Completed, MoreFrames, PlaceInv,
     Elsewhere, WaitsIn, TypeInv, Places, Members, States, ClosingStates
<1>3. CreateInv'
  BY DEF LocalInv, ProcessPostFrame, Leave, Onward, Control, LeaveOrPause, Closing, CreateInv,
     TypeInv, Places
<1>4. PauseInv'
  BY ShelloutFollows, PlacesAre, FrameFacts DEF LocalInv, ProcessPostFrame, Leave, Onward, Control,
     Remote, UserVars, At, LeaveOrPause, Succeeding, Closing, Completed, MoreFrames, PauseInv,
     TypeInv, Members, States
<1>5. FramesInv'
  BY ShelloutFollows, PlacesAre, FrameFacts, ZenonT(60) DEF LocalInv, ProcessPostFrame, Leave,
     Onward, Control,
     Remote, UserVars, At, LeaveOrPause, Succeeding, Closing, Completed, MoreFrames, FramesInv,
     TypeInv, Members, States, Elsewhere, Places
<1>6. SuccessInv'
  <2>1. PICK r \in ShelloutRunning(shellout, commands) :
          /\ Completed(r)
          /\ shellout' = r.sh
          /\ \/ (~MoreFrames \/ r.sh.skipAllFrames) /\ session' = Succeeding
             \/ session' = session
    BY DEF ProcessPostFrame
  <2>2. Follows(shellout, r.sh) /\ ~r.sh.skipAllFrames
    BY <2>1, ShelloutFollows DEF LocalInv, Completed, Follows, SkipsSound
  <2>3. fe.frame \in settled /\ settled' = settled
    BY DEF ProcessPostFrame, At, Remote, LocalInv, FramesInv
  <2>4. CASE ~MoreFrames
    BY <2>3, <2>4, FrameFacts DEF LocalInv, SuccessInv
  <2> QED
    BY <2>1, <2>2, <2>3, <2>4 DEF LocalInv, SuccessInv, Follows
<1>7. FrontStep
  BY DEF ProcessPostFrame, FrontStep, Requested, ViewAsked, LocalInv, TypeInv, Members
<1> QED
  BY <1>1, <1>2, <1>3, <1>4, <1>5, <1>6, <1>7 DEF LocalInv

LEMMA ProcessPostSceneKeeps ==
  ASSUME IInv, LocalInv, ProcessPostScene
  PROVE  LocalInv' /\ FrontStep
<1>1. TypeInv'
  <2>1. /\ state' \in States /\ pc' \in Elsewhere \cup Waits /\ then' \in Places
        /\ doing' \in {"none", "Pause", "Resume"} /\ user' \in {"none", "Pause", "Resume"}
    BY DEF LocalInv, ProcessPostScene, Leave, Onward, Control, Local, UserVars, TypeInv, Elsewhere,
       Places, States
  <2>2. fe' \in Members
    BY DEF LocalInv, ProcessPostScene, TypeInv
  <2>3. session' \in Flags
    BY ShelloutFollows, PlacesAre, FrameFacts DEF LocalInv, ProcessPostScene, Leave, Onward,
       Control, Local, UserVars, At, Failing, MoreFrames, TypeInv, Flags
  <2>4. SkipsSound(shellout') /\ settled' \subseteq FrameNos
    BY ShelloutFollows, FrameFacts DEF LocalInv, ProcessPostScene, Follows
  <2>5. commands' \in Commands /\ starts' \in 0..MaxStarts /\ requests' \in 0..MaxRequests
    BY DEF LocalInv, TypeInv, ProcessPostScene, Local, UserVars
  <2>6. call' # NoCall => pc' \in Waits
    BY PlacesAre DEF LocalInv, ProcessPostScene, Local, At, TypeInv, vars, frontVars
  <2> QED
    BY <2>1, <2>2, <2>3, <2>4, <2>5, <2>6 DEF TypeInv
<1>2. PlaceInv'
  BY PlacesAre DEF LocalInv, ProcessPostScene, Leave, Onward, Control, PlaceInv, Elsewhere, TypeInv
<1>3. CreateInv'
  BY DEF LocalInv, ProcessPostScene, Leave, Onward, Control, CreateInv, TypeInv, Places
<1>4. PauseInv'
  BY DEF LocalInv, ProcessPostScene, Leave, PauseInv
<1>5. FramesInv'
  BY DEF LocalInv, ProcessPostScene, Leave, At, FramesInv
<1>6. SuccessInv'
  BY ShelloutFollows DEF LocalInv, ProcessPostScene, Failing, SuccessInv, TypeInv, Flags, Follows
<1>7. FrontStep
  BY DEF ProcessPostScene, Local, FrontStep
<1> QED
  BY <1>1, <1>2, <1>3, <1>4, <1>5, <1>6, <1>7 DEF LocalInv

LEMMA ProcessStoppingKeeps ==
  ASSUME IInv, LocalInv, ProcessStopping
  PROVE  LocalInv' /\ FrontStep
<1>1. TypeInv'
  <2>1. /\ state' \in States /\ pc' \in Elsewhere \cup Waits /\ then' \in Places
        /\ doing' \in {"none", "Pause", "Resume"} /\ user' \in {"none", "Pause", "Resume"}
    BY DEF LocalInv, ProcessStopping, Leave, Onward, Control, Local, UserVars, TypeInv, Elsewhere,
       Places, States
  <2>2. fe' \in Members
    BY DEF LocalInv, ProcessStopping, TypeInv
  <2>3. session' \in Flags
    BY DEF LocalInv, ProcessStopping, TypeInv
  <2>4. SkipsSound(shellout') /\ settled' \subseteq FrameNos
    BY DEF LocalInv, ProcessStopping, TypeInv
  <2>5. commands' \in Commands /\ starts' \in 0..MaxStarts /\ requests' \in 0..MaxRequests
    BY DEF LocalInv, TypeInv, ProcessStopping, Local, UserVars
  <2>6. call' # NoCall => pc' \in Waits
    BY PlacesAre DEF LocalInv, ProcessStopping, Local, At, TypeInv, vars, frontVars
  <2> QED
    BY <2>1, <2>2, <2>3, <2>4, <2>5, <2>6 DEF TypeInv
<1>2. PlaceInv'
  BY PlacesAre DEF LocalInv, ProcessStopping, Leave, Onward, Control, PlaceInv, Elsewhere, TypeInv
<1>3. CreateInv'
  BY DEF LocalInv, ProcessStopping, Leave, Onward, Control, CreateInv, TypeInv, Places
<1>4. PauseInv'
  BY DEF LocalInv, ProcessStopping, At, PauseInv
<1>5. FramesInv'
  BY DEF LocalInv, ProcessStopping, Leave, FramesInv
<1>6. SuccessInv'
  BY DEF LocalInv, ProcessStopping, SuccessInv
<1>7. FrontStep
  BY DEF ProcessStopping, Local, FrontStep
<1> QED
  BY <1>1, <1>2, <1>3, <1>4, <1>5, <1>6, <1>7 DEF LocalInv

LEMMA ProcessFailedKeeps ==
  ASSUME IInv, LocalInv, ProcessFailed
  PROVE  LocalInv' /\ FrontStep
<1>1. TypeInv'
  <2>1. /\ state' \in States /\ pc' \in Elsewhere \cup Waits /\ then' \in Places
        /\ doing' \in {"none", "Pause", "Resume"} /\ user' \in {"none", "Pause", "Resume"}
    BY DEF LocalInv, ProcessFailed, Leave, Onward, Control, Local, UserVars, TypeInv, Elsewhere,
       Places, States
  <2>2. fe' \in Members
    BY DEF LocalInv, ProcessFailed, TypeInv
  <2>3. session' \in Flags
    BY ShelloutFollows, PlacesAre, FrameFacts DEF LocalInv, ProcessFailed, Leave, Onward, Control,
       Local, UserVars, At, Failing, MoreFrames, TypeInv, Flags
  <2>4. SkipsSound(shellout') /\ settled' \subseteq FrameNos
    BY ShelloutFollows, PlacesAre, FrameFacts DEF LocalInv, ProcessFailed, Leave, Onward, Control,
       Local, UserVars, At, Failing, MoreFrames, TypeInv, Follows, Events
  <2>5. commands' \in Commands /\ starts' \in 0..MaxStarts /\ requests' \in 0..MaxRequests
    BY DEF LocalInv, TypeInv, ProcessFailed, Local, UserVars
  <2>6. call' # NoCall => pc' \in Waits
    BY PlacesAre DEF LocalInv, ProcessFailed, Local, At, TypeInv, vars, frontVars
  <2> QED
    BY <2>1, <2>2, <2>3, <2>4, <2>5, <2>6 DEF TypeInv
<1>2. PlaceInv'
  BY PlacesAre DEF LocalInv, ProcessFailed, Leave, Onward, Control, PlaceInv, Elsewhere, TypeInv
<1>3. CreateInv'
  BY DEF LocalInv, ProcessFailed, Leave, Onward, Control, CreateInv, TypeInv, Places
<1>4. PauseInv'
  BY DEF ProcessFailed, Leave, MoreFrames, PauseInv
<1>5. FramesInv'
  BY DEF LocalInv, ProcessFailed, Leave, FramesInv
<1>6. SuccessInv'
  BY DEF ProcessFailed, Failing, SuccessInv
<1>7. FrontStep
  BY DEF ProcessFailed, Local, FrontStep
<1> QED
  BY <1>1, <1>2, <1>3, <1>4, <1>5, <1>6, <1>7 DEF LocalInv

LEMMA ProcessStoppedKeeps ==
  ASSUME IInv, LocalInv, ProcessStopped
  PROVE  LocalInv' /\ FrontStep
<1>1. TypeInv'
  <2>1. /\ state' \in States /\ pc' \in Elsewhere \cup Waits /\ then' \in Places
        /\ doing' \in {"none", "Pause", "Resume"} /\ user' \in {"none", "Pause", "Resume"}
    BY DEF LocalInv, ProcessStopped, Remote, UserVars, Closing, TypeInv, Waits
  <2>2. fe' \in Members
    BY DEF LocalInv, ProcessStopped, TypeInv
  <2>3. session' \in Flags
    BY DEF LocalInv, ProcessStopped, TypeInv
  <2>4. SkipsSound(shellout') /\ settled' \subseteq FrameNos
    BY DEF LocalInv, ProcessStopped, TypeInv
  <2>5. commands' \in Commands /\ starts' \in 0..MaxStarts /\ requests' \in 0..MaxRequests
    BY DEF LocalInv, TypeInv, ProcessStopped, Remote, UserVars
  <2>6. call' # NoCall => pc' \in Waits
    BY DEF ProcessStopped, Closing, Waits
  <2> QED
    BY <2>1, <2>2, <2>3, <2>4, <2>5, <2>6 DEF TypeInv
<1>2. PlaceInv'
  BY DEF ProcessStopped, At, Closing, PlaceInv, WaitsIn, ClosingStates
<1>3. CreateInv'
  BY DEF ProcessStopped, Closing, CreateInv
<1>4. PauseInv'
  BY DEF ProcessStopped, At, Closing, PauseInv
<1>5. FramesInv'
  BY DEF LocalInv, ProcessStopped, At, Closing, FramesInv
<1>6. SuccessInv'
  BY FrameFacts DEF LocalInv, ProcessStopped, SuccessInv
<1>7. FrontStep
  BY DEF ProcessStopped, FrontStep, Requested, ViewAsked, LocalInv, TypeInv, Members
<1> QED
  BY <1>1, <1>2, <1>3, <1>4, <1>5, <1>6, <1>7 DEF LocalInv

LEMMA ProcessDoneKeeps ==
  ASSUME IInv, LocalInv, ProcessDone
  PROVE  LocalInv' /\ FrontStep
<1>1. TypeInv'
  <2>1. /\ state' \in States /\ pc' \in Elsewhere \cup Waits /\ then' \in Places
        /\ doing' \in {"none", "Pause", "Resume"} /\ user' \in {"none", "Pause", "Resume"}
    BY DEF LocalInv, ProcessDone, Leave, Onward, Control, Local, UserVars, TypeInv, Elsewhere,
       Places, States
  <2>2. fe' \in Members
    BY DEF LocalInv, ProcessDone, TypeInv
  <2>3. session' \in Flags
    BY DEF LocalInv, ProcessDone, TypeInv
  <2>4. SkipsSound(shellout') /\ settled' \subseteq FrameNos
    BY DEF LocalInv, ProcessDone, TypeInv
  <2>5. commands' \in Commands /\ starts' \in 0..MaxStarts /\ requests' \in 0..MaxRequests
    BY DEF LocalInv, TypeInv, ProcessDone, Local, UserVars
  <2>6. call' # NoCall => pc' \in Waits
    BY PlacesAre DEF LocalInv, ProcessDone, Local, At, TypeInv, vars, frontVars
  <2> QED
    BY <2>1, <2>2, <2>3, <2>4, <2>5, <2>6 DEF TypeInv
<1>2. PlaceInv'
  BY PlacesAre DEF LocalInv, ProcessDone, Leave, Onward, Control, PlaceInv, Elsewhere, TypeInv
<1>3. CreateInv'
  BY DEF LocalInv, ProcessDone, Leave, Onward, Control, CreateInv, TypeInv, Places
<1>4. PauseInv'
  BY DEF ProcessDone, Leave, PauseInv, TypeInv
<1>5. FramesInv'
  BY DEF LocalInv, ProcessDone, Leave, FramesInv
<1>6. SuccessInv'
  BY DEF LocalInv, ProcessDone, SuccessInv
<1>7. FrontStep
  BY DEF ProcessDone, Local, FrontStep
<1> QED
  BY <1>1, <1>2, <1>3, <1>4, <1>5, <1>6, <1>7 DEF LocalInv

LEMMA ViewIsClosedKeeps ==
  ASSUME IInv, LocalInv, ViewIsClosed
  PROVE  LocalInv' /\ FrontStep
<1>1. TypeInv'
  <2>1. /\ state' \in States /\ pc' \in Elsewhere \cup Waits /\ then' \in Places
        /\ doing' \in {"none", "Pause", "Resume"} /\ user' \in {"none", "Pause", "Resume"}
    BY DEF LocalInv, ViewIsClosed, Remote, UserVars, TypeInv, Waits
  <2>2. fe' \in Members
    BY DEF LocalInv, ViewIsClosed, TypeInv
  <2>3. session' \in Flags
    BY DEF LocalInv, ViewIsClosed, TypeInv
  <2>4. SkipsSound(shellout') /\ settled' \subseteq FrameNos
    BY DEF LocalInv, ViewIsClosed, TypeInv
  <2>5. commands' \in Commands /\ starts' \in 0..MaxStarts /\ requests' \in 0..MaxRequests
    BY DEF LocalInv, TypeInv, ViewIsClosed, Remote, UserVars
  <2>6. call' # NoCall => pc' \in Waits
    BY DEF ViewIsClosed, Remote, TypeInv, Waits
  <2> QED
    BY <2>1, <2>2, <2>3, <2>4, <2>5, <2>6 DEF TypeInv
<1>2. PlaceInv'
  BY DEF LocalInv, ViewIsClosed, PlaceInv, Elsewhere, WaitsIn, TypeInv, Places
<1>3. CreateInv'
  BY DEF ViewIsClosed, Remote, MoreFrames, CreateInv
<1>4. PauseInv'
  BY DEF LocalInv, ViewIsClosed, PauseInv
<1>5. FramesInv'
  BY DEF LocalInv, ViewIsClosed, MoreFrames, FramesInv
<1>6. SuccessInv'
  BY DEF LocalInv, ViewIsClosed, SuccessInv
<1>7. FrontStep
  BY DEF ViewIsClosed, FrontStep, Requested, SceneAsked, LocalInv, TypeInv, Members
<1> QED
  BY <1>1, <1>2, <1>3, <1>4, <1>5, <1>6, <1>7 DEF LocalInv

LEMMA FrameIsClosedKeeps ==
  ASSUME IInv, LocalInv, FrameIsClosed
  PROVE  LocalInv' /\ FrontStep
<1>1. TypeInv'
  <2>1. /\ state' \in States /\ pc' \in Elsewhere \cup Waits /\ then' \in Places
        /\ doing' \in {"none", "Pause", "Resume"} /\ user' \in {"none", "Pause", "Resume"}
    BY DEF LocalInv, FrameIsClosed, Leave, Onward, Control, TypeInv, Elsewhere, Places, States
  <2>2. fe' \in Members
    <3> DEFINE n == IF MoreFrames THEN fe.frame + 1 ELSE fe.frame
               st == IF fe.pauseRequested THEN "Starting" ELSE fe.postPause
    <3>1. fe \in Members /\ st \in States /\ n \in FrameNos
      BY FrameFacts DEF LocalInv, TypeInv, States, Members
    <3>2. state = "PostFrameShellout" => n = fe.frame + 1
      BY DEF LocalInv, FramesInv, FrameIsClosed
    <3>3. fe' \in {[fe EXCEPT !.frame = n],
                   [fe EXCEPT !.frame = n, !.pausedAfterFrame = TRUE, !.pauseRequested = FALSE],
                   [fe EXCEPT !.frame = n, !.pauseRequested = FALSE, !.postPause = st]}
      BY <3>2 DEF FrameIsClosed
    <3> HIDE DEF n, st
    <3>4. /\ [fe EXCEPT !.frame = n] \in Members
          /\ [fe EXCEPT !.frame = n, !.pausedAfterFrame = TRUE,
                        !.pauseRequested = FALSE] \in Members
          /\ [fe EXCEPT !.frame = n, !.pauseRequested = FALSE, !.postPause = st] \in Members
      BY <3>1, MembersChange
    <3> QED
      BY <3>3, <3>4
  <2>3. session' \in Flags
    BY ShelloutFollows, PlacesAre, FrameFacts DEF LocalInv, FrameIsClosed, Leave, Onward, Control,
       HasReturned, Succeeding, MoreFrames, TypeInv, Flags
  <2>4. SkipsSound(shellout') /\ settled' \subseteq FrameNos
    BY DEF LocalInv, FrameIsClosed, TypeInv
  <2>5. commands' \in Commands /\ starts' \in 0..MaxStarts /\ requests' \in 0..MaxRequests
    BY BoundsAssumption DEF LocalInv, TypeInv, FrameIsClosed
  <2>6. call' # NoCall => pc' \in Waits
    BY DEF FrameIsClosed, HasReturned, vars, frontVars
  <2> QED
    BY <2>1, <2>2, <2>3, <2>4, <2>5, <2>6 DEF TypeInv
<1>2. PlaceInv'
  BY ShelloutFollows, PlacesAre, FrameFacts DEF LocalInv, FrameIsClosed, Leave, Onward, Control,
     HasReturned, Succeeding, MoreFrames, PlaceInv, Elsewhere, WaitsIn, TypeInv, Places, Members,
     States, ClosingStates
<1>3. CreateInv'
  BY DEF LocalInv, FrameIsClosed, Leave, Onward, Control, CreateInv, TypeInv, Places
<1>4. PauseInv'
  BY ShelloutFollows, PlacesAre, FrameFacts DEF LocalInv, FrameIsClosed, Leave, Onward, Control,
     HasReturned, Succeeding, MoreFrames, PauseInv, TypeInv, Members, States
<1>5. FramesInv'
  <2>1. fe.frame \in settled /\ settled' = settled /\ pc' \in Elsewhere
        /\ state' \in {"Starting", "Stopped", "PausedRendering", "PostShelloutPause"}
    <3>1. state \in {"Parsing", "PostFrameShellout"} /\ pc = "sceneClosed" /\ settled' = settled
      BY DEF FrameIsClosed
    <3>2. PICK st \in {"Starting", "Stopped", "PausedRendering", "PostShelloutPause"} : Leave(st)
      BY DEF FrameIsClosed
    <3>3. state' = st /\ pc' \in Elsewhere
      BY <3>2, LeaveFacts DEF LocalInv
    <3> QED
      BY <3>1, <3>2, <3>3 DEF LocalInv, FramesInv
  <2>2. fe'.frame = fe.frame \/ fe'.frame = fe.frame + 1
    BY DEF LocalInv, TypeInv, Members, FrameIsClosed
  <2>3. settled \cup {fe.frame} = settled
    BY <2>1
  <2>4. 1..(fe'.frame - 1) \subseteq settled
    BY <2>2, <2>3, FrameFacts DEF LocalInv, FramesInv
  <2> QED
    BY <2>1, <2>4 DEF FramesInv
<1>6. SuccessInv'
  <2>1. UNCHANGED <<settled, shellout>>
    BY DEF FrameIsClosed
  <2>2. session' = session \/ (~MoreFrames /\ session' = Succeeding /\ fe.frame \in settled)
    BY DEF FrameIsClosed, LocalInv, FramesInv
  <2>3. CASE ~MoreFrames /\ fe.frame \in settled
    BY <2>1, <2>3, FrameFacts DEF LocalInv, SuccessInv
  <2> QED
    BY <2>1, <2>2, <2>3 DEF LocalInv, SuccessInv
<1>7. FrontStep
  BY DEF FrameIsClosed, FrontStep
<1> QED
  BY <1>1, <1>2, <1>3, <1>4, <1>5, <1>6, <1>7 DEF LocalInv

LEMMA RenderIsClosedKeeps ==
  ASSUME IInv, LocalInv, RenderIsClosed
  PROVE  LocalInv' /\ FrontStep
<1>0. Follows(shellout, shellout')
  <2>1. CASE ~shellout.hadPreScene
    BY <2>1, ShelloutFollows DEF RenderIsClosed, LocalInv
  <2>2. ASSUME NEW f \in IF session.failed
                         THEN HandleProcessEvent(shellout, commands, "fatalError", FALSE)
                         ELSE {Outcome(shellout, "none")},
               NEW r \in HandleProcessEvent(f.sh, commands, "postScene", FALSE)
        PROVE  Follows(shellout, r.sh)
    <3>1. Follows(shellout, f.sh)
      <4>1. CASE session.failed
        BY <2>2, <4>1, ShelloutFollows DEF LocalInv, Events
      <4>2. CASE ~session.failed
        BY <2>2, <4>2, ShelloutFollows DEF LocalInv, Outcome
      <4> QED
        BY <4>1, <4>2
    <3>2. Follows(f.sh, r.sh)
      BY <2>2, <3>1, HandleFollows DEF Follows, Events
    <3> QED
      BY <3>1, <3>2 DEF Follows
  <2> QED
    BY <2>1, <2>2 DEF RenderIsClosed
<1>1. TypeInv'
  <2>1. /\ state' \in States /\ pc' \in Elsewhere \cup Waits /\ then' \in Places
        /\ doing' \in {"none", "Pause", "Resume"} /\ user' \in {"none", "Pause", "Resume"}
    BY ShelloutFollows, PlacesAre, FrameFacts DEF LocalInv, RenderIsClosed, Leave, Onward, Control,
       Local, UserVars, HasReturned, MoreFrames, TypeInv, Elsewhere, Waits, Places, States
  <2>2. fe' \in Members
    BY DEF LocalInv, RenderIsClosed, TypeInv
  <2>3. session' \in Flags
    BY DEF LocalInv, RenderIsClosed, TypeInv
  <2>4. SkipsSound(shellout') /\ settled' \subseteq FrameNos
    BY <1>0 DEF Follows, RenderIsClosed, LocalInv, TypeInv
  <2>5. commands' \in Commands /\ starts' \in 0..MaxStarts /\ requests' \in 0..MaxRequests
    BY DEF LocalInv, TypeInv, RenderIsClosed, Local, UserVars
  <2>6. call' # NoCall => pc' \in Waits
    BY DEF RenderIsClosed, Local, HasReturned, vars, frontVars
  <2> QED
    BY <2>1, <2>2, <2>3, <2>4, <2>5, <2>6 DEF TypeInv
<1>2. PlaceInv'
  BY ShelloutFollows, PlacesAre, FrameFacts DEF LocalInv, RenderIsClosed, Leave, Onward, Control,
     Local, UserVars, HasReturned, MoreFrames, PlaceInv, Elsewhere, WaitsIn, TypeInv, Places,
     Members, States, ClosingStates
<1>3. CreateInv'
  BY ShelloutFollows, PlacesAre, FrameFacts DEF LocalInv, RenderIsClosed, Leave, Onward, Control,
     Local, UserVars, HasReturned, MoreFrames, CreateInv, Elsewhere, TypeInv, Places, vars, NoCall
<1>4. PauseInv'
  BY ShelloutFollows, PlacesAre, FrameFacts DEF LocalInv, RenderIsClosed, Leave, Onward, Control,
     Local, UserVars, HasReturned, MoreFrames, PauseInv, TypeInv, Members, States
<1>5. FramesInv'
  BY ShelloutFollows, PlacesAre, FrameFacts DEF LocalInv, RenderIsClosed, Leave, Onward, Control,
     Local, UserVars, HasReturned, MoreFrames, FramesInv, TypeInv, Members, States, Elsewhere,
     Places
<1>6. SuccessInv'
  BY <1>0 DEF Follows, LocalInv, SuccessInv, RenderIsClosed
<1>7. FrontStep
  BY DEF RenderIsClosed, Local, FrontStep
<1> QED
  BY <1>1, <1>2, <1>3, <1>4, <1>5, <1>6, <1>7 DEF LocalInv

LEMMA DeliverKeeps ==
  ASSUME IInv, LocalInv, Deliver
  PROVE  LocalInv' /\ FrontStep
<1>1. TypeInv'
  <2>1. /\ state' \in States /\ pc' \in Elsewhere \cup Waits /\ then' \in Places
        /\ doing' \in {"none", "Pause", "Resume"} /\ user' \in {"none", "Pause", "Resume"}
    BY PlacesAre DEF LocalInv, Deliver, Idle, UserVars, TypeInv, Elsewhere
  <2>2. fe' \in Members
    BY DEF LocalInv, Deliver, Idle, TypeInv
  <2>3. session' \in Flags
    BY DEF LocalInv, Deliver, Idle, TypeInv
  <2>4. SkipsSound(shellout') /\ settled' \subseteq FrameNos
    BY DEF LocalInv, Deliver, Idle, TypeInv
  <2>5. commands' \in Commands /\ starts' \in 0..MaxStarts /\ requests' \in 0..MaxRequests
    BY DEF LocalInv, TypeInv, Deliver, Idle, UserVars
  <2>6. call' # NoCall => pc' \in Waits
    BY PlacesAre DEF LocalInv, Deliver, TypeInv, VerdictArrives, LateReply
  <2> QED
    BY <2>1, <2>2, <2>3, <2>4, <2>5, <2>6 DEF TypeInv
<1>2. PlaceInv'
  BY PlacesAre DEF LocalInv, Deliver, Idle, PlaceInv
<1>3. CreateInv'
  BY DEF Deliver, Idle, CreateInv, Elsewhere
<1>4. PauseInv'
  BY DEF LocalInv, Deliver, Idle, PauseInv
<1>5. FramesInv'
  BY DEF LocalInv, Deliver, Idle, FramesInv
<1>6. SuccessInv'
  BY DEF LocalInv, Deliver, Idle, SuccessInv
<1>7. FrontStep
  BY DEF Deliver, FrontStep, Receive
<1> QED
  BY <1>1, <1>2, <1>3, <1>4, <1>5, <1>6, <1>7 DEF LocalInv

LEMMA NothingToDeliverKeeps ==
  ASSUME IInv, LocalInv, NothingToDeliver
  PROVE  LocalInv' /\ FrontStep
<1>1. TypeInv'
  <2>1. /\ state' \in States /\ pc' \in Elsewhere \cup Waits /\ then' \in Places
        /\ doing' \in {"none", "Pause", "Resume"} /\ user' \in {"none", "Pause", "Resume"}
    BY DEF LocalInv, NothingToDeliver, Idle, UserVars, TypeInv, Elsewhere, Places
  <2>2. fe' \in Members
    BY DEF LocalInv, NothingToDeliver, Idle, TypeInv
  <2>3. session' \in Flags
    BY DEF LocalInv, NothingToDeliver, Idle, TypeInv
  <2>4. SkipsSound(shellout') /\ settled' \subseteq FrameNos
    BY DEF LocalInv, NothingToDeliver, Idle, TypeInv
  <2>5. commands' \in Commands /\ starts' \in 0..MaxStarts /\ requests' \in 0..MaxRequests
    BY DEF LocalInv, TypeInv, NothingToDeliver, Idle, UserVars
  <2>6. call' # NoCall => pc' \in Waits
    BY PlacesAre DEF LocalInv, NothingToDeliver, TypeInv, vars, frontVars
  <2> QED
    BY <2>1, <2>2, <2>3, <2>4, <2>5, <2>6 DEF TypeInv
<1>2. PlaceInv'
  BY PlacesAre DEF LocalInv, NothingToDeliver, Idle, PlaceInv
<1>3. CreateInv'
  BY DEF NothingToDeliver, Idle, CreateInv, Elsewhere
<1>4. PauseInv'
  BY DEF LocalInv, NothingToDeliver, Idle, PauseInv
<1>5. FramesInv'
  BY DEF LocalInv, NothingToDeliver, Idle, FramesInv
<1>6. SuccessInv'
  BY DEF LocalInv, NothingToDeliver, Idle, SuccessInv
<1>7. FrontStep
  BY DEF NothingToDeliver, Idle, UserVars, FrontStep
<1> QED
  BY <1>1, <1>2, <1>3, <1>4, <1>5, <1>6, <1>7 DEF LocalInv

(* What the user-abort event does, wherever Stop calls for it.             *)
LEMMA UserAbortsFollows ==
  ASSUME TypeInv, NEW sh, SkipsSound(sh), NEW ses \in Flags, UserAborts(sh, ses)
  PROVE  /\ Follows(sh, shellout')
         /\ session' \in Flags /\ pc' \in Elsewhere
         /\ session'.succeeded = ses.succeeded /\ (ses.failed => session'.failed)
<1>1. PICK r \in HandleProcessEvent(sh, commands, "userAbort", FALSE) :
        shellout' = r.sh /\ Finished([ses EXCEPT !.failed = @ \/ r.err = "failed"])
  BY DEF UserAborts
<1>2. Follows(sh, r.sh)
  BY HandleFollows DEF Events
<1> DEFINE next == [ses EXCEPT !.failed = @ \/ r.err = "failed"]
<1>3. next \in Flags /\ next.succeeded = ses.succeeded /\ (ses.failed => next.failed)
  BY DEF Flags
<1>4. /\ session' = [next EXCEPT !.cancelRequested = @ /\ pc = "catch"]
      /\ pc' \in Elsewhere
  BY <1>1 DEF Finished, Control, Elsewhere, Places
<1> HIDE DEF next
<1>5. session' \in Flags /\ session'.succeeded = next.succeeded /\ session'.failed = next.failed
  BY <1>3, <1>4 DEF Flags
<1> QED
  BY <1>1, <1>2, <1>3, <1>4, <1>5

LEMMA StopNowKeeps ==
  ASSUME IInv, LocalInv, StopNow
  PROVE  LocalInv' /\ FrontStep
<1>0. /\ Follows(shellout, shellout') /\ session' \in Flags /\ pc' \in Elsewhere
      /\ session'.succeeded = session.succeeded /\ (session.failed => session'.failed)
  <2>1. CASE Finished(session) /\ UNCHANGED shellout
    <3>1. Follows(shellout, shellout') /\ session \in Flags
      BY <2>1, ShelloutFollows DEF LocalInv, TypeInv
    <3>2. /\ session' = [session EXCEPT !.cancelRequested = @ /\ pc = "catch"]
          /\ pc' \in Elsewhere
      BY <2>1 DEF Finished, Control, Elsewhere, Places
    <3> QED
      BY <3>1, <3>2 DEF Flags
  <2>2. Failing \in Flags /\ session \in Flags /\ SkipsSound(shellout)
        /\ Failing.succeeded = session.succeeded /\ Failing.failed
    BY DEF Failing, LocalInv, TypeInv, Flags
  <2>3. CASE UserAborts(shellout, session) \/ UserAborts(shellout, Failing)
    BY <2>2, <2>3, UserAbortsFollows DEF LocalInv
  <2> QED
    BY <2>1, <2>3 DEF StopNow
<1>1. /\ UNCHANGED <<settled, then, doing, user, starts, requests, commands, call>>
      /\ \/ UNCHANGED <<state, fe>>
         \/ /\ state \in {"Starting", "PostShelloutPause"} /\ state' \in {"Stopped", "Stopping"}
            /\ UNCHANGED fe
         \/ state' = "Stopped" /\ fe' = [fe EXCEPT !.pausedAfterFrame = FALSE]
      /\ call' = NoCall /\ pc' \notin Waits /\ fe \in Members
  BY <1>0, PlacesAre DEF StopNow, Local, UserVars, vars, frontVars, LocalInv, TypeInv
<1>2. state' \in States /\ fe' \in Members
  BY <1>1 DEF LocalInv, TypeInv, States, Members
<1>3. TypeInv'
  BY <1>0, <1>1, <1>2 DEF LocalInv, TypeInv, Follows
<1>4. fe'.pauseRequested = fe.pauseRequested /\ fe'.frame = fe.frame /\ fe'.postPause = fe.postPause
  BY <1>1 DEF Members
<1>5. PlaceInv' /\ CreateInv' /\ PauseInv'
  <2>1. pc' \notin {"sceneCreated", "viewCreated"}
    BY <1>1 DEF Waits
  <2> QED
    BY <1>1, <1>4, <2>1 DEF LocalInv, PlaceInv, CreateInv, PauseInv
<1>6. FramesInv' /\ SuccessInv'
  <2>1. pc' \notin {"viewClosed", "sceneClosed"}
    BY <1>1 DEF Waits
  <2>2. SuccessInv'
    BY <1>0, <1>1 DEF SuccessInv, LocalInv, Follows
  <2> QED
    BY <1>1, <1>4, <2>1, <2>2 DEF LocalInv, FramesInv
<1>7. FrontStep
  BY DEF StopNow, Local, FrontStep
<1> QED
  BY <1>3, <1>5, <1>6, <1>7 DEF LocalInv

LEMMA StopShelloutKeeps ==
  ASSUME IInv, LocalInv, StopShellout
  PROVE  LocalInv' /\ FrontStep
<1>0. /\ Follows(shellout, shellout') /\ session' \in Flags
      /\ session'.succeeded = session.succeeded /\ (session.failed => session'.failed)
  <2>1. PICK r \in ShelloutRunning(shellout, commands) :
          \E sh \in IF shellout.running THEN KillShellouts(r.sh) ELSE {r.sh} :
            \/ UserAborts(sh, Failing)
            \/ shellout' = sh /\ Finished(session)
    BY DEF StopShellout
  <2>2. PICK sh \in IF shellout.running THEN KillShellouts(r.sh) ELSE {r.sh} :
          \/ UserAborts(sh, Failing)
          \/ shellout' = sh /\ Finished(session)
    BY <2>1
  <2>3. Follows(shellout, r.sh)
    BY ShelloutFollows DEF LocalInv
  <2>4. Follows(shellout, sh)
    <3>1. CASE shellout.running
      BY <2>3, <3>1, KillFollows DEF Follows
    <3>2. CASE ~shellout.running
      BY <2>3, <3>2
    <3> QED
      BY <3>1, <3>2
  <2>5. Failing \in Flags /\ session \in Flags
        /\ Failing.succeeded = session.succeeded /\ Failing.failed
    BY DEF Failing, LocalInv, TypeInv, Flags
  <2>6. CASE UserAborts(sh, Failing)
    BY <2>4, <2>5, <2>6, UserAbortsFollows DEF LocalInv, Follows
  <2>7. CASE shellout' = sh /\ Finished(session)
    BY <2>4, <2>5, <2>7 DEF Finished, Flags
  <2> QED
    BY <2>2, <2>6, <2>7
<1>1. TypeInv'
  <2>1. /\ state' \in States /\ pc' \in Elsewhere \cup Waits /\ then' \in Places
        /\ doing' \in {"none", "Pause", "Resume"} /\ user' \in {"none", "Pause", "Resume"}
    BY ShelloutFollows, PlacesAre, FrameFacts, ZenonT(60) DEF LocalInv, StopShellout, Control,
       Local, UserVars,
       Failing, Finished, UserAborts, MoreFrames, TypeInv, Elsewhere, Waits, Places, States,
       ShelloutStates, Flags, Members
  <2>2. fe' \in Members
    BY DEF LocalInv, StopShellout, TypeInv
  <2>3. session' \in Flags
    BY <1>0
  <2>4. SkipsSound(shellout') /\ settled' \subseteq FrameNos
    BY <1>0 DEF Follows, StopShellout, LocalInv, TypeInv
  <2>5. commands' \in Commands /\ starts' \in 0..MaxStarts /\ requests' \in 0..MaxRequests
    BY DEF LocalInv, TypeInv, StopShellout, Local, UserVars
  <2>6. call' # NoCall => pc' \in Waits
    BY PlacesAre DEF LocalInv, StopShellout, Local, TypeInv, vars, frontVars
  <2> QED
    BY <2>1, <2>2, <2>3, <2>4, <2>5, <2>6 DEF TypeInv
<1>2. PlaceInv'
  BY ShelloutFollows, PlacesAre, FrameFacts DEF LocalInv, StopShellout, Control, Local, UserVars,
     Failing, Finished, UserAborts, MoreFrames, PlaceInv, Elsewhere, WaitsIn, TypeInv, Places,
     Members, States, ClosingStates, ShelloutStates, Waits
<1>3. CreateInv'
  BY ShelloutFollows, PlacesAre, FrameFacts DEF LocalInv, StopShellout, Control, Local, UserVars,
     Failing, Finished, UserAborts, MoreFrames, CreateInv, Elsewhere, TypeInv, Places, vars
<1>4. PauseInv'
  BY DEF LocalInv, StopShellout, PauseInv
<1>5. FramesInv'
  BY ShelloutFollows, PlacesAre, FrameFacts DEF LocalInv, StopShellout, Control, Local, UserVars,
     Failing, Finished, UserAborts, MoreFrames, FramesInv, PlaceInv, TypeInv, Members, States,
     Elsewhere, Places, ShelloutStates
<1>6. SuccessInv'
  BY <1>0 DEF SuccessInv, LocalInv, Follows, StopShellout
<1>7. FrontStep
  BY DEF StopShellout, Local, FrontStep
<1> QED
  BY <1>1, <1>2, <1>3, <1>4, <1>5, <1>6, <1>7 DEF LocalInv

LEMMA StopJobKeeps ==
  ASSUME IInv, LocalInv, StopJob
  PROVE  LocalInv' /\ FrontStep
<1>1. TypeInv'
  <2>1. /\ state' \in States /\ pc' \in Elsewhere \cup Waits /\ then' \in Places
        /\ doing' \in {"none", "Pause", "Resume"} /\ user' \in {"none", "Pause", "Resume"}
    BY DEF LocalInv, StopJob, Remote, UserVars, TypeInv, Waits
  <2>2. fe' \in Members
    BY DEF LocalInv, StopJob, TypeInv
  <2>3. session' \in Flags
    BY DEF LocalInv, StopJob, TypeInv
  <2>4. SkipsSound(shellout') /\ settled' \subseteq FrameNos
    BY DEF LocalInv, StopJob, TypeInv
  <2>5. commands' \in Commands /\ starts' \in 0..MaxStarts /\ requests' \in 0..MaxRequests
    BY DEF LocalInv, TypeInv, StopJob, Remote, UserVars
  <2>6. call' # NoCall => pc' \in Waits
    BY DEF StopJob, Remote, Waits, Ask
  <2> QED
    BY <2>1, <2>2, <2>3, <2>4, <2>5, <2>6 DEF TypeInv
<1>2. PlaceInv'
  BY DEF StopJob, PlaceInv, WaitsIn
<1>3. CreateInv'
  BY DEF StopJob, Remote, CreateInv, Elsewhere
<1>4. PauseInv'
  BY DEF LocalInv, StopJob, PauseInv
<1>5. FramesInv'
  BY DEF LocalInv, StopJob, FramesInv
<1>6. SuccessInv'
  BY DEF LocalInv, StopJob, SuccessInv
<1>7. FrontStep
  BY DEF StopJob, FrontStep, Requested, SceneAsked, ViewAsked, LocalInv, TypeInv, Members
<1> QED
  BY <1>1, <1>2, <1>3, <1>4, <1>5, <1>6, <1>7 DEF LocalInv

LEMMA JobIsStoppedKeeps ==
  ASSUME IInv, LocalInv, JobIsStopped
  PROVE  LocalInv' /\ FrontStep
<1>1. TypeInv'
  <2>1. /\ state' \in States /\ pc' \in Elsewhere \cup Waits /\ then' \in Places
        /\ doing' \in {"none", "Pause", "Resume"} /\ user' \in {"none", "Pause", "Resume"}
    BY DEF LocalInv, JobIsStopped, Control, Local, UserVars, Finished, UserAborts, TypeInv,
       Elsewhere, Places, States
  <2>2. fe' \in Members
    BY DEF LocalInv, JobIsStopped, TypeInv
  <2>3. session' \in Flags
    BY ShelloutFollows, PlacesAre, FrameFacts DEF LocalInv, JobIsStopped, Control, Local, UserVars,
       HasReturned, Failing, Finished, UserAborts, MoreFrames, TypeInv, Flags
  <2>4. SkipsSound(shellout') /\ settled' \subseteq FrameNos
    <3>1. Failing \in Flags /\ SkipsSound(shellout) /\ UserAborts(shellout, Failing)
      BY DEF LocalInv, TypeInv, Failing, Flags, JobIsStopped
    <3> QED
      BY <3>1, UserAbortsFollows DEF LocalInv, TypeInv, Follows, JobIsStopped
  <2>5. commands' \in Commands /\ starts' \in 0..MaxStarts /\ requests' \in 0..MaxRequests
    BY DEF LocalInv, TypeInv, JobIsStopped, Local, UserVars
  <2>6. call' # NoCall => pc' \in Waits
    BY DEF JobIsStopped, Local, HasReturned, vars, frontVars
  <2> QED
    BY <2>1, <2>2, <2>3, <2>4, <2>5, <2>6 DEF TypeInv
<1>2. PlaceInv'
  BY PlacesAre DEF JobIsStopped, Control, Finished, UserAborts, PlaceInv
<1>3. CreateInv'
  BY DEF JobIsStopped, Control, Finished, UserAborts, CreateInv
<1>4. PauseInv'
  BY DEF LocalInv, JobIsStopped, PauseInv, PlaceInv, WaitsIn, Waits
<1>5. FramesInv'
  BY DEF LocalInv, JobIsStopped, FramesInv
<1>6. SuccessInv'
  BY DEF LocalInv, JobIsStopped, Failing, Finished, UserAborts, SuccessInv, TypeInv, Flags
<1>7. FrontStep
  BY DEF JobIsStopped, Local, FrontStep
<1> QED
  BY <1>1, <1>2, <1>3, <1>4, <1>5, <1>6, <1>7 DEF LocalInv

LEMMA PauseRequestedKeeps ==
  ASSUME IInv, LocalInv, PauseRequested
  PROVE  LocalInv' /\ FrontStep
<1>1. TypeInv'
  <2>1. /\ state' \in States /\ pc' \in Elsewhere \cup Waits /\ then' \in Places
        /\ doing' \in {"none", "Pause", "Resume"} /\ user' \in {"none", "Pause", "Resume"}
    BY DEF LocalInv, PauseRequested, UserVars, Answer, CarryOut, TypeInv, Elsewhere, Waits, Places
  <2>2. fe' \in Members
    BY ShelloutFollows, PlacesAre, FrameFacts DEF LocalInv, PauseRequested, UserVars, Answer, Taken,
       CarryOut, MoreFrames, TypeInv, Members, States
  <2>3. session' \in Flags
    BY DEF LocalInv, PauseRequested, Answer, Taken, CarryOut, TypeInv, Flags
  <2>4. SkipsSound(shellout') /\ settled' \subseteq FrameNos
    BY DEF LocalInv, PauseRequested, Answer, CarryOut, TypeInv
  <2>5. commands' \in Commands /\ starts' \in 0..MaxStarts /\ requests' \in 0..MaxRequests
    BY DEF LocalInv, TypeInv, PauseRequested, UserVars, Answer, CarryOut
  <2>6. call' # NoCall => pc' \in Waits
    BY DEF LocalInv, PauseRequested, CarryOut, TypeInv, Waits, vars, frontVars
  <2> QED
    BY <2>1, <2>2, <2>3, <2>4, <2>5, <2>6 DEF TypeInv
<1>2. PlaceInv'
  BY ShelloutFollows, PlacesAre DEF LocalInv, PauseRequested, Answer, CarryOut, PlaceInv, WaitsIn,
     TypeInv, Members
<1>3. CreateInv'
  BY DEF PauseRequested, Answer, CarryOut, CreateInv
<1>4. PauseInv'
  BY DEF LocalInv, PauseRequested, CarryOut, PauseInv, TypeInv, Members, ShelloutStates
<1>5. FramesInv'
  BY DEF LocalInv, PauseRequested, Answer, CarryOut, FramesInv, TypeInv, Members
<1>6. SuccessInv'
  BY DEF LocalInv, PauseRequested, Answer, Taken, CarryOut, SuccessInv, TypeInv, Flags
<1>7. FrontStep
  BY DEF PauseRequested, FrontStep, Requested, SceneAsked, ViewAsked, LocalInv, TypeInv, Members
<1> QED
  BY <1>1, <1>2, <1>3, <1>4, <1>5, <1>6, <1>7 DEF LocalInv

LEMMA JobIsPausedKeeps ==
  ASSUME IInv, LocalInv, JobIsPaused
  PROVE  LocalInv' /\ FrontStep
<1>1. TypeInv'
  <2>1. /\ state' \in States /\ pc' \in Elsewhere \cup Waits /\ then' \in Places
        /\ doing' \in {"none", "Pause", "Resume"} /\ user' \in {"none", "Pause", "Resume"}
    BY DEF LocalInv, JobIsPaused, Answer, TypeInv, Elsewhere, Places, States
  <2>2. fe' \in Members
    BY DEF LocalInv, JobIsPaused, TypeInv
  <2>3. session' \in Flags
    BY DEF LocalInv, JobIsPaused, Answer, TypeInv
  <2>4. SkipsSound(shellout') /\ settled' \subseteq FrameNos
    BY DEF LocalInv, JobIsPaused, Answer, TypeInv
  <2>5. commands' \in Commands /\ starts' \in 0..MaxStarts /\ requests' \in 0..MaxRequests
    BY DEF LocalInv, TypeInv, JobIsPaused, Answer
  <2>6. call' # NoCall => pc' \in Waits
    BY DEF JobIsPaused, HasReturned, vars, frontVars
  <2> QED
    BY <2>1, <2>2, <2>3, <2>4, <2>5, <2>6 DEF TypeInv
<1>2. PlaceInv'
  BY PlacesAre DEF LocalInv, JobIsPaused, Answer, PlaceInv
<1>3. CreateInv'
  BY DEF JobIsPaused, Answer, CreateInv
<1>4. PauseInv'
  BY DEF LocalInv, JobIsPaused, PauseInv, PlaceInv, WaitsIn, Waits
<1>5. FramesInv'
  BY DEF LocalInv, JobIsPaused, Answer, FramesInv
<1>6. SuccessInv'
  BY DEF LocalInv, JobIsPaused, Answer, SuccessInv
<1>7. FrontStep
  BY DEF JobIsPaused, HasReturned, Answer, FrontStep
<1> QED
  BY <1>1, <1>2, <1>3, <1>4, <1>5, <1>6, <1>7 DEF LocalInv

LEMMA ResumeRequestedKeeps ==
  ASSUME IInv, LocalInv, ResumeRequested
  PROVE  LocalInv' /\ FrontStep
<1>1. TypeInv'
  <2>1. /\ state' \in States /\ pc' \in Elsewhere \cup Waits /\ then' \in Places
        /\ doing' \in {"none", "Pause", "Resume"} /\ user' \in {"none", "Pause", "Resume"}
    BY FrameFacts DEF LocalInv, ResumeRequested, UserVars, Answer, CarryOut, TypeInv, Elsewhere,
       Waits, Places, States, Members
  <2>2. fe' \in Members
    BY ShelloutFollows, PlacesAre, FrameFacts DEF LocalInv, ResumeRequested, UserVars, Answer,
       Taken, CarryOut, MoreFrames, TypeInv, Members, States
  <2>3. session' \in Flags
    BY DEF LocalInv, ResumeRequested, Answer, Taken, CarryOut, TypeInv, Flags
  <2>4. SkipsSound(shellout') /\ settled' \subseteq FrameNos
    BY DEF LocalInv, ResumeRequested, Answer, CarryOut, TypeInv
  <2>5. commands' \in Commands /\ starts' \in 0..MaxStarts /\ requests' \in 0..MaxRequests
    BY DEF LocalInv, TypeInv, ResumeRequested, UserVars, Answer, CarryOut
  <2>6. call' # NoCall => pc' \in Waits
    BY DEF LocalInv, ResumeRequested, CarryOut, TypeInv, Waits, vars, frontVars
  <2> QED
    BY <2>1, <2>2, <2>3, <2>4, <2>5, <2>6 DEF TypeInv
<1>2. PlaceInv'
  BY PlacesAre DEF LocalInv, ResumeRequested, Answer, CarryOut, PlaceInv, WaitsIn
<1>3. CreateInv'
  BY DEF ResumeRequested, Answer, CarryOut, CreateInv
<1>4. PauseInv'
  BY DEF LocalInv, ResumeRequested, CarryOut, PauseInv, TypeInv, Members
<1>5. FramesInv'
  BY DEF LocalInv, ResumeRequested, Answer, CarryOut, FramesInv, PlaceInv, TypeInv, Members
<1>6. SuccessInv'
  BY DEF LocalInv, ResumeRequested, Answer, Taken, CarryOut, SuccessInv, TypeInv, Flags
<1>7. FrontStep
  BY DEF ResumeRequested, FrontStep, Requested, SceneAsked, ViewAsked, LocalInv, TypeInv, Members
<1> QED
  BY <1>1, <1>2, <1>3, <1>4, <1>5, <1>6, <1>7 DEF LocalInv

LEMMA JobIsResumedKeeps ==
  ASSUME IInv, LocalInv, JobIsResumed
  PROVE  LocalInv' /\ FrontStep
<1>1. TypeInv'
  <2>1. /\ state' \in States /\ pc' \in Elsewhere \cup Waits /\ then' \in Places
        /\ doing' \in {"none", "Pause", "Resume"} /\ user' \in {"none", "Pause", "Resume"}
    BY DEF LocalInv, JobIsResumed, Answer, TypeInv, Elsewhere, Places, States
  <2>2. fe' \in Members
    BY DEF LocalInv, JobIsResumed, TypeInv
  <2>3. session' \in Flags
    BY DEF LocalInv, JobIsResumed, Answer, TypeInv
  <2>4. SkipsSound(shellout') /\ settled' \subseteq FrameNos
    BY DEF LocalInv, JobIsResumed, Answer, TypeInv
  <2>5. commands' \in Commands /\ starts' \in 0..MaxStarts /\ requests' \in 0..MaxRequests
    BY DEF LocalInv, TypeInv, JobIsResumed, Answer
  <2>6. call' # NoCall => pc' \in Waits
    BY DEF JobIsResumed, HasReturned, vars, frontVars
  <2> QED
    BY <2>1, <2>2, <2>3, <2>4, <2>5, <2>6 DEF TypeInv
<1>2. PlaceInv'
  BY PlacesAre DEF LocalInv, JobIsResumed, Answer, PlaceInv
<1>3. CreateInv'
  BY DEF JobIsResumed, Answer, CreateInv
<1>4. PauseInv'
  BY DEF LocalInv, JobIsResumed, PauseInv, PlaceInv, WaitsIn, Waits
<1>5. FramesInv'
  BY DEF LocalInv, JobIsResumed, Answer, FramesInv
<1>6. SuccessInv'
  BY DEF LocalInv, JobIsResumed, Answer, SuccessInv
<1>7. FrontStep
  BY DEF JobIsResumed, HasReturned, Answer, FrontStep
<1> QED
  BY <1>1, <1>2, <1>3, <1>4, <1>5, <1>6, <1>7 DEF LocalInv

LEMMA NothingAskedKeeps ==
  ASSUME IInv, LocalInv, NothingAsked
  PROVE  LocalInv' /\ FrontStep
<1>1. TypeInv'
  <2>1. /\ state' \in States /\ pc' \in Elsewhere \cup Waits /\ then' \in Places
        /\ doing' \in {"none", "Pause", "Resume"} /\ user' \in {"none", "Pause", "Resume"}
    BY DEF LocalInv, NothingAsked, Idle, UserVars, TypeInv, Elsewhere, Places
  <2>2. fe' \in Members
    BY DEF LocalInv, NothingAsked, Idle, TypeInv
  <2>3. session' \in Flags
    BY DEF LocalInv, NothingAsked, Idle, TypeInv
  <2>4. SkipsSound(shellout') /\ settled' \subseteq FrameNos
    BY DEF LocalInv, NothingAsked, Idle, TypeInv
  <2>5. commands' \in Commands /\ starts' \in 0..MaxStarts /\ requests' \in 0..MaxRequests
    BY DEF LocalInv, TypeInv, NothingAsked, Idle, UserVars
  <2>6. call' # NoCall => pc' \in Waits
    BY PlacesAre DEF LocalInv, NothingAsked, TypeInv, vars, frontVars
  <2> QED
    BY <2>1, <2>2, <2>3, <2>4, <2>5, <2>6 DEF TypeInv
<1>2. PlaceInv'
  BY PlacesAre DEF LocalInv, NothingAsked, Idle, PlaceInv
<1>3. CreateInv'
  BY DEF NothingAsked, Idle, CreateInv, Elsewhere
<1>4. PauseInv'
  BY DEF LocalInv, NothingAsked, Idle, PauseInv
<1>5. FramesInv'
  BY DEF LocalInv, NothingAsked, Idle, FramesInv
<1>6. SuccessInv'
  BY DEF LocalInv, NothingAsked, Idle, SuccessInv
<1>7. FrontStep
  BY DEF NothingAsked, Idle, UserVars, FrontStep
<1> QED
  BY <1>1, <1>2, <1>3, <1>4, <1>5, <1>6, <1>7 DEF LocalInv

LEMMA NewFollows == SkipsSound(NewShellout)
BY ExitCodesAre DEF SkipsSound, Shellouts, NewShellout

LEMMA StartSessionKeeps ==
  ASSUME IInv, LocalInv, StartSession
  PROVE  LocalInv' /\ FrontStep
<1>1. TypeInv'
  <2>1. /\ state' \in States /\ pc' \in Elsewhere \cup Waits /\ then' \in Places
        /\ doing' \in {"none", "Pause", "Resume"} /\ user' \in {"none", "Pause", "Resume"}
    BY DEF LocalInv, StartSession, TypeInv, States
  <2>2. fe' \in Members
    BY ShelloutFollows, PlacesAre, FrameFacts DEF LocalInv, StartSession, MoreFrames, TypeInv,
       Members, States
  <2>3. session' \in Flags
    BY ShelloutFollows, PlacesAre, FrameFacts DEF LocalInv, StartSession, MoreFrames, TypeInv, Flags
  <2>4. SkipsSound(shellout') /\ settled' \subseteq FrameNos
    BY NewFollows DEF StartSession
  <2>5. commands' \in Commands /\ starts' \in 0..MaxStarts /\ requests' \in 0..MaxRequests
    BY BoundsAssumption, FramesAssumption DEF LocalInv, TypeInv, StartSession
  <2>6. call' # NoCall => pc' \in Waits
    BY DEF LocalInv, StartSession, TypeInv, vars, frontVars
  <2> QED
    BY <2>1, <2>2, <2>3, <2>4, <2>5, <2>6 DEF TypeInv
<1>2. PlaceInv'
  BY DEF LocalInv, StartSession, PlaceInv, WaitsIn, ClosingStates, Waits
<1>3. CreateInv'
  BY DEF LocalInv, StartSession, CreateInv, vars, frontVars
<1>4. PauseInv'
  BY DEF StartSession, MoreFrames, PauseInv, PlaceInv
<1>5. FramesInv'
  BY DEF StartSession, MoreFrames, FramesInv, PlaceInv
<1>6. SuccessInv'
  BY DEF StartSession, MoreFrames, SuccessInv, TypeInv
<1>7. FrontStep
  BY DEF StartSession, FrontStep, Requested
<1> QED
  BY <1>1, <1>2, <1>3, <1>4, <1>5, <1>6, <1>7 DEF LocalInv

LEMMA CancelRenderKeeps ==
  ASSUME IInv, LocalInv, CancelRender
  PROVE  LocalInv' /\ FrontStep
<1>1. TypeInv'
  <2>1. /\ state' \in States /\ pc' \in Elsewhere \cup Waits /\ then' \in Places
        /\ doing' \in {"none", "Pause", "Resume"} /\ user' \in {"none", "Pause", "Resume"}
    BY DEF LocalInv, CancelRender, UserVars, OfUser, TypeInv
  <2>2. fe' \in Members
    BY DEF LocalInv, CancelRender, TypeInv
  <2>3. session' \in Flags
    BY ShelloutFollows, PlacesAre, FrameFacts DEF LocalInv, CancelRender, UserVars, MoreFrames,
       OfUser, TypeInv, Flags
  <2>4. SkipsSound(shellout') /\ settled' \subseteq FrameNos
    BY DEF LocalInv, CancelRender, OfUser, TypeInv
  <2>5. commands' \in Commands /\ starts' \in 0..MaxStarts /\ requests' \in 0..MaxRequests
    BY DEF LocalInv, TypeInv, CancelRender, UserVars
  <2>6. call' # NoCall => pc' \in Waits
    BY DEF LocalInv, CancelRender, OfUser, TypeInv, vars, frontVars
  <2> QED
    BY <2>1, <2>2, <2>3, <2>4, <2>5, <2>6 DEF TypeInv
<1>2. PlaceInv'
  BY DEF LocalInv, CancelRender, OfUser, PlaceInv
<1>3. CreateInv'
  BY DEF LocalInv, CancelRender, OfUser, CreateInv, vars, frontVars
<1>4. PauseInv'
  BY DEF LocalInv, CancelRender, PauseInv
<1>5. FramesInv'
  BY DEF LocalInv, CancelRender, MoreFrames, OfUser, FramesInv
<1>6. SuccessInv'
  BY DEF LocalInv, CancelRender, OfUser, SuccessInv
<1>7. FrontStep
  BY DEF CancelRender, UserVars, OfUser, FrontStep
<1> QED
  BY <1>1, <1>2, <1>3, <1>4, <1>5, <1>6, <1>7 DEF LocalInv

LEMMA GiveUpKeeps ==
  ASSUME IInv, LocalInv, GiveUp
  PROVE  LocalInv' /\ FrontStep
<1>1. TypeInv'
  <2>1. /\ state' \in States /\ pc' \in Elsewhere \cup Waits /\ then' \in Places
        /\ doing' \in {"none", "Pause", "Resume"} /\ user' \in {"none", "Pause", "Resume"}
    BY DEF LocalInv, GiveUp, OfUser, TypeInv
  <2>2. fe' \in Members
    BY DEF LocalInv, GiveUp, TypeInv
  <2>3. session' \in Flags
    BY DEF LocalInv, GiveUp, Taken, TypeInv, Flags
  <2>4. SkipsSound(shellout') /\ settled' \subseteq FrameNos
    BY DEF LocalInv, GiveUp, OfUser, TypeInv
  <2>5. commands' \in Commands /\ starts' \in 0..MaxStarts /\ requests' \in 0..MaxRequests
    BY DEF LocalInv, TypeInv, GiveUp, Taken
  <2>6. call' # NoCall => pc' \in Waits
    BY DEF LocalInv, GiveUp, OfUser, TypeInv, vars, frontVars
  <2> QED
    BY <2>1, <2>2, <2>3, <2>4, <2>5, <2>6 DEF TypeInv
<1>2. PlaceInv'
  BY DEF LocalInv, GiveUp, OfUser, PlaceInv
<1>3. CreateInv'
  BY DEF LocalInv, GiveUp, OfUser, CreateInv, vars, frontVars
<1>4. PauseInv'
  BY DEF LocalInv, GiveUp, PauseInv
<1>5. FramesInv'
  BY DEF LocalInv, GiveUp, MoreFrames, OfUser, FramesInv
<1>6. SuccessInv'
  BY DEF LocalInv, GiveUp, Taken, OfUser, SuccessInv
<1>7. FrontStep
  BY DEF GiveUp, Taken, OfUser, FrontStep
<1> QED
  BY <1>1, <1>2, <1>3, <1>4, <1>5, <1>6, <1>7 DEF LocalInv

LEMMA CommandExitsKeeps ==
  ASSUME IInv, LocalInv, CommandExits
  PROVE  LocalInv' /\ FrontStep
<1>1. TypeInv'
  <2>1. /\ state' \in States /\ pc' \in Elsewhere \cup Waits /\ then' \in Places
        /\ doing' \in {"none", "Pause", "Resume"} /\ user' \in {"none", "Pause", "Resume"}
    BY DEF LocalInv, CommandExits, UserVars, OfUser, TypeInv
  <2>2. fe' \in Members
    BY DEF LocalInv, CommandExits, TypeInv
  <2>3. session' \in Flags
    BY DEF LocalInv, CommandExits, TypeInv
  <2>4. SkipsSound(shellout') /\ settled' \subseteq FrameNos
    BY DEF LocalInv, TypeInv, CommandExits, OfUser, SkipsSound, Shellouts
  <2>5. commands' \in Commands /\ starts' \in 0..MaxStarts /\ requests' \in 0..MaxRequests
    BY DEF LocalInv, TypeInv, CommandExits, UserVars
  <2>6. call' # NoCall => pc' \in Waits
    BY DEF LocalInv, CommandExits, OfUser, TypeInv, vars, frontVars
  <2> QED
    BY <2>1, <2>2, <2>3, <2>4, <2>5, <2>6 DEF TypeInv
<1>2. PlaceInv'
  BY DEF LocalInv, CommandExits, OfUser, PlaceInv
<1>3. CreateInv'
  BY DEF LocalInv, CommandExits, OfUser, CreateInv, vars, frontVars
<1>4. PauseInv'
  BY DEF LocalInv, CommandExits, PauseInv
<1>5. FramesInv'
  BY DEF LocalInv, CommandExits, MoreFrames, OfUser, FramesInv
<1>6. SuccessInv'
  BY DEF LocalInv, CommandExits, OfUser, SuccessInv
<1>7. FrontStep
  BY DEF CommandExits, UserVars, OfUser, FrontStep
<1> QED
  BY <1>1, <1>2, <1>3, <1>4, <1>5, <1>6, <1>7 DEF LocalInv

LEMMA RequestPauseOrResumeKeeps ==
  ASSUME IInv, LocalInv, NEW rq \in {"Pause", "Resume"}, RequestPauseOrResume(rq)
  PROVE  LocalInv' /\ FrontStep
<1>1. TypeInv'
  <2>1. /\ state' \in States /\ pc' \in Elsewhere \cup Waits /\ then' \in Places
        /\ doing' \in {"none", "Pause", "Resume"} /\ user' \in {"none", "Pause", "Resume"}
    BY DEF LocalInv, RequestPauseOrResume, OfUser, TypeInv
  <2>2. fe' \in Members
    BY DEF LocalInv, RequestPauseOrResume, TypeInv
  <2>3. session' \in Flags
    BY DEF LocalInv, RequestPauseOrResume, TypeInv, Flags
  <2>4. SkipsSound(shellout') /\ settled' \subseteq FrameNos
    BY DEF LocalInv, RequestPauseOrResume, OfUser, TypeInv
  <2>5. commands' \in Commands /\ starts' \in 0..MaxStarts /\ requests' \in 0..MaxRequests
    BY BoundsAssumption, FramesAssumption DEF LocalInv, TypeInv, RequestPauseOrResume, OfUser
  <2>6. call' # NoCall => pc' \in Waits
    BY DEF LocalInv, RequestPauseOrResume, OfUser, TypeInv, vars, frontVars
  <2> QED
    BY <2>1, <2>2, <2>3, <2>4, <2>5, <2>6 DEF TypeInv
<1>2. PlaceInv'
  BY DEF LocalInv, RequestPauseOrResume, OfUser, PlaceInv
<1>3. CreateInv'
  BY DEF LocalInv, RequestPauseOrResume, OfUser, CreateInv, vars, frontVars
<1>4. PauseInv'
  BY DEF LocalInv, RequestPauseOrResume, PauseInv
<1>5. FramesInv'
  BY DEF LocalInv, RequestPauseOrResume, MoreFrames, OfUser, FramesInv
<1>6. SuccessInv'
  BY DEF LocalInv, RequestPauseOrResume, OfUser, SuccessInv
<1>7. FrontStep
  BY DEF RequestPauseOrResume, OfUser, FrontStep, Requested
<1> QED
  BY <1>1, <1>2, <1>3, <1>4, <1>5, <1>6, <1>7 DEF LocalInv

(* The part of LocalInv that is not about the RenderFrontend.              *)
LEMMA SessionStill ==
  ASSUME LocalInv, UNCHANGED feVars, call' # NoCall => call # NoCall, CreateInv'
  PROVE  LocalInv'
<1>1. TypeInv'
  BY DEF LocalInv, TypeInv, feVars
<1>2. PlaceInv' /\ PauseInv' /\ FramesInv' /\ SuccessInv'
  BY DEF LocalInv, PlaceInv, WaitsIn, PauseInv, FramesInv, SuccessInv, MoreFrames, feVars
<1> QED
  BY <1>1, <1>2 DEF LocalInv

LEMMA ReplyFacts ==
  ASSUME IInv, ReplyArrives
  PROVE  /\ call # NoCall /\ toFront # <<>> /\ Head(toFront).kind = "reply"
         /\ stale = 0 /\ Answers(Head(toFront), call)
<1>1. PICK op \in Ops, code \in SUBSET Codes : Replied(op, code)
  BY DEF ReplyArrives, SceneCreated, ViewCreated, CreateRefused, SceneClosed, ViewClosed,
     PauseReplied, ResumeReplied, StopReplied, Controlled, Ops, Codes
<1>2. call.op # "none" /\ Answers(Head(toFront), call)
  BY <1>1, RepliedInTime DEF Ops
<1> QED
  BY <1>1, <1>2 DEF Replied, Take, NoCall

LEMMA WaitForReplyKeeps ==
  ASSUME IInv, LocalInv, WaitForReply
  PROVE  LocalInv' /\ FrontStep
<1>1. UNCHANGED feVars /\ call # NoCall /\ (Receive \/ TimedOut)
  BY DEF WaitForReply, Idle, UserVars, feVars
<1>2. CreateInv'
  <2>1. CASE VerdictArrives \/ LateReply
    BY <1>1, <2>1 DEF VerdictArrives, LateReply, LocalInv, CreateInv, feVars
  <2>2. CASE TimedOut
    BY <1>1, <2>2 DEF TimedOut, Return, LocalInv, CreateInv, feVars
  <2>3. CASE ReplyArrives
    <3>1. Answers(Head(toFront), call) /\ call \in ValidRequests /\ Head(toFront).kind = "reply"
      BY <2>3, ReplyFacts DEF IInv, Safe, FrontInv
    <3>2. CASE SceneCreated
      <4>1. /\ call.op = "CreateScene" /\ Head(toFront).code = "Done"
            /\ Head(toFront).obj \in SceneObjs
        BY <3>1, <3>2 DEF SceneCreated, Replied, Answers
      <4>2. pc = "sceneCreated" => call.op # "CreateView"
        BY <1>1 DEF LocalInv, CreateInv
      <4>3. pc = "viewCreated" => call.op # "CreateScene"
        BY <1>1 DEF LocalInv, CreateInv
      <4>4. \/ call' = NoCall /\ result'.ok /\ result'.obj = Head(toFront).obj
            \/ call' = NoCall /\ ~result'.ok
            \/ call' # NoCall /\ call'.op = "CloseScene"
        BY <3>2 DEF SceneCreated, Return, NoCall
      <4> QED
        BY <1>1, <4>1, <4>2, <4>3, <4>4 DEF CreateInv, feVars
    <3>3. CASE ViewCreated
      <4>1. call.op = "CreateView" /\ Head(toFront).code = "Done" /\ Head(toFront).obj \in ViewObjs
        BY <3>1, <3>3 DEF ViewCreated, Replied, Answers
      <4>2. pc = "sceneCreated" => call.op # "CreateView"
        BY <1>1 DEF LocalInv, CreateInv
      <4>3. pc = "viewCreated" => call.op # "CreateScene"
        BY <1>1 DEF LocalInv, CreateInv
      <4>4. \/ call' = NoCall /\ result'.ok /\ result'.obj = Head(toFront).obj
            \/ call' = NoCall /\ ~result'.ok
            \/ call' # NoCall /\ call'.op = "CloseView"
        BY <3>3 DEF ViewCreated, Return, NoCall
      <4> QED
        BY <1>1, <4>1, <4>2, <4>3, <4>4 DEF CreateInv, feVars
    <3>4. CASE CreateRefused
      BY <1>1, <3>4 DEF CreateRefused, Return, LocalInv, CreateInv, feVars
    <3>5. CASE SceneClosed
      BY <1>1, <3>1, <3>5 DEF SceneClosed, Replied, Return, ValidRequests, LocalInv, CreateInv,
         feVars
    <3>6. CASE ViewClosed
      BY <1>1, <3>1, <3>6 DEF ViewClosed, Replied, Return, ValidRequests, LocalInv, CreateInv,
         feVars
    <3>7. CASE PauseReplied \/ ResumeReplied \/ StopReplied
      BY <1>1, <3>7 DEF PauseReplied, ResumeReplied, StopReplied, Controlled, Replied,
         Return, LocalInv, CreateInv, feVars
    <3> QED
      BY <2>3, <3>2, <3>3, <3>4, <3>5, <3>6, <3>7 DEF ReplyArrives
  <2> QED
    BY <1>1, <2>1, <2>2, <2>3 DEF Receive
<1> QED
  BY <1>1, <1>2, SessionStill DEF FrontStep

LEMMA BackSessionKeeps ==
  ASSUME IInv, LocalInv, BackNext, UNCHANGED frontVars, UNCHANGED feVars
  PROVE  LocalInv' /\ FrontStep
<1>1. CreateInv' /\ call' = call
  BY DEF LocalInv, CreateInv, frontVars, feVars
<1> QED
  BY <1>1, SessionStill DEF FrontStep

-----------------------------------------------------------------------------
SessionInv == IInv /\ LocalInv

LEMMA ProcessKeeps == ASSUME IInv, LocalInv, Process PROVE LocalInv' /\ FrontStep
BY ProcessNothingKeeps, ProcessStartingKeeps, ProcessShelloutKeeps, ProcessPreSceneKeeps,
   ProcessPreFrameKeeps, SceneIsCreatedKeeps, ProcessParsingKeeps, ViewIsCreatedKeeps,
   ProcessRenderingKeeps, ProcessPostFrameKeeps, ProcessPostSceneKeeps, ProcessStoppingKeeps,
   ProcessFailedKeeps, ProcessStoppedKeeps, ProcessDoneKeeps, ViewIsClosedKeeps,
   FrameIsClosedKeeps, RenderIsClosedKeeps DEF Process

LEMMA WorkerKeeps == ASSUME IInv, LocalInv, Worker PROVE LocalInv' /\ FrontStep
BY ProcessKeeps, DeliverKeeps, NothingToDeliverKeeps, WaitForReplyKeeps, StopNowKeeps,
   StopShelloutKeeps, StopJobKeeps, JobIsStoppedKeeps, PauseRequestedKeeps, JobIsPausedKeeps,
   ResumeRequestedKeeps, JobIsResumedKeeps, NothingAskedKeeps DEF Worker

LEMMA SessionNextKeeps ==
  ASSUME SessionInv, [SessionNext]_allVars
  PROVE  SessionInv' /\ FrontStep
<1>1. LocalInv' /\ FrontStep
  <2>1. CASE Worker
    BY <2>1, WorkerKeeps DEF SessionInv
  <2>2. CASE UserInterface \/ CommandExits
    BY <2>2, StartSessionKeeps, CancelRenderKeeps, GiveUpKeeps, RequestPauseOrResumeKeeps,
       CommandExitsKeeps DEF UserInterface, SessionInv
  <2>3. CASE BackNext /\ UNCHANGED frontVars /\ UNCHANGED feVars
    BY <2>3, BackSessionKeeps DEF SessionInv
  <2>4. CASE UNCHANGED allVars
    <3>1. UNCHANGED vars /\ UNCHANGED feVars
      BY <2>4 DEF allVars
    <3>2. CreateInv' /\ call' = call
      BY <3>1 DEF SessionInv, LocalInv, CreateInv, vars, frontVars, feVars
    <3> QED
      BY <3>1, <3>2, SessionStill DEF SessionInv, FrontStep
  <2> QED
    BY <2>1, <2>2, <2>3, <2>4 DEF SessionNext
<1> QED
  BY <1>1, FrontStepKeeps DEF SessionInv

LEMMA InitSession == SessionInit => SessionInv
<1> SUFFICES ASSUME SessionInit PROVE SessionInv
  OBVIOUS
<1>1. IInv
  BY InitIInv DEF SessionInit
<1>2. TypeInv
  <2>1. 1 \in FrameNos /\ 0 \in 0..MaxStarts /\ 0 \in 0..MaxRequests
    BY FramesAssumption, BoundsAssumption DEF FrameNos
  <2>2. fe \in Members
    BY <2>1 DEF SessionInit, Members, States
  <2>3. SkipsSound(shellout)
    BY NewFollows DEF SessionInit
  <2>4. commands \in Commands
    BY DEF SessionInit, Commands
  <2> QED
    BY <2>1, <2>2, <2>3, <2>4 DEF SessionInit, TypeInv, States, Flags, Elsewhere, Places, Init,
       FrontInit
<1>3. PlaceInv /\ CreateInv /\ PauseInv /\ SuccessInv
  BY DEF SessionInit, PlaceInv, CreateInv, PauseInv, SuccessInv, Waits
<1>4. FramesInv
  BY DEF SessionInit, FramesInv
<1> QED
  BY <1>1, <1>2, <1>3, <1>4 DEF SessionInv, LocalInv

(* The invariant of a session: its steps are steps of the two sides'       *)
(* registries, and at each place of the worker its members, flags and      *)
(* frames are what that place expects.                                     *)
THEOREM SessionsStaySound == SessionSpec => []SessionInv
<1>1. SessionInv /\ [SessionNext]_allVars => SessionInv'
  BY SessionNextKeeps
<1> QED
  BY <1>1, InitSession, PTL DEF SessionSpec

(* So what Part 1 says of the two sides' registries holds of them with a   *)
(* session in front as well.                                               *)
THEOREM RegistriesStaySound == SessionSpec => [](FrontendInv /\ RenderAfterParse /\ SidesAgree)
<1>1. SessionInv => FrontendInv /\ RenderAfterParse /\ SidesAgree
  BY FrontendIsSound, RendersParsedScenes, SidesKnowTheSame DEF SessionInv
<1> QED
  BY <1>1, SessionsStaySound, PTL

(* Success is reported for renders all of whose frames are written or      *)
(* skipped as told.                                                        *)
THEOREM SuccessStaysComplete == SessionSpec => []SuccessIsComplete
<1>1. SessionInv => SuccessIsComplete
  BY DEF SessionInv, LocalInv, SuccessInv, SuccessIsComplete, FrameNos
<1> QED
  BY <1>1, SessionsStaySound, PTL

(* A pause that was accepted is not passed over.                           *)
THEOREM PausesAreKept == SessionSpec => []PauseIsKept
<1>1. SessionInv => PauseIsKept
  BY DEF SessionInv, LocalInv, PauseInv, PauseIsKept
<1> QED
  BY <1>1, SessionsStaySound, PTL

LEMMA TypeInvMeans == TypeInv => SessionTypeOK
<1> SUFFICES ASSUME TypeInv PROVE SessionTypeOK
  OBVIOUS
<1>1. fe \in [postPause: States, pauseRequested: BOOLEAN, pausedAfterFrame: BOOLEAN,
              sceneId: SceneIds \cup {0}, viewId: ViewIds \cup {0}, frame: 1..Frames]
  BY DEF TypeInv, Members, FrameNos
<1>2. ShelloutTypeOK(shellout)
  BY ShelloutsTyped DEF TypeInv, SkipsSound
<1> QED
  BY <1>1, <1>2 DEF TypeInv, SessionTypeOK, Flags, FrameNos, Elsewhere

-----------------------------------------------------------------------------
(* What a step of the back end does to a scene that is there.              *)
IsVerdict(m, o) == m.kind = "verdict" /\ m.obj = o
Undone == {"idle", "running", "paused", "failing"}
SameStage(o) == job'[o] = job[o] \/ (job[o] \in Undone /\ job'[o] \in Undone)
Silent(ms, o) == ms \in Seq(Messages) /\ \A i \in 1..Len(ms) : ~IsVerdict(ms[i], o)
NoneAbout(o) ==
  \E ms : toFront' = toFront \o ms /\ Silent(ms, o)
Reports(o) ==
  /\ job[o] \in {"running", "failing"} /\ job'[o] \in {"done", "failed"}
  /\ \E m \in Messages : IsVerdict(m, o) /\ toFront' = Append(toFront, m)
Handles(op) == toBack # <<>> /\ Head(toBack).op = op

LEMMA SilentFacts ==
  ASSUME NEW o
  PROVE  /\ Silent(<<>>, o)
         /\ \A m \in Messages : ~IsVerdict(m, o) => Silent(<<m>>, o)
         /\ \A q, r : Silent(q, o) /\ Silent(r, o) => Silent(q \o r, o)
<1>1. Silent(<<>>, o)
  BY DEF Silent
<1>2. ASSUME NEW m \in Messages, ~IsVerdict(m, o) PROVE Silent(<<m>>, o)
  <2>1. <<m>> \in Seq(Messages) /\ Len(<<m>>) = 1 /\ <<m>>[1] = m
    OBVIOUS
  <2> QED
    BY <1>2, <2>1 DEF Silent
<1>3. ASSUME NEW q, NEW r, Silent(q, o), Silent(r, o) PROVE Silent(q \o r, o)
  <2>1. q \in Seq(Messages) /\ r \in Seq(Messages) /\ q \o r \in Seq(Messages)
    BY <1>3 DEF Silent
  <2>2. ASSUME NEW i \in 1..Len(q \o r) PROVE ~IsVerdict((q \o r)[i], o)
    <3>1. CASE i <= Len(q)
      <4>1. i \in 1..Len(q) /\ (q \o r)[i] = q[i]
        BY <2>1, <3>1
      <4> QED
        BY <1>3, <4>1 DEF Silent
    <3>2. CASE i > Len(q)
      <4>1. i - Len(q) \in 1..Len(r) /\ (q \o r)[i] = r[i - Len(q)]
        BY <2>1, <3>2
      <4> QED
        BY <1>3, <4>1 DEF Silent
    <3> QED
      BY <2>1, <3>1, <3>2
  <2> QED
    BY <2>1, <2>2 DEF Silent
<1> QED
  BY <1>1, <1>2, <1>3

LEMMA SilentHandlers ==
  ASSUME NEW op, NEW ms, Handle(op, ms), NEW o,
         ms = <<>> \/ \E m \in Messages : ms = <<m>> /\ ~IsVerdict(m, o)
  PROVE  NoneAbout(o)
<1>1. Silent(ms, o)
  BY SilentFacts
<1> QED
  BY <1>1 DEF Handle, NoneAbout

LEMMA ReplyIsNoVerdict ==
  ASSUME NEW code \in Codes, NEW p \in Objects \cup {Scene(0), View(0)}, NEW o
  PROVE  Reply(code, p) \in Messages /\ ~IsVerdict(Reply(code, p), o)
BY DEF Reply, Messages, IsVerdict

LEMMA BackScene ==
  ASSUME Safe, BackNext, NEW o \in SceneObjs, job[o] # "none"
  PROVE  \/ SameStage(o) /\ NoneAbout(o)
         \/ Reports(o)
         \/ Handles("Stop") /\ Busy(o)
         \/ Handles("CloseScene")
<1>0. /\ o \in Objects /\ job \in [Objects -> JobStates] /\ QueuesInv /\ o \notin ViewObjs
      /\ o \in Made
  BY ObjectFacts DEF Safe, RegistryInv, SceneObjs, ViewObjs
<1>1. CASE StartParser
  <2>1. Arg \in SceneObjs /\ Arg \in Objects
    BY <1>0, <1>1, ArgFacts DEF StartParser, Handle
  <2>2. CASE /\ Handle("StartParser", <<>>)
             /\ Jobs(IF job[Arg] = "idle" THEN [job EXCEPT ![Arg] = "running"] ELSE job)
    BY <1>0, <2>1, <2>2, SilentHandlers DEF Jobs, SameStage, Undone
  <2>3. CASE /\ Handle("StartParser", <<Verdict("Failed", Arg)>>)
             /\ job[Arg] = "none" /\ Jobs(job)
    <3>1. Verdict("Failed", Arg) \in Messages /\ ~IsVerdict(Verdict("Failed", Arg), o)
      BY <2>1, <2>3 DEF Verdict, Messages, Codes, IsVerdict
    <3> QED
      BY <2>3, <3>1, SilentHandlers DEF Jobs, SameStage
  <2> QED
    BY <1>1, <2>2, <2>3 DEF StartParser
<1>2. CASE StartRender
  <2>1. Arg \in ViewObjs /\ Arg \in Objects
    BY <1>0, <1>2, ArgFacts DEF StartRender, Handle
  <2>2. Verdict("Failed", Arg) \in Messages /\ ~IsVerdict(Verdict("Failed", Arg), o)
    BY <1>0, <2>1 DEF Verdict, Messages, Codes, IsVerdict
  <2>3. NoneAbout(o)
    BY <1>2, <2>2, SilentHandlers DEF StartRender
  <2>4. job' = job \/ job' = [job EXCEPT ![Arg] = "running"]
    BY <1>2 DEF StartRender, Jobs
  <2> QED
    BY <1>0, <2>1, <2>3, <2>4 DEF SameStage
<1>3. CASE Pause \/ Resume
  <2>1. Arg \in Objects
    BY <1>0, <1>3, ArgFacts DEF Pause, Resume, Handle
  <2>2. \E op : \E code \in Codes : Handle(op, <<Reply(code, Arg)>>)
    <3>1. Pause => \E code \in Codes : Handle("Pause", <<Reply(code, Arg)>>)
      BY DEF Pause, Refusal, Codes
    <3>2. Resume => \E code \in Codes : Handle("Resume", <<Reply(code, Arg)>>)
      BY DEF Resume, Refusal, Codes
    <3> QED
      BY <1>3, <3>1, <3>2
  <2>3. NoneAbout(o)
    BY <2>1, <2>2, ReplyIsNoVerdict, SilentHandlers
  <2>4. \/ job' = job
        \/ Busy(Arg) /\ \E st \in {"running", "paused"} : job' = [job EXCEPT ![Arg] = st]
    BY <1>3 DEF Pause, Resume, Jobs, Busy
  <2> QED
    BY <1>0, <2>1, <2>3, <2>4 DEF SameStage, Undone, Busy
<1>4. CASE Stop
  <2>1. Arg \in Objects /\ Handles("Stop")
    BY <1>0, <1>4, ArgFacts DEF Stop, Handle, Handles
  <2>2. CASE Busy(Arg)
    <3>1. CASE Arg = o
      BY <2>1, <2>2, <3>1
    <3>2. CASE Arg # o
      <4>1. PICK ending \in Endings :
              /\ Handle("Stop", [i \in DOMAIN ending[1] |-> Verdict(ending[1][i], Arg)]
                                \o <<Verdict("Failed", Arg), Reply("Done", Arg)>>)
              /\ job' = [job EXCEPT ![Arg] = ending[2]]
        BY <1>4, <2>2 DEF Stop, Jobs, Refusal
      <4> DEFINE first == [i \in DOMAIN ending[1] |-> Verdict(ending[1][i], Arg)]
                 rest == <<Verdict("Failed", Arg), Reply("Done", Arg)>>
      <4>2. \A code \in Codes : Verdict(code, Arg) \in Messages /\ ~IsVerdict(Verdict(code, Arg), o)
        BY <2>1, <3>2 DEF Verdict, Messages, IsVerdict
      <4>3. Reply("Done", Arg) \in Messages /\ ~IsVerdict(Reply("Done", Arg), o)
        BY <2>1, ReplyIsNoVerdict DEF Codes
      <4>4. first \in {<<>>, <<Verdict("Done", Arg)>>, <<Verdict("Failed", Arg)>>}
        BY DEF Endings
      <4> HIDE DEF first
      <4>10. /\ Silent(<<Verdict("Done", Arg)>>, o) /\ Silent(<<Verdict("Failed", Arg)>>, o)
             /\ Silent(<<Reply("Done", Arg)>>, o) /\ Silent(<<>>, o)
        <5>1. "Done" \in Codes /\ "Failed" \in Codes
          BY DEF Codes
        <5> QED
          BY <4>2, <4>3, <5>1, SilentFacts
      <4>5. Silent(first, o)
        BY <4>4, <4>10
      <4>6. Silent(rest, o)
        <5>1. rest = <<Verdict("Failed", Arg)>> \o <<Reply("Done", Arg)>>
          OBVIOUS
        <5>2. Silent(<<Verdict("Failed", Arg)>> \o <<Reply("Done", Arg)>>, o)
          BY <4>10, SilentFacts
        <5> HIDE DEF rest
        <5> QED
          BY <4>10, <5>1, <5>2
      <4>7. Silent(first \o rest, o)
        BY <4>5, <4>6, SilentFacts
      <4>8. NoneAbout(o)
        BY <4>1, <4>7 DEF NoneAbout, Handle, first
      <4>9. job'[o] = job[o]
        BY <1>0, <2>1, <3>2, <4>1
      <4> QED
        BY <4>8, <4>9 DEF SameStage
    <3> QED
      BY <3>1, <3>2
  <2>3. CASE ~Busy(Arg)
    <3>1. \E code \in Codes : Handle("Stop", <<Reply(code, Arg)>>) /\ Jobs(job)
      BY <1>4, <2>3 DEF Stop, Refusal, Codes
    <3> QED
      BY <2>1, <3>1, ReplyIsNoVerdict, SilentHandlers DEF Jobs, SameStage
  <2> QED
    BY <2>2, <2>3
<1>5. CASE CloseScene
  BY <1>5 DEF CloseScene, Handle, Handles
<1>6. CASE CloseView
  <2>1. Arg \in ViewObjs /\ Arg \in Objects
    BY <1>0, <1>6, ArgFacts DEF CloseView, Handle
  <2>2. NoneAbout(o)
    BY <1>6, <2>1, ReplyIsNoVerdict, SilentHandlers DEF CloseView, Codes
  <2> QED
    BY <1>0, <1>6, <2>1, <2>2 DEF CloseView, SameStage
<1>7. CASE CreateScene
  <2>1. \A s \in SceneIds : o # Scene(scenecounter + 1)
    <3>1. PICK s \in SceneIds : o = Scene(s)
      BY DEF SceneObjs
    <3>2. s <= scenecounter /\ scenecounter \in Nat
      BY <1>0, <3>1, MadeFacts, IdFacts DEF Safe, RegistryInv
    <3> QED
      BY <3>1, <3>2, ObjectFacts, IdFacts
  <2>2. CASE Handle("CreateScene", <<Reply("Done", Scene(scenecounter + 1))>>)
             /\ scenecounter + 1 \in SceneIds
             /\ job' = [job EXCEPT ![Scene(scenecounter + 1)] = "idle"]
    <3>1. Scene(scenecounter + 1) \in Objects /\ job'[o] = job[o]
      BY <1>0, <2>1, <2>2, MadeFacts
    <3> QED
      BY <2>2, <3>1, ReplyIsNoVerdict, SilentHandlers DEF Codes, SameStage
  <2>3. CASE Handle("CreateScene", <<Reply("Failed", Scene(0))>>) /\ job' = job
    BY <2>3, ReplyIsNoVerdict, SilentHandlers DEF Codes, SameStage
  <2> QED
    BY <1>7, <2>2, <2>3 DEF CreateScene
<1>8. CASE CreateView
  <2>1. CASE Handle("CreateView", <<Reply("Done", View(viewcounter + 1))>>)
             /\ viewcounter + 1 \in ViewIds
             /\ job' = [job EXCEPT ![View(viewcounter + 1)] = "idle"]
    <3>1. View(viewcounter + 1) \in Objects /\ job'[o] = job[o]
      BY <1>0, <2>1, MadeFacts DEF ViewObjs
    <3> QED
      BY <2>1, <3>1, ReplyIsNoVerdict, SilentHandlers DEF Codes, SameStage
  <2>2. CASE (\E code \in Codes : Handle("CreateView", <<Reply(code, View(0))>>)) /\ job' = job
    BY <2>2, ReplyIsNoVerdict, SilentHandlers DEF SameStage
  <2>3. (IF job[Arg] # "none" /\ ~Viewable(Arg) THEN "NotNow" ELSE "Failed") \in Codes
    BY DEF Codes
  <2> QED
    BY <1>8, <2>1, <2>2, <2>3 DEF CreateView, Codes
<1>9. ASSUME NEW p \in Objects, JobDone(p) \/ ReportFailure(p)
      PROVE  (SameStage(o) /\ NoneAbout(o)) \/ Reports(o)
  <2>1. PICK code \in {"Done", "Failed"} : toFront' = Append(toFront, Verdict(code, p))
    BY <1>9 DEF JobDone, ReportFailure
  <2>2. Verdict(code, p) \in Messages /\ IsVerdict(Verdict(code, p), p)
        /\ (o # p => ~IsVerdict(Verdict(code, p), o))
    BY DEF Verdict, Messages, Codes, IsVerdict
  <2>3. CASE p = o
    BY <1>0, <1>9, <2>1, <2>2, <2>3 DEF Reports, JobDone, ReportFailure, Jobs
  <2>4. CASE p # o
    <3>1. toFront' = toFront \o <<Verdict(code, p)>> /\ <<Verdict(code, p)>> \in Seq(Messages)
      BY <1>0, <2>1, <2>2, QueueTypes
    <3>2. NoneAbout(o)
      BY <2>2, <2>4, <3>1, SilentFacts DEF NoneAbout
    <3>3. job'[o] = job[o]
      BY <1>0, <1>9, <2>4 DEF JobDone, ReportFailure, Jobs
    <3> QED
      BY <3>2, <3>3 DEF SameStage
  <2> QED
    BY <2>3, <2>4
<1>10. ASSUME NEW p \in Objects, JobFails(p) \/ RunsOn(p)
       PROVE  SameStage(o) /\ NoneAbout(o)
  <2>1. toFront' = toFront \o <<>> /\ <<>> \in Seq(Messages)
    BY <1>0, <1>10, QueueTypes DEF JobFails, RunsOn
  <2>2. SameStage(o)
    BY <1>0, <1>10 DEF JobFails, RunsOn, Jobs, SameStage, Undone
  <2> QED
    BY <2>1, <2>2, SilentFacts DEF NoneAbout
<1> QED
  BY <1>1, <1>2, <1>3, <1>4, <1>5, <1>6, <1>7, <1>8, <1>9, <1>10 DEF BackNext, BackHandlers

-----------------------------------------------------------------------------
(* What a session has, as its front end sees it, and what is still to come *)
(* of its scene: nothing, a scene, or a scene and its view.                *)
World == [front |-> front, job |-> job, toFront |-> toFront, view2scene |-> view2scene]

Judged == {"Finished", "Failed"}
Closable == {"Created", "Finished", "Failed"}
AtWork == {"Working", "Paused", "Stopping", "Finished", "Failed"}
Ending == {"Finished", "Failed", "Closing"}

Nothing(w) == \A o \in Objects : w.front[o] = "Unknown"
OnlyScene(w, s, S) ==
  /\ s \in SceneIds /\ w.front[Scene(s)] \in S
  /\ \A o \in Objects : o # Scene(s) => w.front[o] = "Unknown"
NoVerdict(w, o) == \A k \in 1..Len(w.toFront) : ~IsVerdict(w.toFront[k], o)
(* The view's scene is parsed, and that has been heard of.                 *)
Both(w, s, v, V) ==
  /\ s \in SceneIds /\ v \in ViewIds
  /\ w.front[Scene(s)] = "Viewing" /\ w.front[View(v)] \in V
  /\ \A o \in Objects : o \notin {Scene(s), View(v)} => w.front[o] = "Unknown"
  /\ w.view2scene[v] = s /\ w.job[Scene(s)] = "done" /\ NoVerdict(w, Scene(s))
(* A scene that is not stopped has one verdict.                            *)
Told(w, s) ==
  LET o == Scene(s) IN
  /\ w.job[o] # "none"
  /\ \A k \in 1..Len(w.toFront) : IsVerdict(w.toFront[k], o) =>
       /\ w.job[o] \in {"done", "failed"} /\ w.front[o] \notin Judged
       /\ \A j \in 1..Len(w.toFront) : IsVerdict(w.toFront[j], o) => j = k
  /\ w.front[o] \in Judged => w.job[o] \in {"done", "failed"}
Parsed(w, s, S) == OnlyScene(w, s, S) /\ Told(w, s)

LEMMA SceneOf == ASSUME NEW s \in SceneIds PROVE Scene(s) \in SceneObjs /\ Scene(s) \in Objects
BY MadeFacts DEF SceneObjs

(* Messages are added at the end.                                          *)
LEMMA NoneAboutFacts ==
  ASSUME QueuesInv, NEW o, NoneAbout(o)
  PROVE  /\ Len(toFront') \in Nat /\ Len(toFront) <= Len(toFront')
         /\ \A k \in 1..Len(toFront') : IsVerdict(toFront'[k], o) =>
              k \in 1..Len(toFront) /\ toFront[k] = toFront'[k]
<1>1. PICK ms : toFront' = toFront \o ms /\ Silent(ms, o)
  BY DEF NoneAbout
<1>2. toFront \in Seq(Messages) /\ ms \in Seq(Messages)
  BY <1>1, QueueTypes DEF Silent
<1>3. Len(toFront') = Len(toFront) + Len(ms) /\ Len(toFront) \in Nat /\ Len(ms) \in Nat
  BY <1>1, <1>2
<1>4. ASSUME NEW k \in 1..Len(toFront'), IsVerdict(toFront'[k], o)
      PROVE  k \in 1..Len(toFront) /\ toFront[k] = toFront'[k]
  <2>1. CASE k <= Len(toFront)
    BY <1>1, <1>2, <1>3, <2>1
  <2>2. CASE k > Len(toFront)
    <3>1. k - Len(toFront) \in 1..Len(ms) /\ toFront'[k] = ms[k - Len(toFront)]
      BY <1>1, <1>2, <1>3, <2>2
    <3> QED
      BY <1>1, <1>4, <3>1 DEF Silent
  <2> QED
    BY <1>3, <2>1, <2>2
<1> QED
  BY <1>3, <1>4

LEMMA BackTold ==
  ASSUME Safe, BackNext, UNCHANGED frontVars, NEW s \in SceneIds, Told(World, s),
         ~Handles("Stop"), ~Handles("CloseScene")
  PROVE  Told(World', s)
<1> DEFINE o == Scene(s)
<1>1. o \in SceneObjs /\ job[o] # "none" /\ front' = front /\ QueuesInv
  BY SceneOf DEF Told, World, frontVars, Safe
<1>2. /\ \A k \in 1..Len(toFront) : IsVerdict(toFront[k], o) =>
           /\ job[o] \in {"done", "failed"} /\ front[o] \notin Judged
           /\ \A j \in 1..Len(toFront) : IsVerdict(toFront[j], o) => j = k
      /\ front[o] \in Judged => job[o] \in {"done", "failed"}
  BY DEF Told, World
<1> SUFFICES
      /\ job'[o] # "none"
      /\ \A k \in 1..Len(toFront') : IsVerdict(toFront'[k], o) =>
           /\ job'[o] \in {"done", "failed"} /\ front[o] \notin Judged
           /\ \A j \in 1..Len(toFront') : IsVerdict(toFront'[j], o) => j = k
      /\ front[o] \in Judged => job'[o] \in {"done", "failed"}
  BY <1>1 DEF Told, World
<1>3. (SameStage(o) /\ NoneAbout(o)) \/ Reports(o)
  BY <1>1, BackScene
<1>4. CASE SameStage(o) /\ NoneAbout(o)
  <2>1. \A k \in 1..Len(toFront') : IsVerdict(toFront'[k], o) =>
          k \in 1..Len(toFront) /\ toFront[k] = toFront'[k]
    BY <1>1, <1>4, NoneAboutFacts
  <2>2. job'[o] = job[o] \/ (job[o] \in Undone /\ job'[o] \in Undone)
    BY <1>4 DEF SameStage
  <2>3. job'[o] # "none" /\ (job[o] \in {"done", "failed"} => job'[o] \in {"done", "failed"})
    BY <1>1, <2>2 DEF Undone
  <2> QED
    BY <1>2, <2>1, <2>3
<1>5. CASE Reports(o)
  <2>1. PICK m \in Messages : IsVerdict(m, o) /\ toFront' = Append(toFront, m)
    BY <1>5 DEF Reports
  <2>2. job[o] \in {"running", "failing"} /\ job'[o] \in {"done", "failed"}
    BY <1>5 DEF Reports
  <2>3. front[o] \notin Judged /\ \A k \in 1..Len(toFront) : ~IsVerdict(toFront[k], o)
    BY <1>2, <2>2
  <2>4. toFront \in Seq(Messages)
    BY <1>1, QueueTypes
  <2>5. Len(toFront) \in Nat /\ Len(toFront') = Len(toFront) + 1
        /\ \A k \in 1..Len(toFront) : toFront'[k] = toFront[k]
    BY <2>1, <2>4
  <2>6. \A k \in 1..Len(toFront') : IsVerdict(toFront'[k], o) => k = Len(toFront) + 1
    BY <2>3, <2>5
  <2> QED
    BY <2>2, <2>3, <2>6
<1> QED
  BY <1>3, <1>4, <1>5

LEMMA BackViews ==
  ASSUME Safe, BackNext, NEW v \in ViewIds, View(v) \in Made
  PROVE  view2scene'[v] = view2scene[v]
<1>1. view2scene \in [ViewIds -> SceneIds \cup {0}] /\ viewcounter \in Nat /\ v <= viewcounter
      /\ v \in Nat
  BY IdFacts, MadeFacts DEF Safe, RegistryInv
<1>2. view2scene' = view2scene \/ \E s : view2scene' = [view2scene EXCEPT ![viewcounter + 1] = s]
  BY DEF BackNext, BackHandlers, CreateScene, CloseScene, CreateView, CloseView, StartParser,
     StartRender, Pause, Resume, Stop, JobDone, JobFails, ReportFailure, RunsOn, Jobs
<1> QED
  BY <1>1, <1>2

LEMMA BackBoth ==
  ASSUME Safe, BackNext, UNCHANGED frontVars, NEW s, NEW v, NEW V, "Unknown" \notin V,
         Both(World, s, v, V), ~Handles("CloseScene")
  PROVE  Both(World', s, v, V)
<1> DEFINE o == Scene(s)
<1>1. s \in SceneIds /\ v \in ViewIds /\ front' = front /\ QueuesInv
      /\ front[View(v)] # "Unknown" /\ job[o] = "done" /\ view2scene[v] = s
      /\ \A k \in 1..Len(toFront) : ~IsVerdict(toFront[k], o)
  BY DEF Both, World, frontVars, Safe, NoVerdict
<1>2. View(v) \in Made
  BY <1>1, MadeFacts, KnownMade
<1>3. view2scene'[v] = s
  BY <1>1, <1>2, BackViews
<1>4. o \in SceneObjs
  BY <1>1, SceneOf
<1>5. SameStage(o) /\ NoneAbout(o)
  BY <1>1, <1>4, BackScene DEF Reports, Busy
<1>6. job'[o] = "done"
  BY <1>1, <1>5 DEF SameStage, Undone
<1>7. \A k \in 1..Len(toFront') : ~IsVerdict(toFront'[k], o)
  BY <1>1, <1>5, NoneAboutFacts
<1> QED
  BY <1>1, <1>3, <1>6, <1>7 DEF Both, World, NoVerdict

-----------------------------------------------------------------------------
(* What a session has in each state, as long as nothing has failed: where  *)
(* it goes on to the next scene, or is done, it has nothing.               *)
Empty == {"Ready", "Starting", "PreSceneShellout", "PreFrameShellout",
          "PostSceneShellout", "Done"}
InParsing == {"Parsing", "PausedParsing"}
InRendering == {"Rendering", "PausedRendering"}

Stoppable(m, w) ==
  \/ Nothing(w)
  \/ OnlyScene(w, m.sceneId, Judged)
  \/ Both(w, m.sceneId, m.viewId, Closable)
Stoppings(m, w) ==
  \/ Nothing(w)
  \/ OnlyScene(w, m.sceneId, AtWork)
  \/ Both(w, m.sceneId, m.viewId, AtWork)
Pausing(m, w) ==
  /\ m.postPause = "Parsing" => Parsed(w, m.sceneId, AtWork)
  /\ m.postPause = "Starting" => Nothing(w)
  /\ m.postPause = "Stopped" => Nothing(w) \/ Both(w, m.sceneId, m.viewId, Judged)

HasIn(st, m, w) ==
  /\ st \in Empty => Nothing(w)
  /\ st \in InParsing => Parsed(w, m.sceneId, AtWork)
  /\ st \in InRendering /\ m.pausedAfterFrame => Nothing(w)
  /\ st \in InRendering /\ ~m.pausedAfterFrame => Both(w, m.sceneId, m.viewId, AtWork)
  /\ st = "PostFrameShellout" => Both(w, m.sceneId, m.viewId, Judged)
  /\ st = "PostShelloutPause" => Pausing(m, w)
  /\ st \in {"Stopped", "Failed"} => Stoppable(m, w)
  /\ st = "Stopping" => Stoppings(m, w)
  /\ m.pausedAfterFrame => st = "PausedRendering"

(* While it waits, or has just done so.                                    *)
Created(o) == call = NoCall /\ result.ok /\ result.obj = o
HasWaiting ==
  /\ pc = "sceneCreated" =>
       \/ \E s \in SceneIds : Created(Scene(s)) /\ Parsed(World, s, {"Created"})
       \/ ~(call = NoCall /\ result.ok) /\ Nothing(World)
  /\ pc = "viewCreated" =>
       \/ \E v \in ViewIds : Created(View(v)) /\ Both(World, fe.sceneId, v, {"Created"})
       \/ ~(call = NoCall /\ result.ok) /\ Parsed(World, fe.sceneId, {"Finished"})
  /\ pc = "viewClosed" =>
       \/ call = NoCall /\ (Nothing(World) \/ OnlyScene(World, fe.sceneId, Judged))
       \/ call # NoCall /\ Both(World, fe.sceneId, fe.viewId, Closable)
  /\ pc = "sceneClosed" =>
       \/ call = NoCall /\ Nothing(World)
       \/ call # NoCall /\ OnlyScene(World, fe.sceneId, Ending)
  /\ pc \in {"pausing", "resuming"} => HasIn(state, fe, World)
  /\ pc = "stopping" =>
       \/ state \in InParsing /\ OnlyScene(World, fe.sceneId, AtWork)
       \/ state \in InRendering /\ Both(World, fe.sceneId, fe.viewId, AtWork)
  /\ pc \in Waits => ~fe.pausedAfterFrame

Has == HasWaiting /\ (pc \notin Waits => HasIn(state, fe, World))

(* The request that is under way is the one the worker waits for, ...      *)
JobAsked ==
  \/ state \in InParsing /\ call.obj = Scene(fe.sceneId)
  \/ state \in InRendering /\ call.obj = View(fe.viewId)
Asked ==
  call # NoCall =>
    /\ pc = "sceneCreated" => call.op = "CreateScene"
    /\ pc = "viewCreated" => call.op = "CreateView" /\ call.obj = Scene(fe.sceneId)
    /\ pc = "viewClosed" => call.op = "CloseView" /\ call.obj = View(fe.viewId)
    /\ pc = "sceneClosed" => call.op = "CloseScene" /\ call.obj = Scene(fe.sceneId)
    /\ pc = "pausing" => call.op = "Pause" /\ JobAsked
    /\ pc = "resuming" => call.op = "Resume" /\ JobAsked
    /\ pc = "stopping" => call.op = "Stop" /\ JobAsked

(* ... and its reply says what is needed: what is closed was there, and    *)
(* what is created is new.                                                 *)
New(o) ==
  /\ job[o] = "idle" /\ NoVerdict(World, o)
  /\ \A j \in 1..Len(toBack) : toBack[j].obj # o
Fitting(m) ==
  /\ call.op \in Closes => m.code = "Done"
  /\ call.op = "CreateView" /\ m.code = "Done" => view2scene[m.obj[2]] = call.obj[2]
  /\ call.op = "CreateScene" /\ m.code = "Done" => New(m.obj)
ReplyFits == \A m \in Replies : Sent(m) => Fitting(m)

OwnInv == faults = 0 => Has /\ Asked /\ ReplyFits

-----------------------------------------------------------------------------
(* What follows of states from what a session has.                         *)
LEMMA Weaken ==
  ASSUME NEW w, NEW s, NEW v, NEW S, NEW T
  PROVE  /\ OnlyScene(w, s, S) /\ w.front[Scene(s)] \in T => OnlyScene(w, s, T)
         /\ Both(w, s, v, S) /\ w.front[View(v)] \in T => Both(w, s, v, T)
         /\ OnlyScene(w, s, S) => w.front[Scene(s)] \in S
         /\ Both(w, s, v, S) => w.front[View(v)] \in S
         /\ S \subseteq T => /\ OnlyScene(w, s, S) => OnlyScene(w, s, T)
                             /\ Parsed(w, s, S) => Parsed(w, s, T)
                             /\ Both(w, s, v, S) => Both(w, s, v, T)
         /\ Parsed(w, s, S) => OnlyScene(w, s, S)
BY DEF OnlyScene, Both, Parsed

LEMMA KnownOf ==
  ASSUME NEW s, NEW v, NEW S
  PROVE  /\ Nothing(World) => \A o : StateOf(o) = "Unknown"
         /\ OnlyScene(World, s, S) => /\ StateOf(Scene(s)) = World.front[Scene(s)]
                                      /\ \A u : StateOf(View(u)) = "Unknown"
         /\ Both(World, s, v, S) => /\ StateOf(Scene(s)) = "Viewing"
                                    /\ StateOf(View(v)) = World.front[View(v)]
<1>1. World.front = front
  BY DEF World
<1>2. Nothing(World) => \A o : StateOf(o) = "Unknown"
  BY <1>1 DEF Nothing, StateOf
<1>3. ASSUME OnlyScene(World, s, S)
      PROVE  /\ StateOf(Scene(s)) = front[Scene(s)]
             /\ \A u : StateOf(View(u)) = "Unknown"
  <2>1. Scene(s) \in Objects /\ \A u : View(u) # Scene(s)
    BY <1>3, MadeFacts, ObjectFacts DEF OnlyScene
  <2> QED
    BY <1>1, <1>3, <2>1 DEF OnlyScene, StateOf
<1>4. ASSUME Both(World, s, v, S)
      PROVE  /\ StateOf(Scene(s)) = "Viewing"
             /\ StateOf(View(v)) = front[View(v)]
  <2>1. Scene(s) \in Objects /\ View(v) \in Objects
    BY <1>4, MadeFacts DEF Both
  <2> QED
    BY <1>1, <1>4, <2>1 DEF Both, StateOf
<1> QED
  BY <1>1, <1>2, <1>3, <1>4

(* Where no request was under way there is no reply yet.                   *)
LEMMA NoReplyFits ==
  ASSUME IInv, faults = 0, call = NoCall, UNCHANGED toFront
  PROVE  ReplyFits'
<1>1. stale = 0 /\ QueuesInv /\ MatchInv
  BY DEF IInv, Safe, FrontInv
<1>2. NoReply
  BY <1>1, OneAtATime
<1> QED
  BY <1>2 DEF ReplyFits, NoReply, Sent

LEMMA FrontFaults == ASSUME FrontStep, faults \in Nat, faults' = 0 PROVE faults = 0
<1>1. Requested => faults' = faults
  BY DEF Requested, SceneAsked, ViewAsked, RequestCreateScene, RequestCreateView,
     RequestStartParser, RequestPauseParser, RequestResumeParser, RequestStopParser,
     RequestCloseScene, RequestStartRender, RequestPauseRender, RequestResumeRender,
     RequestStopRender, RequestCloseView, Request, Begin, Ask, Tell, NotSent
<1>2. Receive => faults' = faults \/ Fault
  BY DEF Receive, VerdictArrives, LateReply, ReplyArrives, SceneCreated, ViewCreated,
     CreateRefused, SceneClosed, ViewClosed, PauseReplied, ResumeReplied, StopReplied, Controlled
<1>3. TimedOut \/ LocalFault => Fault
  BY DEF TimedOut, LocalFault
<1>4. Fault => faults' = faults + 1
  BY DEF Fault
<1> QED
  BY <1>1, <1>2, <1>3, <1>4 DEF FrontStep, vars, frontVars

LEMMA FaultsGrow == ASSUME SessionInv, [SessionNext]_allVars, faults' = 0 PROVE faults = 0
<1>1. FrontStep /\ faults \in Nat
  BY SessionNextKeeps DEF SessionInv, IInv, Safe, FrontInv
<1> QED
  BY <1>1, FrontFaults

(* A step after which the worker waits for nothing, and which leaves the   *)
(* RenderFrontend alone.                                                   *)
LEMMA LocalOwn ==
  ASSUME IInv, faults = 0, UNCHANGED <<front, job, toFront, view2scene>>, pc' \notin Waits,
         call = NoCall, call' = NoCall, HasIn(state', fe', World)
  PROVE  Has' /\ Asked' /\ ReplyFits'
<1>1. World' = World
  BY DEF World
<1>2. HasIn(state, fe, World)'
  BY <1>1 DEF HasIn, Pausing, Stoppable, Stoppings, Nothing, OnlyScene, Both, Parsed, Told,
     NoVerdict
<1>3. Has'
  BY <1>2, PlacesAre DEF Has, HasWaiting, Waits
<1> QED
  BY <1>3, NoReplyFits DEF Asked

-----------------------------------------------------------------------------
(* The worker goes on by itself.                                           *)
Rests ==
  /\ UNCHANGED <<front, job, toFront, view2scene>>
  /\ call = NoCall /\ call' = NoCall /\ pc' \notin Waits
  /\ HasIn(state', fe', World)
Undisturbed == UNCHANGED <<front, job, toFront, view2scene, call>>

LEMMA VarsUndisturbed == UNCHANGED vars => Undisturbed
BY DEF vars, backVars, frontVars, Undisturbed

LEMMA Going ==
  ASSUME TypeInv, NEW st, Leave(st), call = NoCall, Undisturbed, HasIn(st, fe', World)
  PROVE  Rests
BY LeaveFacts, PlacesAre DEF Rests, Undisturbed

LEMMA AtProcess ==
  ASSUME LocalInv, Has, pc = "process"
  PROVE  TypeInv /\ call = NoCall /\ HasIn(state, fe, World)
BY PlacesAre DEF LocalInv, TypeInv, Has

LEMMA ProcessNothingRests == ASSUME LocalInv, Has, ProcessNothing PROVE Rests
BY AtProcess, Going, VarsUndisturbed DEF ProcessNothing, Local

LEMMA ProcessStartingRests ==
  ASSUME LocalInv, Has, ProcessStarting PROVE Rests
<1>1. /\ TypeInv /\ call = NoCall /\ Nothing(World) /\ fe' = fe /\ ~fe.pausedAfterFrame
  BY AtProcess DEF ProcessStarting, At, HasIn, Empty
<1>2. Undisturbed
  BY VarsUndisturbed DEF ProcessStarting, backVars, Undisturbed
<1>3. \E st \in Empty \cup {"Failed", "Stopped"} : Leave(st)
  BY DEF ProcessStarting, HandleShelloutCancel, Empty
<1>4. \A st \in Empty \cup {"Failed", "Stopped"} : HasIn(st, fe', World)
  BY <1>1 DEF HasIn, Empty, InParsing, InRendering, Stoppable
<1> QED
  BY <1>1, <1>2, <1>3, <1>4, Going

LEMMA ProcessShelloutRests ==
  ASSUME LocalInv, Has, ProcessShellout PROVE Rests
<1>1. /\ TypeInv /\ call = NoCall /\ HasIn(state, fe, World) /\ fe' = fe /\ Undisturbed
      /\ state \in ShelloutStates \ {"PostSceneShellout"}
  BY AtProcess, VarsUndisturbed DEF ProcessShellout, At, Local
<1>2. HasIn("Failed", fe, World) /\ HasIn("Stopped", fe, World)
  BY <1>1, Weaken DEF HasIn, Empty, InParsing, InRendering, Stoppable, ShelloutStates,
     Judged, Closable
<1>3. \/ \E st \in {state, "Failed", "Stopped"} : Leave(st)
      \/ pc' = "catch" /\ state' = state
  BY DEF ProcessShellout, HandleShelloutCancel
<1> QED
  BY <1>1, <1>2, <1>3, Going, PlacesAre DEF Rests, Undisturbed

LEMMA ProcessPreSceneRests ==
  ASSUME LocalInv, Has, ProcessPreScene PROVE Rests
<1>1. /\ TypeInv /\ call = NoCall /\ Nothing(World) /\ Undisturbed /\ ~fe.pausedAfterFrame
      /\ fe \in Members
  BY AtProcess, VarsUndisturbed DEF ProcessPreScene, At, Local, HasIn, Empty, TypeInv
<1>2. /\ \E st \in {"Starting", "PostShelloutPause"} :
           Leave(st) /\ (st = "PostShelloutPause" => fe'.postPause = "Starting")
      /\ ~fe'.pausedAfterFrame
  BY <1>1 DEF ProcessPreScene, LeaveOrPause, Members
<1>3. HasIn("Starting", fe', World)
      /\ (fe'.postPause = "Starting" => HasIn("PostShelloutPause", fe', World))
  BY <1>1, <1>2 DEF HasIn, Empty, InParsing, InRendering, Pausing
<1> QED
  BY <1>1, <1>2, <1>3, Going

(* A frame that is skipped.                                                *)
LEMMA FrameSkippedRests ==
  ASSUME LocalInv, Has, ProcessPreFrame, ~RequestCreateScene PROVE Rests
<1>1. /\ TypeInv /\ call = NoCall /\ Nothing(World) /\ ~fe.pausedAfterFrame /\ fe \in Members
  BY AtProcess DEF ProcessPreFrame, At, HasIn, Empty, TypeInv
<1>2. Undisturbed
  BY VarsUndisturbed DEF ProcessPreFrame
<1>3. /\ \E st \in {"Starting", "Stopped", "PostShelloutPause"} :
           /\ Leave(st)
           /\ st = "PostShelloutPause" => fe'.postPause \in {"Starting", "Stopped"}
      /\ ~fe'.pausedAfterFrame
  BY <1>1 DEF ProcessPreFrame, Members
<1>4. /\ HasIn("Starting", fe', World) /\ HasIn("Stopped", fe', World)
      /\ fe'.postPause \in {"Starting", "Stopped"} => HasIn("PostShelloutPause", fe', World)
  BY <1>1, <1>3 DEF HasIn, Empty, InParsing, InRendering, Pausing, Stoppable
<1> QED
  BY <1>1, <1>2, <1>3, <1>4, Going

(* The scene is not created.                                               *)
LEMMA SceneMissedRests ==
  ASSUME LocalInv, Has, SceneIsCreated, ~result.ok PROVE Rests
<1>1. /\ TypeInv /\ call = NoCall /\ Nothing(World) /\ ~fe.pausedAfterFrame /\ fe' = fe
      /\ Undisturbed /\ Leave("Failed")
  BY VarsUndisturbed DEF SceneIsCreated, HasReturned, LocalInv, Has, HasWaiting, Created, Waits
<1>2. HasIn("Failed", fe', World)
  BY <1>1 DEF HasIn, Empty, InParsing, InRendering, Stoppable
<1> QED
  BY <1>1, <1>2, Going

LEMMA SceneVerdictRests ==
  ASSUME LocalInv, Has, ProcessVerdict(InParsing, Scene(fe.sceneId), "PausedParsing")
  PROVE  Rests
<1>1. /\ TypeInv /\ call = NoCall /\ Parsed(World, fe.sceneId, AtWork) /\ fe' = fe
      /\ Undisturbed /\ ~fe.pausedAfterFrame
  BY AtProcess, VarsUndisturbed DEF ProcessVerdict, At, Local, HasIn, InParsing
<1>2. /\ OnlyScene(World, fe.sceneId, AtWork)
      /\ StateOf(Scene(fe.sceneId)) = World.front[Scene(fe.sceneId)]
  BY <1>1, Weaken, KnownOf
<1>3. HasIn("PausedParsing", fe, World) /\ HasIn("Stopping", fe, World)
  BY <1>1, <1>2 DEF HasIn, Empty, InParsing, InRendering, Stoppings
<1>4. StateOf(Scene(fe.sceneId)) = "Failed" => HasIn("Stopped", fe, World)
  <2>1. "Failed" \in Judged
    BY DEF Judged
  <2>2. StateOf(Scene(fe.sceneId)) = "Failed" => OnlyScene(World, fe.sceneId, Judged)
    BY <1>2, <2>1, Weaken
  <2> QED
    BY <1>1, <2>2 DEF HasIn, Empty, InParsing, InRendering, Stoppable
<1> QED
  BY <1>1, <1>3, <1>4, Going DEF ProcessVerdict

LEMMA ViewVerdictRests ==
  ASSUME LocalInv, Has, ProcessVerdict(InRendering, View(fe.viewId), "PausedRendering")
  PROVE  Rests
<1>1. /\ TypeInv /\ call = NoCall /\ HasIn(state, fe, World) /\ fe' = fe
      /\ Undisturbed /\ state \in InRendering
  BY AtProcess, VarsUndisturbed DEF ProcessVerdict, At, Local
<1>2. ~fe.pausedAfterFrame /\ Both(World, fe.sceneId, fe.viewId, AtWork)
  BY <1>1, KnownOf DEF HasIn, ProcessVerdict
<1>3. StateOf(View(fe.viewId)) = World.front[View(fe.viewId)]
  BY <1>2, KnownOf
<1>4. HasIn("PausedRendering", fe, World) /\ HasIn("Stopping", fe, World)
  BY <1>2 DEF HasIn, Empty, InParsing, InRendering, Stoppings
<1>5. StateOf(View(fe.viewId)) = "Failed" => HasIn("Stopped", fe, World)
  <2>1. "Failed" \in Closable
    BY DEF Closable
  <2>2. StateOf(View(fe.viewId)) = "Failed" => Both(World, fe.sceneId, fe.viewId, Closable)
    BY <1>2, <1>3, <2>1, Weaken
  <2> QED
    BY <1>2, <2>2 DEF HasIn, Empty, InParsing, InRendering, Stoppable
<1> QED
  BY <1>1, <1>4, <1>5, Going DEF ProcessVerdict

LEMMA FrameWrittenRests ==
  ASSUME LocalInv, Has, ProcessRendering,
         ~ProcessVerdict(InRendering, View(fe.viewId), "PausedRendering")
  PROVE  Rests
<1>1. /\ At({"Rendering"}) /\ StateOf(View(fe.viewId)) = "Finished" /\ fe' = fe
      /\ \E st \in {"Failed", "Stopped", "PostFrameShellout"} : Leave(st)
      /\ Undisturbed
  BY VarsUndisturbed DEF ProcessRendering, InRendering, HandleShelloutCancel, backVars, Undisturbed
<1>2. TypeInv /\ call = NoCall /\ HasIn(state, fe, World) /\ state = "Rendering"
  BY <1>1, AtProcess DEF At
<1>3. ~fe.pausedAfterFrame /\ Both(World, fe.sceneId, fe.viewId, AtWork)
  BY <1>2 DEF HasIn, InRendering
<1>4. Both(World, fe.sceneId, fe.viewId, Judged) /\ Both(World, fe.sceneId, fe.viewId, Closable)
  BY <1>1, <1>3, KnownOf, Weaken DEF Judged, Closable
<1>5. \A st \in {"Failed", "Stopped", "PostFrameShellout"} : HasIn(st, fe, World)
  BY <1>3, <1>4 DEF HasIn, Empty, InParsing, InRendering, Stoppable
<1> QED
  BY <1>1, <1>2, <1>5, Going

(* The last frame.                                                         *)
LEMMA LastFrameRests ==
  ASSUME LocalInv, Has, ProcessPostFrame, ~RequestCloseView(View(fe.viewId)) PROVE Rests
<1>1. /\ TypeInv /\ call = NoCall /\ Both(World, fe.sceneId, fe.viewId, Judged)
      /\ ~fe.pausedAfterFrame /\ fe \in Members /\ Undisturbed
  BY AtProcess, VarsUndisturbed DEF ProcessPostFrame, At, HasIn, TypeInv
<1>2. /\ \E st \in {"Stopped", "PostShelloutPause"} :
           Leave(st) /\ (st = "PostShelloutPause" => fe'.postPause = "Stopped")
      /\ ~fe'.pausedAfterFrame /\ fe'.sceneId = fe.sceneId /\ fe'.viewId = fe.viewId
  BY <1>1 DEF ProcessPostFrame, LeaveOrPause, Members
<1>3. Both(World, fe.sceneId, fe.viewId, Closable)
  BY <1>1, Weaken DEF Judged, Closable
<1>4. /\ HasIn("Stopped", fe', World)
      /\ fe'.postPause = "Stopped" => HasIn("PostShelloutPause", fe', World)
  BY <1>1, <1>2, <1>3 DEF HasIn, Empty, InParsing, InRendering, Pausing, Stoppable
<1> QED
  BY <1>1, <1>2, <1>4, Going

LEMMA ProcessPostSceneRests == ASSUME LocalInv, Has, ProcessPostScene PROVE Rests
<1>1. /\ TypeInv /\ call = NoCall /\ HasIn(state, fe, World) /\ fe' = fe /\ Undisturbed
      /\ state = "PostSceneShellout"
  BY AtProcess, VarsUndisturbed DEF ProcessPostScene, At, Local
<1>2. HasIn("Done", fe, World)
  BY <1>1 DEF HasIn, Empty, InParsing, InRendering
<1>3. (\E st \in {state, "Done"} : Leave(st)) \/ (pc' = "catch" /\ state' = state)
  BY DEF ProcessPostScene
<1> QED
  BY <1>1, <1>2, <1>3, Going, PlacesAre DEF Rests, Undisturbed

LEMMA ProcessStoppingRests == ASSUME LocalInv, Has, ProcessStopping PROVE Rests
<1>1. /\ TypeInv /\ call = NoCall /\ Stoppings(fe, World) /\ ~fe.pausedAfterFrame /\ fe' = fe
      /\ Undisturbed /\ Leave("Stopped")
  BY AtProcess, VarsUndisturbed DEF ProcessStopping, At, Local, HasIn
<1>2. \/ StateOf(Scene(fe.sceneId)) \in Judged
      \/ StateOf(View(fe.viewId)) \in Judged
  BY DEF ProcessStopping, Judged
<1>3. Stoppable(fe, World)
  <2>1. CASE OnlyScene(World, fe.sceneId, AtWork)
    BY <1>2, <2>1, KnownOf, Weaken DEF Stoppable, Judged
  <2>2. CASE Both(World, fe.sceneId, fe.viewId, AtWork)
    BY <1>2, <2>2, KnownOf, Weaken DEF Stoppable, Judged, Closable
  <2> QED
    BY <1>1, <2>1, <2>2 DEF Stoppings, Stoppable
<1>4. HasIn("Stopped", fe, World)
  BY <1>1, <1>3 DEF HasIn, Empty, InParsing, InRendering
<1> QED
  BY <1>1, <1>4, Going

LEMMA ProcessFailedRests == ASSUME LocalInv, Has, ProcessFailed PROVE Rests
<1>1. /\ TypeInv /\ call = NoCall /\ HasIn("Failed", fe, World) /\ fe' = fe
      /\ Undisturbed /\ Leave("Stopped")
  BY AtProcess, VarsUndisturbed DEF ProcessFailed, At, Local
<1>2. HasIn("Stopped", fe, World)
  BY <1>1 DEF HasIn, Empty, InParsing, InRendering
<1> QED
  BY <1>1, <1>2, Going

LEMMA ProcessDoneRests == ASSUME LocalInv, Has, ProcessDone PROVE Rests
<1>1. /\ TypeInv /\ call = NoCall /\ HasIn("Done", fe, World) /\ fe' = fe
      /\ Undisturbed /\ Leave("Ready")
  BY AtProcess, VarsUndisturbed DEF ProcessDone, At, Local
<1>2. HasIn("Ready", fe, World)
  BY <1>1 DEF HasIn, Empty, InParsing, InRendering
<1> QED
  BY <1>1, <1>2, Going

LEMMA SceneGone ==
  ASSUME LocalInv, Has, pc = "sceneClosed", HasReturned
  PROVE  TypeInv /\ call = NoCall /\ Nothing(World) /\ ~fe.pausedAfterFrame /\ fe \in Members
BY DEF HasReturned, LocalInv, TypeInv, Has, HasWaiting, Waits

LEMMA FrameIsClosedRests == ASSUME LocalInv, Has, FrameIsClosed PROVE Rests
<1>1. /\ TypeInv /\ call = NoCall /\ Nothing(World) /\ ~fe.pausedAfterFrame /\ fe \in Members
      /\ Undisturbed
  BY SceneGone, VarsUndisturbed DEF FrameIsClosed
<1>2. \E st \in {"Starting", "Stopped", "PausedRendering", "PostShelloutPause"} :
        /\ Leave(st)
        /\ fe'.pausedAfterFrame <=> st = "PausedRendering"
        /\ st = "PostShelloutPause" => fe'.postPause = "Starting"
  BY <1>1 DEF FrameIsClosed, Members
<1>3. ASSUME NEW st \in {"Starting", "Stopped", "PausedRendering", "PostShelloutPause"},
             fe'.pausedAfterFrame <=> st = "PausedRendering",
             st = "PostShelloutPause" => fe'.postPause = "Starting"
      PROVE  HasIn(st, fe', World)
  BY <1>1, <1>3 DEF HasIn, Empty, InParsing, InRendering, Pausing, Stoppable
<1> QED
  BY <1>1, <1>2, <1>3, Going

LEMMA RenderIsClosedRests == ASSUME LocalInv, Has, RenderIsClosed PROVE Rests
<1>1. /\ TypeInv /\ call = NoCall /\ Nothing(World) /\ ~fe.pausedAfterFrame /\ Undisturbed
      /\ fe' = fe
  BY SceneGone, VarsUndisturbed DEF RenderIsClosed, Local
<1>2. \E st \in {"Done", "PostSceneShellout"} : Leave(st)
  BY DEF RenderIsClosed
<1>3. \A st \in {"Done", "PostSceneShellout"} : HasIn(st, fe, World)
  BY <1>1 DEF HasIn, Empty, InParsing, InRendering
<1> QED
  BY <1>1, <1>2, <1>3, Going

LEMMA Anywhere ==
  ASSUME LocalInv, Has, pc \in Elsewhere
  PROVE  TypeInv /\ call = NoCall /\ HasIn(state, fe, World)
BY PlacesAre DEF LocalInv, TypeInv, Has

LEMMA AfterAbort ==
  ASSUME NEW sh, NEW ses, UserAborts(sh, ses) \/ Finished(ses)
  PROVE  pc' \notin Waits
<1>1. pc' \in {"receive", "control"}
  BY DEF UserAborts, Finished, Control
<1> QED
  BY <1>1, PlacesAre

LEMMA StopNowRests == ASSUME LocalInv, Has, StopNow PROVE Rests
<1>1. /\ call = NoCall /\ HasIn(state, fe, World) /\ Undisturbed /\ fe \in Members
  BY Anywhere, VarsUndisturbed DEF StopNow, Local, Elsewhere, Places, TypeInv
<1>2. pc' \notin Waits
  BY AfterAbort DEF StopNow
<1>3. HasIn(state', fe', World)
  <2>1. CASE UNCHANGED <<state, fe>>
    BY <1>1, <2>1
  <2>2. CASE state = "Starting" /\ state' = "Stopped" /\ fe' = fe
    BY <1>1, <2>2 DEF HasIn, Empty, InParsing, InRendering, Stoppable
  <2>3. CASE state = "PostShelloutPause" /\ state' = "Stopping" /\ fe' = fe
    <3>1. fe.postPause \in {"Parsing", "Starting", "Stopped"}
      BY <2>3 DEF LocalInv, PlaceInv
    <3>2. Stoppings(fe, World)
      BY <1>1, <2>3, <3>1, Weaken DEF HasIn, Pausing, Stoppings, Judged, AtWork
    <3> QED
      BY <1>1, <2>3, <3>2 DEF HasIn, Empty, InParsing, InRendering
  <2>4. CASE /\ state \in InRendering /\ fe.pausedAfterFrame
             /\ state' = "Stopped" /\ fe' = [fe EXCEPT !.pausedAfterFrame = FALSE]
    <3>1. Nothing(World) /\ ~fe'.pausedAfterFrame
      BY <1>1, <2>4 DEF HasIn, Members
    <3> QED
      BY <2>4, <3>1 DEF HasIn, Empty, InParsing, InRendering, Stoppable
  <2> QED
    BY <2>1, <2>2, <2>3, <2>4 DEF StopNow, InRendering
<1> QED
  BY <1>1, <1>2, <1>3 DEF Rests, Undisturbed

LEMMA StopShelloutRests == ASSUME LocalInv, Has, StopShellout PROVE Rests
<1>1. /\ call = NoCall /\ HasIn(state, fe, World) /\ Undisturbed /\ fe' = fe
      /\ state \in ShelloutStates
  BY Anywhere, VarsUndisturbed DEF StopShellout, Local, Elsewhere, Places
<1>2. pc' \notin Waits
  BY AfterAbort DEF StopShellout
<1>3. state' = state \/ (state = "PostSceneShellout" /\ state' = "Done") \/ state' = "Stopped"
  BY DEF StopShellout
<1>4. HasIn("Stopped", fe, World) /\ (state = "PostSceneShellout" => HasIn("Done", fe, World))
  BY <1>1, Weaken DEF HasIn, Empty, InParsing, InRendering, Stoppable, ShelloutStates,
     Judged, Closable
<1> QED
  BY <1>1, <1>2, <1>3, <1>4 DEF Rests, Undisturbed

LEMMA JobIsStoppedRests == ASSUME LocalInv, Has, JobIsStopped PROVE Rests
<1>1. /\ call = NoCall /\ Undisturbed /\ fe' = fe /\ state' = "Stopping"
      /\ Stoppings(fe, World) /\ ~fe.pausedAfterFrame
  BY VarsUndisturbed DEF JobIsStopped, HasReturned, Local, Has, HasWaiting, Waits, Stoppings
<1>2. pc' \notin Waits
  BY AfterAbort DEF JobIsStopped
<1>3. HasIn("Stopping", fe, World)
  BY <1>1 DEF HasIn, Empty, InParsing, InRendering
<1> QED
  BY <1>1, <1>2, <1>3 DEF Rests, Undisturbed

LEMMA AfterAnswer == ASSUME NEW ses, Answer(ses) PROVE pc' \notin Waits
BY PlacesAre DEF Answer

(* A pause the back end is not asked for.                                  *)
LEMMA PauseNotedRests ==
  ASSUME LocalInv, Has, PauseRequested, state \notin {"Parsing", "Rendering"} PROVE Rests
<1>1. /\ call = NoCall /\ HasIn(state, fe, World) /\ Undisturbed /\ fe \in Members
      /\ state' = state /\ pc' \notin Waits
      /\ \E b : fe' = [fe EXCEPT !.pauseRequested = b]
  BY Anywhere, VarsUndisturbed, AfterAnswer DEF PauseRequested, Elsewhere, TypeInv
<1>2. /\ fe'.sceneId = fe.sceneId /\ fe'.viewId = fe.viewId /\ fe'.postPause = fe.postPause
      /\ fe'.pausedAfterFrame = fe.pausedAfterFrame
  BY <1>1 DEF Members
<1>3. HasIn(state, fe', World)
  BY <1>1, <1>2 DEF HasIn, Pausing, Stoppable, Stoppings
<1> QED
  BY <1>1, <1>3 DEF Rests, Undisturbed

LEMMA JobIsPausedRests ==
  ASSUME LocalInv, Has, JobIsPaused \/ JobIsResumed PROVE Rests
<1>1. /\ call = NoCall /\ HasIn(state, fe, World) /\ Undisturbed /\ fe' = fe
      /\ pc' \notin Waits /\ ~fe.pausedAfterFrame
  BY VarsUndisturbed, AfterAnswer DEF JobIsPaused, JobIsResumed, HasReturned, Has, HasWaiting,
     Waits
<1>2. \/ state' = state \/ (state \in InParsing /\ state' \in InParsing)
      \/ (state \in InRendering /\ state' \in InRendering)
  BY DEF JobIsPaused, JobIsResumed, LocalInv, PlaceInv, WaitsIn, Waits, InParsing, InRendering
<1>3. HasIn(state', fe, World)
  BY <1>1, <1>2 DEF HasIn, Empty, InParsing, InRendering
<1> QED
  BY <1>1, <1>3 DEF Rests, Undisturbed

(* A resume the back end is not asked for.                                 *)
LEMMA WentOnRests ==
  ASSUME LocalInv, Has, ResumeRequested, pc' # "resuming" PROVE Rests
<1>1. /\ call = NoCall /\ HasIn(state, fe, World) /\ fe \in Members /\ TypeInv
      /\ fe.pausedAfterFrame => state = "PausedRendering"
  BY Anywhere DEF ResumeRequested, Elsewhere, TypeInv, HasIn
<1>2. /\ Undisturbed /\ pc' \notin Waits
      /\ state' = CASE state = "PostShelloutPause" -> fe.postPause
                    [] state = "PausedParsing" -> "Parsing"
                    [] state = "PausedRendering" /\ fe.pausedAfterFrame -> "Starting"
                    [] state = "PausedRendering" /\ ~fe.pausedAfterFrame -> "Rendering"
                    [] OTHER -> state
      /\ fe' = [fe EXCEPT !.pausedAfterFrame = @ /\ state # "PausedRendering"]
  BY VarsUndisturbed, AfterAnswer DEF ResumeRequested, CarryOut
<1>3. /\ fe'.sceneId = fe.sceneId /\ fe'.viewId = fe.viewId /\ fe'.postPause = fe.postPause
      /\ ~fe'.pausedAfterFrame
  BY <1>1, <1>2 DEF Members
<1>4. CASE state = "PostShelloutPause"
  <2>1. fe.postPause \in {"Parsing", "Starting", "Stopped"} /\ state' = fe.postPause
    BY <1>2, <1>4 DEF LocalInv, PlaceInv
  <2>2. Pausing(fe, World)
    BY <1>1, <1>4 DEF HasIn
  <2>3. HasIn(state', fe', World)
    BY <1>3, <2>1, <2>2, Weaken DEF HasIn, Pausing, Empty, InParsing, InRendering, Stoppable,
       Judged, Closable
  <2> QED
    BY <1>1, <1>2, <2>3 DEF Rests, Undisturbed
<1>5. CASE state \in {"PausedParsing", "PausedRendering"}
  <2>1. HasIn(state', fe', World)
    BY <1>1, <1>2, <1>3, <1>5 DEF HasIn, Empty, InParsing, InRendering
  <2> QED
    BY <1>1, <1>2, <2>1 DEF Rests, Undisturbed
<1>6. CASE state \notin {"PostShelloutPause", "PausedParsing", "PausedRendering"}
  <2>1. state' = state
    BY <1>2, <1>6
  <2>2. HasIn(state', fe', World)
    BY <1>1, <1>3, <1>6, <2>1 DEF HasIn, Pausing, Stoppable, Stoppings
  <2> QED
    BY <1>1, <1>2, <2>2 DEF Rests, Undisturbed
<1> QED
  BY <1>4, <1>5, <1>6

LEMMA NothingAskedRests == ASSUME LocalInv, Has, NothingAsked PROVE Rests
<1>1. /\ call = NoCall /\ HasIn(state, fe, World) /\ Undisturbed /\ UNCHANGED <<state, fe>>
      /\ pc' \notin Waits
  BY Anywhere, VarsUndisturbed, PlacesAre DEF NothingAsked, Elsewhere, Idle
<1> QED
  BY <1>1 DEF Rests, Undisturbed

LEMMA NothingToDeliverRests == ASSUME LocalInv, Has, NothingToDeliver PROVE Rests
<1>1. /\ call = NoCall /\ HasIn(state, fe, World) /\ Undisturbed /\ UNCHANGED <<state, fe>>
      /\ pc' \notin Waits
  BY Anywhere, VarsUndisturbed, PlacesAre DEF NothingToDeliver, Elsewhere, Places, Idle
<1> QED
  BY <1>1 DEF Rests, Undisturbed

-----------------------------------------------------------------------------
(* Steps that are none of the worker's.                                    *)
Own == Has /\ Asked /\ ReplyFits

LEMMA StillOwn ==
  ASSUME Own, UNCHANGED vars, UNCHANGED <<state, fe, pc>>
  PROVE  Own'
<1>1. World' = World /\ UNCHANGED <<call, result, front, job, toFront, toBack, view2scene>>
  BY DEF World, vars, backVars, frontVars
<1>2. HasIn(state, fe, World)' <=> HasIn(state, fe, World)
  BY <1>1 DEF HasIn, Pausing, Stoppable, Stoppings, Nothing, OnlyScene, Both, Parsed, Told,
     NoVerdict
<1>3. Has'
  <2>1. /\ \A s, S : /\ Parsed(World, s, S)' <=> Parsed(World, s, S)
                     /\ OnlyScene(World, s, S)' <=> OnlyScene(World, s, S)
        /\ \A s, v, V : Both(World, s, v, V)' <=> Both(World, s, v, V)
        /\ Nothing(World)' <=> Nothing(World)
        /\ \A o : Created(o)' <=> Created(o)
    BY <1>1 DEF Parsed, OnlyScene, Told, Both, NoVerdict, Nothing, Created
  <2>2. HasWaiting'
    BY <1>1, <1>2, <2>1 DEF Own, Has, HasWaiting
  <2> QED
    BY <1>2, <2>2 DEF Own, Has
<1>4. Asked'
  BY <1>1 DEF Own, Asked, JobAsked
<1>5. ReplyFits'
  <2>1. \A m \in Replies : (Sent(m)' <=> Sent(m)) /\ (Fitting(m)' <=> Fitting(m))
    BY <1>1 DEF Sent, Fitting, New, NoVerdict
  <2> QED
    BY <2>1 DEF Own, ReplyFits
<1> QED
  BY <1>3, <1>4, <1>5 DEF Own

LEMMA StartSessionRests == ASSUME LocalInv, Has, StartSession PROVE Rests
<1>1. pc \in Elsewhere
  BY DEF StartSession, LocalInv, TypeInv, PlaceInv, WaitsIn, Waits, ClosingStates
<1>2. call = NoCall /\ Nothing(World) /\ TypeInv /\ fe \in Members /\ Undisturbed /\ pc' = pc
  BY <1>1, Anywhere, VarsUndisturbed DEF StartSession, HasIn, Empty, TypeInv
<1>3. ~fe'.pausedAfterFrame /\ state' = "Starting"
  BY <1>2 DEF StartSession, Members
<1>4. HasIn("Starting", fe', World)
  BY <1>2, <1>3 DEF HasIn, Empty, InParsing, InRendering
<1> QED
  BY <1>1, <1>2, <1>3, <1>4, PlacesAre DEF Rests, Undisturbed

LEMMA OthersOwn ==
  ASSUME IInv, LocalInv, Own, faults = 0, UserInterface \/ CommandExits
  PROVE  Own'
<1>1. CASE StartSession
  BY <1>1, StartSessionRests, LocalOwn DEF Own, Rests
<1>2. CASE ~StartSession
  <2>1. UNCHANGED vars /\ UNCHANGED <<state, fe, pc>>
    BY <1>2 DEF UserInterface, CommandExits, CancelRender, GiveUp, RequestPauseOrResume, OfUser
  <2> QED
    BY <2>1, StillOwn
<1> QED
  BY <1>1, <1>2

-----------------------------------------------------------------------------
(* What a request does.                                                    *)
LEMMA WorldChange ==
  ASSUME Safe, UNCHANGED <<job, toFront, view2scene>>, NEW s, NEW v, NEW st, NEW S
  PROVE  /\ front' = front => World' = World
         /\ front' = [front EXCEPT ![Scene(s)] = st] =>
              /\ OnlyScene(World, s, S) => OnlyScene(World', s, {st})
              /\ Parsed(World, s, S) /\ st \notin Judged => Parsed(World', s, {st})
         /\ front' = [front EXCEPT ![View(v)] = st] =>
              (Both(World, s, v, S) => Both(World', s, v, {st}))
<1>1. /\ World.front = front /\ World'.front = front' /\ World'.job = World.job
      /\ World'.toFront = World.toFront /\ World'.view2scene = World.view2scene
  BY DEF World
<1>2. DOMAIN front = Objects
  BY DEF Safe, FrontInv, FrontMaps
<1>3. ASSUME front' = [front EXCEPT ![Scene(s)] = st], OnlyScene(World, s, S)
      PROVE  OnlyScene(World', s, {st})
  <2>1. s \in SceneIds /\ Scene(s) \in Objects
    BY <1>3, MadeFacts DEF OnlyScene
  <2> QED
    BY <1>1, <1>2, <1>3, <2>1 DEF OnlyScene
<1>4. ASSUME front' = [front EXCEPT ![Scene(s)] = st], Parsed(World, s, S), st \notin Judged
      PROVE  Parsed(World', s, {st})
  <2>1. OnlyScene(World', s, {st}) /\ Told(World, s)
    BY <1>3, <1>4 DEF Parsed
  <2>2. World'.front[Scene(s)] \notin Judged
    BY <1>4, <2>1 DEF OnlyScene
  <2> QED
    BY <1>1, <2>1, <2>2 DEF Parsed, Told
<1>5. ASSUME front' = [front EXCEPT ![View(v)] = st], Both(World, s, v, S)
      PROVE  Both(World', s, v, {st})
  <2>1. s \in SceneIds /\ v \in ViewIds /\ Scene(s) \in Objects /\ View(v) \in Objects
        /\ Scene(s) # View(v)
    BY <1>5, MadeFacts, ObjectFacts DEF Both
  <2> QED
    BY <1>1, <1>2, <1>5, <2>1 DEF Both, NoVerdict
<1> QED
  BY <1>3, <1>4, <1>5 DEF World

(* A request that was sent, one that was not, and one without an answer.   *)
LEMMA RequestFacts ==
  ASSUME NEW op \in Ops, NEW o
  PROVE  /\ Ask(op, o) => /\ call = NoCall /\ call' # NoCall /\ call'.op = op /\ call'.obj = o
                          /\ UNCHANGED <<job, toFront, view2scene, faults>>
         /\ NotSent(o) => /\ call = NoCall /\ call' = NoCall
                          /\ UNCHANGED <<job, toFront, view2scene, faults>>
         /\ Tell(op, o) => /\ call = NoCall /\ call' = NoCall
                           /\ UNCHANGED <<job, toFront, view2scene, faults>>
BY DEF Ask, NotSent, Tell, Send, BackOnlyUnchanged, NoCall, Ops, backVars

LEMMA RestsAgain ==
  ASSUME IInv, faults = 0, UNCHANGED toFront, pc' \notin Waits,
         call = NoCall, call' = NoCall, HasIn(state', fe', World')
  PROVE  Own'
<1>1. HasIn(state, fe, World)'
  BY DEF HasIn, Pausing, Stoppable, Stoppings, Nothing, OnlyScene, Both, Parsed, Told, NoVerdict
<1>2. Has'
  BY <1>1, PlacesAre DEF Has, HasWaiting, Waits
<1> QED
  BY <1>2, NoReplyFits DEF Asked, Own

LEMMA CreateSceneOwn ==
  ASSUME SessionInv, Own, faults = 0, ProcessPreFrame, RequestCreateScene, pc' = "sceneCreated"
  PROVE  Own'
<1>1. Nothing(World) /\ ~fe.pausedAfterFrame /\ call = NoCall /\ fe' = fe
  <2>1. HasIn("PreFrameShellout", fe, World) /\ call = NoCall
    BY AtProcess DEF SessionInv, Own, ProcessPreFrame, At
  <2>2. fe' = fe
    BY PlacesAre DEF ProcessPreFrame, Leave, Onward, Control, SessionInv, LocalInv, TypeInv, Places,
       Waits
  <2> QED
    BY <2>1, <2>2 DEF HasIn, Empty
<1>2. call' # NoCall /\ call'.op = "CreateScene" /\ UNCHANGED <<job, toFront, view2scene, front>>
  BY RequestFacts DEF RequestCreateScene, Ops
<1>3. World' = World
  BY <1>2 DEF World
<1>4. Nothing(World)'
  BY <1>1, <1>3 DEF Nothing
<1>5. Has'
  BY <1>1, <1>2, <1>4 DEF Has, HasWaiting, Waits
<1>6. Asked'
  BY <1>2 DEF Asked
<1> QED
  BY <1>1, <1>2, <1>5, <1>6, NoReplyFits DEF Own, SessionInv

LEMMA ProcessPreFrameOwn ==
  ASSUME SessionInv, Own, faults = 0, ProcessPreFrame PROVE Own'
<1>1. CASE RequestCreateScene /\ pc' = "sceneCreated"
  BY <1>1, CreateSceneOwn
<1>2. CASE ~RequestCreateScene
  BY <1>2, FrameSkippedRests, LocalOwn DEF SessionInv, Own, Rests
<1>3. CASE RequestCreateScene /\ pc' # "sceneCreated"
  <2>1. UNCHANGED call
    BY <1>3 DEF ProcessPreFrame, vars, frontVars
  <2>2. call = NoCall /\ call' # NoCall
    BY <1>3, RequestFacts DEF RequestCreateScene, Ops
  <2> QED
    BY <2>1, <2>2
<1> QED
  BY <1>1, <1>2, <1>3

LEMMA SceneIsCreatedOwn ==
  ASSUME SessionInv, Own, faults = 0, SceneIsCreated PROVE Own'
<1>1. CASE ~result.ok
  BY <1>1, SceneMissedRests, LocalOwn DEF SessionInv, Own, Rests
<1>2. CASE result.ok
  <2>1. call = NoCall /\ Safe /\ fe \in Members /\ TypeInv /\ ~fe.pausedAfterFrame
    BY DEF SceneIsCreated, HasReturned, SessionInv, IInv, LocalInv, TypeInv, Own, Has, HasWaiting,
       Waits
  <2>2. PICK s \in SceneIds : result.obj = Scene(s) /\ Parsed(World, s, {"Created"})
    BY <1>2, <2>1 DEF SceneIsCreated, Own, Has, HasWaiting, Created
  <2>3. StateOf(Scene(s)) = "Created"
    BY <2>2, KnownOf, Weaken
  <2>4. Tell("StartParser", Scene(s)) /\ front' = [front EXCEPT ![Scene(s)] = "Working"]
    BY <1>2, <2>2, <2>3 DEF SceneIsCreated, RequestStartParser, Begin
  <2>5. call' = NoCall /\ UNCHANGED <<job, toFront, view2scene>>
    BY <2>4, RequestFacts DEF Ops
  <2>6. Parsed(World', s, AtWork)
    <3>1. Parsed(World', s, {"Working"})
      BY <2>1, <2>2, <2>4, <2>5, WorldChange DEF Judged
    <3> QED
      BY <3>1, Weaken DEF AtWork
  <2>7. /\ \E st \in {"Parsing", "PostShelloutPause"} :
             Leave(st) /\ (st = "PostShelloutPause" => fe'.postPause = "Parsing")
        /\ ~fe'.pausedAfterFrame /\ fe'.sceneId = s
    <3>1. /\ fe' = [fe EXCEPT !.sceneId = result.obj[2],
                              !.postPause = IF fe.pauseRequested THEN "Parsing" ELSE @,
                              !.pauseRequested = FALSE]
          /\ Leave(IF fe.pauseRequested THEN "PostShelloutPause" ELSE "Parsing")
      BY <1>2 DEF SceneIsCreated
    <3>2. result.obj[2] = s
      BY <2>2, ObjectFacts
    <3>3. ~fe'.pausedAfterFrame /\ fe'.sceneId = s
          /\ (fe.pauseRequested => fe'.postPause = "Parsing")
      BY <2>1, <3>1, <3>2 DEF Members
    <3> QED
      BY <3>1, <3>3
  <2>8. /\ HasIn("Parsing", fe', World')
        /\ fe'.postPause = "Parsing" => HasIn("PostShelloutPause", fe', World')
    BY <2>6, <2>7 DEF HasIn, Pausing, Empty, InParsing, InRendering
  <2>9. HasIn(state', fe', World') /\ pc' \notin Waits
    BY <2>1, <2>7, <2>8, LeaveFacts, PlacesAre
  <2> QED
    BY <2>1, <2>5, <2>9, RestsAgain DEF SessionInv
<1> QED
  BY <1>1, <1>2

LEMMA CreateViewOwn ==
  ASSUME SessionInv, Own, faults = 0, At({"Parsing"}), StateOf(Scene(fe.sceneId)) = "Finished",
         RequestCreateView(Scene(fe.sceneId)), pc' = "viewCreated", fe' = fe
  PROVE  Own'
<1>1. Parsed(World, fe.sceneId, AtWork) /\ ~fe.pausedAfterFrame
  BY AtProcess DEF SessionInv, Own, At, HasIn, InParsing
<1>2. Parsed(World, fe.sceneId, {"Finished"})
  <2>1. OnlyScene(World, fe.sceneId, {"Finished"})
    BY <1>1, KnownOf, Weaken
  <2> QED
    BY <1>1, <2>1 DEF Parsed
<1>3. Ask("CreateView", Scene(fe.sceneId)) /\ front' = front
  BY DEF RequestCreateView
<1>4. /\ call = NoCall /\ call' # NoCall /\ call'.op = "CreateView"
      /\ call'.obj = Scene(fe.sceneId) /\ UNCHANGED <<job, toFront, view2scene, front>>
  BY <1>3, RequestFacts DEF Ops
<1>5. World' = World
  BY <1>4 DEF World
<1>6. Parsed(World, fe.sceneId, {"Finished"})'
  BY <1>2, <1>5 DEF Parsed, OnlyScene, Told
<1>7. Has'
  BY <1>1, <1>4, <1>6 DEF Has, HasWaiting, Waits
<1>8. Asked'
  BY <1>4 DEF Asked
<1> QED
  BY <1>4, <1>7, <1>8, NoReplyFits DEF Own, SessionInv

LEMMA ProcessParsingOwn ==
  ASSUME SessionInv, Own, faults = 0, ProcessParsing PROVE Own'
<1>1. CASE ProcessVerdict({"Parsing", "PausedParsing"}, Scene(fe.sceneId), "PausedParsing")
  BY <1>1, SceneVerdictRests, LocalOwn DEF SessionInv, Own, Rests, InParsing
<1>2. CASE ~ProcessVerdict({"Parsing", "PausedParsing"}, Scene(fe.sceneId), "PausedParsing")
  BY <1>2, CreateViewOwn DEF ProcessParsing
<1> QED
  BY <1>1, <1>2

(* The view is asked to be closed, and is there.                           *)
LEMMA CloseViewOwn ==
  ASSUME SessionInv, Own, faults = 0, call = NoCall, RequestCloseView(View(fe'.viewId)),
         Both(World, fe'.sceneId, fe'.viewId, Closable), pc' = "viewClosed",
         ~fe'.pausedAfterFrame
  PROVE  Own'
<1> DEFINE v == fe'.viewId
<1>1. /\ StateOf(View(v)) = World.front[View(v)] /\ StateOf(View(v)) \in Closable
      /\ World.front = front /\ Safe
  BY KnownOf, Weaken DEF World, SessionInv, IInv
<1>2. Ask("CloseView", View(v)) /\ front' = [front EXCEPT ![View(v)] = StateOf(View(v))]
  BY <1>1 DEF RequestCloseView, Request, Closable
<1>3. front' = front
  BY <1>1, <1>2 DEF Safe, FrontInv, FrontMaps
<1>4. /\ call' # NoCall /\ call'.op = "CloseView" /\ call'.obj = View(v)
      /\ UNCHANGED <<job, toFront, view2scene>>
  BY <1>2, RequestFacts DEF Ops
<1>5. World' = World
  BY <1>3, <1>4 DEF World
<1>6. Both(World, fe.sceneId, fe.viewId, Closable)'
  BY <1>5 DEF Both, NoVerdict, Closable
<1>7. Has'
  BY <1>4, <1>6 DEF Has, HasWaiting, Waits
<1>8. Asked'
  BY <1>4 DEF Asked
<1> QED
  BY <1>4, <1>7, <1>8, NoReplyFits DEF Own, SessionInv

ViewIsThere(v) == Both(World, fe.sceneId, v, {"Created"}) /\ v \in ViewIds
LEMMA RenderStartedOwn ==
  ASSUME SessionInv, Own, faults = 0, call = NoCall, NEW v, ViewIsThere(v),
         fe' = [fe EXCEPT !.viewId = v], ~fe.pausedAfterFrame,
         RequestStartRender(View(v)), Leave("Rendering")
  PROVE  Own'
<1>1. Safe /\ TypeInv /\ fe \in Members
  BY DEF SessionInv, IInv, LocalInv, TypeInv
<1>2. StateOf(View(v)) = "Created"
  BY KnownOf, Weaken DEF ViewIsThere
<1>3. Tell("StartRender", View(v)) /\ front' = [front EXCEPT ![View(v)] = "Working"]
  BY <1>2 DEF RequestStartRender, Begin
<1>4. call' = NoCall /\ UNCHANGED <<job, toFront, view2scene>>
  BY <1>3, RequestFacts DEF Ops
<1>5. Both(World', fe.sceneId, v, AtWork)
  <2>1. Both(World', fe.sceneId, v, {"Working"})
    BY <1>1, <1>3, <1>4, WorldChange DEF ViewIsThere
  <2> QED
    BY <2>1, Weaken DEF AtWork
<1>6. fe'.viewId = v /\ fe'.sceneId = fe.sceneId /\ ~fe'.pausedAfterFrame
  BY <1>1 DEF Members
<1>7. HasIn("Rendering", fe', World')
  BY <1>5, <1>6 DEF HasIn, Empty, InParsing, InRendering
<1>8. HasIn(state', fe', World') /\ pc' \notin Waits
  BY <1>1, <1>7, LeaveFacts, PlacesAre
<1> QED
  BY <1>4, <1>8, RestsAgain DEF SessionInv

LEMMA ViewIsCreatedOwn ==
  ASSUME SessionInv, Own, faults = 0, ViewIsCreated PROVE Own'
<1>1. /\ call = NoCall /\ TypeInv /\ fe \in Members /\ ~fe.pausedAfterFrame /\ IInv
      /\ pc = "viewCreated"
  BY DEF ViewIsCreated, HasReturned, SessionInv, LocalInv, TypeInv, Own, Has, HasWaiting, Waits
<1>2. CASE ~result.ok
  <2>1. /\ Parsed(World, fe.sceneId, {"Finished"}) /\ fe' = fe /\ Leave("Failed") /\ Undisturbed
    BY <1>1, <1>2, VarsUndisturbed DEF ViewIsCreated, Own, Has, HasWaiting, Created
  <2>2. OnlyScene(World, fe.sceneId, Judged)
    BY <2>1, Weaken DEF Judged
  <2>3. HasIn("Failed", fe', World)
    BY <1>1, <2>1, <2>2 DEF HasIn, Empty, InParsing, InRendering, Stoppable
  <2> QED
    BY <1>1, <2>1, <2>3, Going, LocalOwn DEF Own, Rests
<1>3. CASE result.ok
  <2>1. PICK v \in ViewIds : result.obj = View(v) /\ ViewIsThere(v)
    BY <1>1, <1>3 DEF Own, Has, HasWaiting, Created, ViewIsThere
  <2>2. fe' = [fe EXCEPT !.viewId = v]
    BY <1>3, <2>1, ObjectFacts DEF ViewIsCreated
  <2>3. fe'.viewId = v /\ fe'.sceneId = fe.sceneId /\ ~fe'.pausedAfterFrame
    BY <1>1, <2>2 DEF Members
  <2>4. Both(World, fe'.sceneId, fe'.viewId, Closable)
    BY <2>1, <2>3, Weaken DEF Closable, ViewIsThere
  <2>5. CASE RequestStartRender(View(v)) /\ Leave("Rendering")
    BY <1>1, <2>1, <2>2, <2>5, RenderStartedOwn
  <2>6. CASE RequestCloseView(View(v)) /\ Closing(state)
    BY <1>1, <2>3, <2>4, <2>6, CloseViewOwn DEF Closing
  <2>7. CASE Leave("Failed") /\ UNCHANGED vars
    <3>1. HasIn("Failed", fe', World)
      BY <2>3, <2>4 DEF HasIn, Empty, InParsing, InRendering, Stoppable
    <3> QED
      BY <1>1, <2>7, <3>1, VarsUndisturbed, Going, LocalOwn DEF Own, Rests
  <2> QED
    BY <1>3, <2>1, <2>5, <2>6, <2>7 DEF ViewIsCreated
<1> QED
  BY <1>2, <1>3

LEMMA ProcessRenderingOwn ==
  ASSUME SessionInv, Own, faults = 0, ProcessRendering PROVE Own'
BY ViewVerdictRests, FrameWrittenRests, LocalOwn DEF SessionInv, Own, Rests

LEMMA ProcessPostFrameOwn ==
  ASSUME SessionInv, Own, faults = 0, ProcessPostFrame PROVE Own'
<1>1. CASE ~RequestCloseView(View(fe.viewId))
  BY <1>1, LastFrameRests, LocalOwn DEF SessionInv, Own, Rests
<1>2. CASE RequestCloseView(View(fe.viewId))
  <2>1. /\ call = NoCall /\ Both(World, fe.sceneId, fe.viewId, Judged) /\ ~fe.pausedAfterFrame
    BY AtProcess DEF SessionInv, Own, ProcessPostFrame, At, HasIn
  <2>2. Both(World, fe.sceneId, fe.viewId, Closable)
    BY <2>1, Weaken DEF Judged, Closable
  <2>3. CASE Closing(state) /\ fe' = fe
    BY <1>2, <2>1, <2>2, <2>3, CloseViewOwn DEF Closing
  <2>4. CASE ~(Closing(state) /\ fe' = fe)
    <3>1. UNCHANGED vars
      BY <2>4 DEF ProcessPostFrame
    <3>2. StateOf(View(fe.viewId)) \in Closable
      BY <2>2, KnownOf, Weaken
    <3>3. Ask("CloseView", View(fe.viewId))
      BY <1>2, <3>2 DEF RequestCloseView, Request, Closable
    <3> QED
      BY <3>1, <3>3, RequestFacts DEF vars, frontVars, Ops
  <2> QED
    BY <2>3, <2>4
<1> QED
  BY <1>1, <1>2

LEMMA ProcessStoppedOwn ==
  ASSUME SessionInv, Own, faults = 0, ProcessStopped PROVE Own'
<1>1. /\ call = NoCall /\ Stoppable(fe, World) /\ ~fe.pausedAfterFrame /\ fe' = fe /\ IInv
      /\ RequestCloseView(View(fe.viewId)) /\ pc' = "viewClosed"
  BY AtProcess DEF SessionInv, Own, ProcessStopped, At, HasIn, Closing
<1>2. CASE Both(World, fe.sceneId, fe.viewId, Closable)
  BY <1>1, <1>2, CloseViewOwn
<1>3. CASE Nothing(World) \/ OnlyScene(World, fe.sceneId, Judged)
  <2>1. StateOf(View(fe.viewId)) = "Unknown"
    BY <1>3, KnownOf
  <2>2. NotSent(View(fe.viewId)) /\ front' = front
    BY <1>1, <2>1 DEF RequestCloseView, Request
  <2>3. call' = NoCall /\ UNCHANGED <<job, toFront, view2scene, front>>
    BY <2>2, RequestFacts DEF Ops
  <2>4. World' = World
    BY <2>3 DEF World
  <2>5. (Nothing(World) \/ OnlyScene(World, fe.sceneId, Judged))'
    BY <1>1, <1>3, <2>4 DEF Nothing, OnlyScene, Judged
  <2>6. Has'
    BY <1>1, <2>3, <2>5 DEF Has, HasWaiting, Waits
  <2> QED
    BY <1>1, <2>3, <2>6, NoReplyFits DEF Own, Asked
<1> QED
  BY <1>1, <1>2, <1>3 DEF Stoppable

LEMMA ViewIsClosedOwn ==
  ASSUME SessionInv, Own, faults = 0, ViewIsClosed PROVE Own'
<1> DEFINE s == fe.sceneId
<1>1. /\ call = NoCall /\ (Nothing(World) \/ OnlyScene(World, s, Judged))
      /\ ~fe.pausedAfterFrame /\ fe' = fe /\ IInv /\ Safe
      /\ RequestCloseScene(Scene(s)) /\ pc' = "sceneClosed"
  BY DEF SessionInv, IInv, Own, ViewIsClosed, HasReturned, Has, HasWaiting, Waits
<1>2. CASE Nothing(World)
  <2>1. StateOf(Scene(s)) = "Unknown"
    BY <1>2, KnownOf
  <2>2. NotSent(Scene(s)) /\ front' = front
    BY <1>1, <2>1 DEF RequestCloseScene, Request
  <2>3. call' = NoCall /\ UNCHANGED <<job, toFront, view2scene, front>>
    BY <2>2, RequestFacts DEF Ops
  <2>4. World' = World
    BY <2>3 DEF World
  <2>5. Nothing(World)'
    BY <1>2, <2>4 DEF Nothing
  <2>6. Has'
    BY <1>1, <2>3, <2>5 DEF Has, HasWaiting, Waits
  <2> QED
    BY <1>1, <2>3, <2>6, NoReplyFits DEF Own, Asked
<1>3. CASE OnlyScene(World, s, Judged)
  <2>1. StateOf(Scene(s)) \in Judged /\ Scene(s)[2] = s
    <3>1. Scene(s)[2] = s
      BY ObjectFacts
    <3>2. StateOf(Scene(s)) = World.front[Scene(s)] /\ World.front[Scene(s)] \in Judged
      BY <1>3, KnownOf, Weaken
    <3> QED
      BY <3>1, <3>2
  <2>2. KnownViews(s) = {}
    <3>1. \A u \in ViewIds : front[View(u)] = "Unknown"
      BY <1>3, MadeFacts, ObjectFacts DEF OnlyScene, World
    <3> QED
      BY <3>1 DEF KnownViews
  <2>3. Ask("CloseScene", Scene(s)) /\ front' = [front EXCEPT ![Scene(s)] = "Closing"]
    BY <1>1, <2>1, <2>2 DEF RequestCloseScene, Request, Judged
  <2>4. /\ call' # NoCall /\ call'.op = "CloseScene" /\ call'.obj = Scene(s)
        /\ UNCHANGED <<job, toFront, view2scene>>
    BY <2>3, RequestFacts DEF Ops
  <2>5. OnlyScene(World', s, Ending)
    <3>1. OnlyScene(World', s, {"Closing"})
      BY <1>1, <1>3, <2>3, <2>4, WorldChange
    <3> QED
      BY <3>1, Weaken DEF Ending
  <2>6. OnlyScene(World, fe.sceneId, Ending)'
    BY <1>1, <2>5 DEF OnlyScene, Ending
  <2>7. Has'
    BY <1>1, <2>4, <2>6 DEF Has, HasWaiting, Waits
  <2>8. Asked'
    BY <1>1, <2>4 DEF Asked
  <2> QED
    BY <1>1, <2>4, <2>7, <2>8, NoReplyFits DEF Own
<1> QED
  BY <1>1, <1>2, <1>3

(* A request to control what is at work leaves it at work.                 *)
LEMMA SceneRequest ==
  ASSUME Safe, NEW op \in Ops, NEW s, NEW allowed, NEW st \in AtWork,
         Request(op, Scene(s), allowed, st), OnlyScene(World, s, AtWork)
  PROVE  /\ call = NoCall /\ UNCHANGED toFront
         /\ call' # NoCall => call'.op = op /\ call'.obj = Scene(s)
         /\ OnlyScene(World', s, AtWork)
         /\ st \notin Judged /\ Parsed(World, s, AtWork) => Parsed(World', s, AtWork)
<1>1. CASE Ask(op, Scene(s)) /\ front' = [front EXCEPT ![Scene(s)] = st]
  <2>1. /\ call = NoCall /\ call' # NoCall /\ call'.op = op /\ call'.obj = Scene(s)
        /\ UNCHANGED <<job, toFront, view2scene>>
    BY <1>1, RequestFacts
  <2>2. /\ OnlyScene(World', s, {st})
        /\ st \notin Judged /\ Parsed(World, s, AtWork) => Parsed(World', s, {st})
    BY <1>1, <2>1, WorldChange
  <2>3. {st} \subseteq AtWork
    OBVIOUS
  <2> QED
    BY <2>1, <2>2, <2>3, Weaken
<1>2. CASE NotSent(Scene(s)) /\ UNCHANGED front
  <2>1. call = NoCall /\ call' = NoCall /\ UNCHANGED <<job, toFront, view2scene>>
    BY <1>2, RequestFacts
  <2>2. World' = World
    BY <1>2, <2>1 DEF World
  <2> QED
    BY <2>1, <2>2
<1> QED
  BY <1>1, <1>2 DEF Request

LEMMA ViewRequest ==
  ASSUME Safe, NEW op \in Ops, NEW s, NEW v, NEW allowed, NEW st \in AtWork,
         Request(op, View(v), allowed, st), Both(World, s, v, AtWork)
  PROVE  /\ call = NoCall /\ UNCHANGED toFront
         /\ call' # NoCall => call'.op = op /\ call'.obj = View(v)
         /\ Both(World', s, v, AtWork)
<1>1. CASE Ask(op, View(v)) /\ front' = [front EXCEPT ![View(v)] = st]
  <2>1. /\ call = NoCall /\ call' # NoCall /\ call'.op = op /\ call'.obj = View(v)
        /\ UNCHANGED <<job, toFront, view2scene>>
    BY <1>1, RequestFacts
  <2>2. Both(World', s, v, {st})
    BY <1>1, <2>1, WorldChange
  <2>3. {st} \subseteq AtWork
    OBVIOUS
  <2> QED
    BY <2>1, <2>2, <2>3, Weaken
<1>2. CASE NotSent(View(v)) /\ UNCHANGED front
  <2>1. call = NoCall /\ call' = NoCall /\ UNCHANGED <<job, toFront, view2scene>>
    BY <1>2, RequestFacts
  <2>2. World' = World
    BY <1>2, <2>1 DEF World
  <2> QED
    BY <2>1, <2>2
<1> QED
  BY <1>1, <1>2 DEF Request

(* The worker then waits, in the state it is in.                           *)
JobOwned(p) ==
  \/ state \in InParsing /\ OnlyScene(World', fe.sceneId, AtWork)
     /\ (p # "stopping" => Parsed(World', fe.sceneId, AtWork))
     /\ (call' # NoCall => call'.obj = Scene(fe.sceneId))
  \/ state \in InRendering /\ Both(World', fe.sceneId, fe.viewId, AtWork)
     /\ (call' # NoCall => call'.obj = View(fe.viewId))

LEMMA JobWaits ==
  ASSUME IInv, faults = 0, UNCHANGED <<state, fe, toFront>>, call = NoCall,
         NEW p \in {"pausing", "resuming", "stopping"}, pc' = p, JobOwned(p),
         ~fe.pausedAfterFrame,
         call' # NoCall => call'.op = CASE p = "pausing" -> "Pause"
                                        [] p = "resuming" -> "Resume"
                                        [] p = "stopping" -> "Stop"
  PROVE  Own'
<1>1. Asked'
  BY DEF Asked, JobAsked, JobOwned
<1>2. /\ OnlyScene(World, fe.sceneId, AtWork)' <=> OnlyScene(World', fe.sceneId, AtWork)
      /\ Parsed(World, fe.sceneId, AtWork)' <=> Parsed(World', fe.sceneId, AtWork)
      /\ Both(World, fe.sceneId, fe.viewId, AtWork)' <=> Both(World', fe.sceneId, fe.viewId, AtWork)
  BY DEF OnlyScene, Parsed, Told, Both, NoVerdict, AtWork
<1>3. p # "stopping" => HasIn(state, fe, World)'
  BY <1>2 DEF HasIn, JobOwned, InParsing, InRendering, Empty
<1>4. HasWaiting'
  BY <1>2, <1>3 DEF HasWaiting, JobOwned, InParsing, InRendering
<1>5. Has'
  BY <1>4 DEF Has, Waits
<1> QED
  BY <1>1, <1>5, NoReplyFits DEF Own

LEMMA ParserAtWork ==
  ASSUME SessionInv, Own, pc \in Elsewhere, state \in InParsing
  PROVE  /\ Safe /\ IInv /\ Parsed(World, fe.sceneId, AtWork)
         /\ OnlyScene(World, fe.sceneId, AtWork) /\ ~fe.pausedAfterFrame
BY Anywhere, Weaken DEF SessionInv, IInv, Own, HasIn, InParsing

LEMMA RenderAtWork ==
  ASSUME SessionInv, Own, pc \in Elsewhere, state \in InRendering, ~fe.pausedAfterFrame
  PROVE  Safe /\ IInv /\ Both(World, fe.sceneId, fe.viewId, AtWork)
BY Anywhere DEF SessionInv, IInv, Own, HasIn

LEMMA StopJobOwn == ASSUME SessionInv, Own, faults = 0, StopJob PROVE Own'
<1>1. pc \in Elsewhere /\ UNCHANGED <<state, fe>> /\ pc' = "stopping"
  BY DEF StopJob, Elsewhere, Places
<1>2. CASE state \in InParsing /\ RequestStopParser(Scene(fe.sceneId))
  <2>1. Request("Stop", Scene(fe.sceneId), {"Working", "Paused"}, "Stopping")
    BY <1>2 DEF RequestStopParser
  <2>2. /\ call = NoCall /\ UNCHANGED toFront
        /\ call' # NoCall => call'.op = "Stop" /\ call'.obj = Scene(fe.sceneId)
        /\ OnlyScene(World', fe.sceneId, AtWork)
    BY <1>1, <1>2, <2>1, SceneRequest, ParserAtWork DEF Ops, AtWork
  <2> QED
    BY <1>1, <1>2, <2>2, JobWaits, ParserAtWork DEF JobOwned
<1>3. CASE /\ state \in InRendering /\ ~fe.pausedAfterFrame
           /\ RequestStopRender(View(fe.viewId))
  <2>1. Request("Stop", View(fe.viewId), {"Working", "Paused"}, "Stopping")
    BY <1>3 DEF RequestStopRender
  <2>2. /\ call = NoCall /\ UNCHANGED toFront
        /\ call' # NoCall => call'.op = "Stop" /\ call'.obj = View(fe.viewId)
        /\ Both(World', fe.sceneId, fe.viewId, AtWork)
    BY <1>1, <1>3, <2>1, ViewRequest, RenderAtWork DEF Ops, AtWork
  <2> QED
    BY <1>1, <1>3, <2>2, JobWaits, RenderAtWork DEF JobOwned
<1> QED
  BY <1>2, <1>3 DEF StopJob, InParsing, InRendering

LEMMA PauseRequestedOwn ==
  ASSUME SessionInv, Own, faults = 0, PauseRequested PROVE Own'
<1>1. pc \in Elsewhere
  BY DEF PauseRequested, Elsewhere
<1>2. CASE state \notin {"Parsing", "Rendering"}
  BY <1>2, PauseNotedRests, LocalOwn DEF SessionInv, Own, Rests
<1>3. CASE /\ state = "Parsing" /\ RequestPauseParser(Scene(fe.sceneId))
           /\ UNCHANGED <<state, fe>> /\ pc' = "pausing"
  <2>1. Request("Pause", Scene(fe.sceneId), {"Working"}, "Working") /\ state \in InParsing
    BY <1>3 DEF RequestPauseParser, InParsing
  <2>2. /\ call = NoCall /\ UNCHANGED toFront
        /\ call' # NoCall => call'.op = "Pause" /\ call'.obj = Scene(fe.sceneId)
        /\ OnlyScene(World', fe.sceneId, AtWork) /\ Parsed(World', fe.sceneId, AtWork)
    BY <1>1, <2>1, SceneRequest, ParserAtWork DEF Ops, AtWork, Judged
  <2> QED
    BY <1>1, <1>3, <2>1, <2>2, JobWaits, ParserAtWork DEF JobOwned
<1>4. CASE /\ state = "Rendering" /\ RequestPauseRender(View(fe.viewId))
           /\ UNCHANGED <<state, fe>> /\ pc' = "pausing"
  <2>1. /\ Request("Pause", View(fe.viewId), {"Working"}, "Working") /\ state \in InRendering
        /\ ~fe.pausedAfterFrame
    BY <1>1, <1>4, Anywhere DEF RequestPauseRender, InRendering, SessionInv, Own, HasIn
  <2>2. /\ call = NoCall /\ UNCHANGED toFront
        /\ call' # NoCall => call'.op = "Pause" /\ call'.obj = View(fe.viewId)
        /\ Both(World', fe.sceneId, fe.viewId, AtWork)
    BY <1>1, <2>1, ViewRequest, RenderAtWork DEF Ops, AtWork
  <2> QED
    BY <1>1, <1>4, <2>1, <2>2, JobWaits, RenderAtWork DEF JobOwned
<1> QED
  BY <1>2, <1>3, <1>4 DEF PauseRequested, CarryOut

LEMMA ResumeRequestedOwn ==
  ASSUME SessionInv, Own, faults = 0, ResumeRequested PROVE Own'
<1>1. pc \in Elsewhere
  BY DEF ResumeRequested, Elsewhere
<1>2. CASE pc' # "resuming"
  BY <1>2, WentOnRests, LocalOwn DEF SessionInv, Own, Rests
<1>3. CASE /\ state = "PausedParsing" /\ RequestResumeParser(Scene(fe.sceneId))
           /\ UNCHANGED <<state, fe>> /\ pc' = "resuming"
  <2>1. Request("Resume", Scene(fe.sceneId), {"Paused"}, "Paused") /\ state \in InParsing
    BY <1>3 DEF RequestResumeParser, InParsing
  <2>2. /\ call = NoCall /\ UNCHANGED toFront
        /\ call' # NoCall => call'.op = "Resume" /\ call'.obj = Scene(fe.sceneId)
        /\ OnlyScene(World', fe.sceneId, AtWork) /\ Parsed(World', fe.sceneId, AtWork)
    BY <1>1, <2>1, SceneRequest, ParserAtWork DEF Ops, AtWork, Judged
  <2> QED
    BY <1>1, <1>3, <2>1, <2>2, JobWaits, ParserAtWork DEF JobOwned
<1>4. CASE /\ state = "PausedRendering" /\ ~fe.pausedAfterFrame
           /\ RequestResumeRender(View(fe.viewId)) /\ UNCHANGED <<state, fe>>
           /\ pc' = "resuming"
  <2>1. Request("Resume", View(fe.viewId), {"Paused"}, "Paused") /\ state \in InRendering
    BY <1>4 DEF RequestResumeRender, InRendering
  <2>2. /\ call = NoCall /\ UNCHANGED toFront
        /\ call' # NoCall => call'.op = "Resume" /\ call'.obj = View(fe.viewId)
        /\ Both(World', fe.sceneId, fe.viewId, AtWork)
    BY <1>1, <1>4, <2>1, ViewRequest, RenderAtWork DEF Ops, AtWork
  <2> QED
    BY <1>1, <1>4, <2>1, <2>2, JobWaits, RenderAtWork DEF JobOwned
<1>5. pc' = "resuming" => ~Answer(Taken)
  BY DEF Answer
<1> QED
  BY <1>2, <1>3, <1>4, <1>5 DEF ResumeRequested, CarryOut

(* All the worker does but receiving.                                      *)
LEMMA ProcessOwn == ASSUME SessionInv, Own, faults = 0, Process PROVE Own'
<1>1. LocalInv /\ Has /\ IInv
  BY DEF SessionInv, Own
<1>2. Rests => Own'
  BY <1>1, LocalOwn DEF Rests, Own
<1>3. CASE ProcessNothing \/ ProcessStarting \/ ProcessShellout \/ ProcessPreScene
  BY <1>1, <1>2, <1>3, ProcessNothingRests, ProcessStartingRests, ProcessShelloutRests,
     ProcessPreSceneRests
<1>4. CASE ProcessPostScene \/ ProcessStopping \/ ProcessFailed \/ ProcessDone
  BY <1>1, <1>2, <1>4, ProcessPostSceneRests, ProcessStoppingRests, ProcessFailedRests,
     ProcessDoneRests
<1>5. CASE FrameIsClosed \/ RenderIsClosed
  BY <1>1, <1>2, <1>5, FrameIsClosedRests, RenderIsClosedRests
<1> QED
  BY <1>3, <1>4, <1>5, ProcessPreFrameOwn, SceneIsCreatedOwn, ProcessParsingOwn,
     ViewIsCreatedOwn, ProcessRenderingOwn, ProcessPostFrameOwn, ProcessStoppedOwn,
     ViewIsClosedOwn DEF Process

LEMMA ControlOwn ==
  ASSUME SessionInv, Own, faults = 0,
         \/ StopNow \/ StopShellout \/ StopJob \/ JobIsStopped \/ NothingToDeliver
         \/ PauseRequested \/ JobIsPaused \/ ResumeRequested \/ JobIsResumed \/ NothingAsked
  PROVE  Own'
<1>1. LocalInv /\ Has /\ IInv
  BY DEF SessionInv, Own
<1>2. Rests => Own'
  BY <1>1, LocalOwn DEF Rests, Own
<1> QED
  BY <1>1, <1>2, StopNowRests, StopShelloutRests, JobIsStoppedRests, NothingToDeliverRests,
     JobIsPausedRests, NothingAskedRests, StopJobOwn, PauseRequestedOwn, ResumeRequestedOwn

-----------------------------------------------------------------------------
(* A verdict arrives.                                                      *)
LEMMA OneLess ==
  ASSUME QueuesInv, toFront # <<>>, toFront' = Tail(toFront)
  PROVE  /\ \A k \in 1..Len(toFront') :
              k + 1 \in 1..Len(toFront) /\ toFront'[k] = toFront[k + 1] /\ k + 1 # 1
         /\ Head(toFront) = toFront[1] /\ 1 \in 1..Len(toFront)
<1>1. toFront \in Seq(Messages)
  BY QueueTypes
<1>2. /\ Len(toFront') = Len(toFront) - 1 /\ Len(toFront) \in Nat /\ Len(toFront) >= 1
      /\ \A i \in 1..Len(toFront') : toFront'[i] = toFront[i + 1]
      /\ Head(toFront) = toFront[1] /\ 1 \in 1..Len(toFront)
  BY <1>1, TailFacts
<1> QED
  BY <1>2

LEMMA QuietAfter ==
  ASSUME QueuesInv, toFront # <<>>, toFront' = Tail(toFront), NEW o, NoVerdict(World, o)
  PROVE  NoVerdict(World', o)
BY OneLess DEF NoVerdict, World

LEMMA ToldAfter ==
  ASSUME Safe, VerdictArrives, NEW s \in SceneIds, front[Scene(s)] # "Unknown", Told(World, s)
  PROVE  /\ Told(World', s)
         /\ front[Scene(s)] \in Judged => front'[Scene(s)] = front[Scene(s)]
         /\ front'[Scene(s)] \in Judged \cup {front[Scene(s)]}
<1> DEFINE o == Scene(s)
           m == Head(toFront)
<1>1. /\ toFront # <<>> /\ toFront' = Tail(toFront) /\ QueuesInv /\ job' = job
      /\ m.kind = "verdict" /\ o \in Objects /\ DOMAIN front = Objects
  BY MadeFacts DEF VerdictArrives, Take, Safe, FrontInv, FrontMaps
<1>2. /\ job[o] # "none"
      /\ \A k \in 1..Len(toFront) : IsVerdict(toFront[k], o) =>
           /\ job[o] \in {"done", "failed"} /\ front[o] \notin Judged
           /\ \A j \in 1..Len(toFront) : IsVerdict(toFront[j], o) => j = k
      /\ front[o] \in Judged => job[o] \in {"done", "failed"}
  BY DEF Told, World
<1>3. /\ \A k \in 1..Len(toFront') :
           k + 1 \in 1..Len(toFront) /\ toFront'[k] = toFront[k + 1] /\ k + 1 # 1
      /\ m = toFront[1] /\ 1 \in 1..Len(toFront)
  BY <1>1, OneLess
<1> SUFFICES
      /\ job'[o] # "none"
      /\ \A k \in 1..Len(toFront') : IsVerdict(toFront'[k], o) =>
           /\ job'[o] \in {"done", "failed"} /\ front'[o] \notin Judged
           /\ \A j \in 1..Len(toFront') : IsVerdict(toFront'[j], o) => j = k
      /\ front'[o] \in Judged => job'[o] \in {"done", "failed"}
      /\ front[o] \in Judged => front'[o] = front[o]
      /\ front'[o] \in Judged \cup {front[o]}
  BY DEF Told, World
<1>4. CASE m.obj = o
  <2>1. front'[o] \in Judged /\ IsVerdict(m, o)
    BY <1>1, <1>4 DEF VerdictArrives, StateOf, IsVerdict, Judged
  <2>2. \A k \in 1..Len(toFront') : ~IsVerdict(toFront'[k], o)
    BY <1>2, <1>3, <2>1
  <2> QED
    BY <1>1, <1>2, <1>3, <2>1, <2>2
<1>5. CASE m.obj # o
  <2>1. front'[o] = front[o]
    BY <1>1, <1>5 DEF VerdictArrives
  <2>2. \A j, k \in 1..Len(toFront') : j + 1 = k + 1 => j = k
    OBVIOUS
  <2> QED
    BY <1>1, <1>2, <1>3, <2>1, <2>2
<1> QED
  BY <1>4, <1>5

LEMMA VerdictWorld ==
  ASSUME Safe, VerdictArrives
  PROVE  /\ Nothing(World) => Nothing(World')
         /\ \A s, S : Judged \subseteq S /\ "Unknown" \notin S =>
              /\ OnlyScene(World, s, S) => OnlyScene(World', s, S)
              /\ Parsed(World, s, S) => Parsed(World', s, S)
         /\ \A s : Parsed(World, s, {"Finished"}) => Parsed(World', s, {"Finished"})
         /\ \A s, v, V : Judged \subseteq V /\ "Unknown" \notin V =>
              (Both(World, s, v, V) => Both(World', s, v, V))
<1> DEFINE m == Head(toFront)
<1>1. /\ toFront # <<>> /\ toFront' = Tail(toFront) /\ QueuesInv
      /\ UNCHANGED <<job, view2scene>> /\ m.kind = "verdict" /\ DOMAIN front = Objects
  BY DEF VerdictArrives, Take, Safe, FrontInv, FrontMaps
<1>2. /\ World.front = front /\ World'.front = front' /\ World'.job = World.job
      /\ World'.view2scene = World.view2scene /\ World.toFront = toFront
  BY <1>1 DEF World
<1>3. \A o \in Objects : /\ front[o] = "Unknown" <=> front'[o] = "Unknown"
                         /\ front'[o] # front[o] => front'[o] \in Judged /\ m.obj = o
  BY <1>1 DEF VerdictArrives, StateOf, Judged
<1>4. Nothing(World) => Nothing(World')
  BY <1>2, <1>3 DEF Nothing
<1>5. ASSUME NEW s, NEW S, Judged \subseteq S, OnlyScene(World, s, S)
      PROVE  OnlyScene(World', s, S)
  BY <1>2, <1>3, <1>5, MadeFacts DEF OnlyScene
<1>6. ASSUME NEW s, NEW S, "Unknown" \notin S, Parsed(World, s, S)
      PROVE  /\ Judged \subseteq S => Parsed(World', s, S)
             /\ S = {"Finished"} => Parsed(World', s, S)
  <2>1. s \in SceneIds /\ front[Scene(s)] # "Unknown" /\ Told(World, s) /\ front[Scene(s)] \in S
        /\ Scene(s) \in Objects /\ OnlyScene(World, s, S)
    BY <1>2, <1>6, MadeFacts DEF Parsed, OnlyScene
  <2>2. /\ Told(World', s)
        /\ front[Scene(s)] \in Judged => front'[Scene(s)] = front[Scene(s)]
        /\ front'[Scene(s)] \in Judged \cup {front[Scene(s)]}
    BY <2>1, ToldAfter
  <2>3. S = {"Finished"} => OnlyScene(World', s, S)
    BY <1>2, <1>3, <2>1, <2>2 DEF OnlyScene, Judged
  <2> QED
    BY <1>5, <2>1, <2>2, <2>3 DEF Parsed
<1>7. ASSUME NEW s, NEW v, NEW V, Judged \subseteq V, Both(World, s, v, V)
      PROVE  Both(World', s, v, V)
  <2>1. s \in SceneIds /\ v \in ViewIds /\ Scene(s) \in Objects /\ View(v) \in Objects
        /\ NoVerdict(World, Scene(s))
    BY <1>7, MadeFacts DEF Both
  <2>2. NoVerdict(World', Scene(s))
    BY <1>1, <2>1, QuietAfter
  <2>3. m.obj # Scene(s)
    <3>1. m = toFront[1] /\ 1 \in 1..Len(toFront)
      BY <1>1, OneLess
    <3> QED
      BY <1>1, <1>2, <2>1, <3>1 DEF NoVerdict, IsVerdict
  <2>4. front'[Scene(s)] = front[Scene(s)]
    BY <1>3, <2>1, <2>3
  <2> QED
    BY <1>2, <1>3, <1>7, <2>1, <2>2, <2>4 DEF Both
<1> QED
  BY <1>4, <1>5, <1>6, <1>7

LEMMA Primes ==
  /\ Nothing(World)' <=> Nothing(World')
  /\ \A o : NoVerdict(World, o)' <=> NoVerdict(World', o)
  /\ \A s, S : /\ OnlyScene(World, s, S)' <=> OnlyScene(World', s, S)
               /\ Parsed(World, s, S)' <=> Parsed(World', s, S)
  /\ \A s, v, V : Both(World, s, v, V)' <=> Both(World', s, v, V)
BY DEF Nothing, OnlyScene, Parsed, Told, Both, NoVerdict, Judged

LEMMA PrimesOwn ==
  ASSUME UNCHANGED <<state, fe>>
  PROVE  /\ HasIn(state, fe, World)' <=> HasIn(state, fe, World')
         /\ OnlyScene(World, fe.sceneId, Ending)' <=> OnlyScene(World', fe.sceneId, Ending)
         /\ OnlyScene(World, fe.sceneId, Judged)' <=> OnlyScene(World', fe.sceneId, Judged)
         /\ OnlyScene(World, fe.sceneId, AtWork)' <=> OnlyScene(World', fe.sceneId, AtWork)
         /\ Parsed(World, fe.sceneId, {"Finished"})' <=> Parsed(World', fe.sceneId, {"Finished"})
         /\ Both(World, fe.sceneId, fe.viewId, Closable)'
              <=> Both(World', fe.sceneId, fe.viewId, Closable)
         /\ Both(World, fe.sceneId, fe.viewId, AtWork)'
              <=> Both(World', fe.sceneId, fe.viewId, AtWork)
         /\ \A v \in ViewIds : Both(World, fe.sceneId, v, {"Created"})'
              <=> Both(World', fe.sceneId, v, {"Created"})
         /\ \A s \in SceneIds : Parsed(World, s, {"Created"})' <=> Parsed(World', s, {"Created"})
<1>1. HasIn(state, fe, World)' <=> HasIn(state, fe, World')
  BY DEF HasIn, Pausing, Stoppable, Stoppings, Nothing, OnlyScene, Both, Parsed, Told, NoVerdict
<1> QED
  BY <1>1 DEF OnlyScene, Both, Parsed, Told, NoVerdict, Ending, Judged, AtWork, Closable

LEMMA VerdictIn ==
  ASSUME Safe, VerdictArrives, NEW st, NEW m, HasIn(st, m, World)
  PROVE  HasIn(st, m, World')
<1>1. \A S \in {AtWork, Judged, Closable} : Judged \subseteq S /\ "Unknown" \notin S
  BY DEF AtWork, Judged, Closable
<1>2. Nothing(World) => Nothing(World')
  BY VerdictWorld
<1>3. \A S \in {AtWork, Judged, Closable} :
        /\ OnlyScene(World, m.sceneId, S) => OnlyScene(World', m.sceneId, S)
        /\ Parsed(World, m.sceneId, S) => Parsed(World', m.sceneId, S)
        /\ Both(World, m.sceneId, m.viewId, S) => Both(World', m.sceneId, m.viewId, S)
  BY <1>1, VerdictWorld
<1> QED
  BY <1>2, <1>3 DEF HasIn, Pausing, Stoppable, Stoppings

LEMMA VerdictFits ==
  ASSUME Safe, ReplyFits, VerdictArrives
  PROVE  ReplyFits'
<1>1. /\ toFront # <<>> /\ toFront' = Tail(toFront) /\ QueuesInv
      /\ UNCHANGED <<job, view2scene, call, toBack>>
  BY DEF VerdictArrives, Take, Safe
<1>2. \A k \in 1..Len(toFront') : k + 1 \in 1..Len(toFront) /\ toFront'[k] = toFront[k + 1]
  BY <1>1, OneLess
<1>3. ASSUME NEW m \in Replies, Sent(m)' PROVE Fitting(m)'
  <2>1. Sent(m)
    BY <1>2, <1>3 DEF Sent
  <2>2. Fitting(m)
    BY <2>1 DEF ReplyFits
  <2>3. NoVerdict(World, m.obj) => NoVerdict(World, m.obj)'
    <3>1. NoVerdict(World, m.obj) => NoVerdict(World', m.obj)
      BY <1>1, QuietAfter
    <3> QED
      BY <3>1, Primes
  <2>4. New(m.obj) => New(m.obj)'
    BY <1>1, <2>3 DEF New
  <2> QED
    BY <1>1, <2>2, <2>4 DEF Fitting
<1> QED
  BY <1>3 DEF ReplyFits

(* A verdict, between the steps of the worker or while it waits.           *)
LEMMA VerdictOwn ==
  ASSUME SessionInv, Own, faults = 0, VerdictArrives, UNCHANGED <<state, fe>>,
         \/ pc \notin Waits /\ pc' \notin Waits
         \/ pc \in Waits /\ pc' = pc /\ call # NoCall
  PROVE  Own'
<1>1. Safe /\ LocalInv /\ IInv /\ Has /\ Asked /\ ReplyFits
  BY DEF SessionInv, IInv, Own
<1>2. UNCHANGED <<call, result>>
  BY DEF VerdictArrives
<1>3. ReplyFits'
  BY <1>1, VerdictFits
<1>4. HasIn(state, fe, World) => HasIn(state, fe, World)'
  BY <1>1, VerdictIn, PrimesOwn
<1>5. CASE pc \notin Waits /\ pc' \notin Waits
  <2>1. Has'
    BY <1>1, <1>4, <1>5, PlacesAre DEF Has, HasWaiting, Waits
  <2>2. call = NoCall
    BY <1>1, <1>5 DEF LocalInv, TypeInv
  <2> QED
    BY <1>2, <1>3, <2>1, <2>2 DEF Own, Asked
<1>6. CASE pc \in Waits /\ pc' = pc /\ call # NoCall
  <2>1. Asked'
    BY <1>1, <1>2, <1>6 DEF Asked, JobAsked
  <2>2. /\ Nothing(World) => Nothing(World')
        /\ Parsed(World, fe.sceneId, {"Finished"}) => Parsed(World', fe.sceneId, {"Finished"})
    BY <1>1, VerdictWorld
  <2>3. \A S \in {AtWork, Ending, Closable} : Judged \subseteq S /\ "Unknown" \notin S
    BY DEF AtWork, Judged, Closable, Ending
  <2>4. /\ OnlyScene(World, fe.sceneId, Ending) => OnlyScene(World', fe.sceneId, Ending)
        /\ OnlyScene(World, fe.sceneId, AtWork) => OnlyScene(World', fe.sceneId, AtWork)
        /\ Both(World, fe.sceneId, fe.viewId, Closable)
             => Both(World', fe.sceneId, fe.viewId, Closable)
        /\ Both(World, fe.sceneId, fe.viewId, AtWork)
             => Both(World', fe.sceneId, fe.viewId, AtWork)
    BY <1>1, <2>3, VerdictWorld
  <2>5. call # NoCall /\ call' # NoCall
    BY <1>2, <1>6
  <2>6. HasWaiting
    BY <1>1 DEF Has
  <2>7. HasWaiting'
    <3>1. pc \in Waits => ~fe.pausedAfterFrame
      BY <2>6 DEF HasWaiting
    <3>2. pc = "sceneCreated" => ~(call = NoCall /\ result.ok)' /\ Nothing(World)'
      BY <1>6, <2>2, <2>5, <2>6, Primes DEF HasWaiting, Created
    <3>3. pc = "viewCreated" =>
            ~(call = NoCall /\ result.ok)' /\ Parsed(World, fe.sceneId, {"Finished"})'
      BY <1>6, <2>2, <2>5, <2>6, PrimesOwn DEF HasWaiting, Created
    <3>4. pc = "viewClosed" => call' # NoCall /\ Both(World, fe.sceneId, fe.viewId, Closable)'
      BY <1>6, <2>4, <2>5, <2>6, PrimesOwn DEF HasWaiting
    <3>5. pc = "sceneClosed" => call' # NoCall /\ OnlyScene(World, fe.sceneId, Ending)'
      BY <1>6, <2>4, <2>5, <2>6, PrimesOwn DEF HasWaiting
    <3>6. pc \in {"pausing", "resuming"} => HasIn(state, fe, World)'
      BY <1>4, <2>6 DEF HasWaiting
    <3>7. pc = "stopping" =>
            \/ state \in InParsing /\ OnlyScene(World, fe.sceneId, AtWork)'
            \/ state \in InRendering /\ Both(World, fe.sceneId, fe.viewId, AtWork)'
      BY <2>4, <2>6, PrimesOwn DEF HasWaiting
    <3> QED
      BY <1>6, <3>1, <3>2, <3>3, <3>4, <3>5, <3>6, <3>7 DEF HasWaiting
  <2> QED
    BY <1>3, <1>6, <2>1, <2>7 DEF Own, Has
<1> QED
  BY <1>5, <1>6

-----------------------------------------------------------------------------
(* A reply arrives.                                                        *)
ReplyTaken ==
  /\ toFront # <<>> /\ toFront' = Tail(toFront) /\ Head(toFront).kind = "reply"
  /\ UNCHANGED <<job, view2scene>>

LEMMA ToldShift ==
  ASSUME Safe, ReplyTaken, NEW s, Told(World, s),
         front'[Scene(s)] \in Judged => front'[Scene(s)] = front[Scene(s)]
  PROVE  Told(World', s)
<1> DEFINE o == Scene(s)
<1>1. \A k \in 1..Len(toFront') : k + 1 \in 1..Len(toFront) /\ toFront'[k] = toFront[k + 1]
  BY OneLess DEF ReplyTaken, Safe
<1>2. \A j, k \in 1..Len(toFront') : j + 1 = k + 1 => j = k
  OBVIOUS
<1>3. /\ job[o] # "none"
      /\ \A k \in 1..Len(toFront) : IsVerdict(toFront[k], o) =>
           /\ job[o] \in {"done", "failed"} /\ front[o] \notin Judged
           /\ \A j \in 1..Len(toFront) : IsVerdict(toFront[j], o) => j = k
      /\ front[o] \in Judged => job[o] \in {"done", "failed"}
  BY DEF Told, World
<1>4. /\ job'[o] # "none"
      /\ \A k \in 1..Len(toFront') : IsVerdict(toFront'[k], o) =>
           /\ job'[o] \in {"done", "failed"} /\ front'[o] \notin Judged
           /\ \A j \in 1..Len(toFront') : IsVerdict(toFront'[j], o) => j = k
      /\ front'[o] \in Judged => job'[o] \in {"done", "failed"}
  BY <1>1, <1>2, <1>3 DEF ReplyTaken
<1> QED
  BY <1>4 DEF Told, World

LEMMA ReplyChange ==
  ASSUME Safe, ReplyTaken, NEW s, NEW v, NEW st, NEW S
  PROVE  /\ \A o : NoVerdict(World, o) => NoVerdict(World', o)
         /\ front' = front =>
              /\ Nothing(World) => Nothing(World')
              /\ OnlyScene(World, s, S) => OnlyScene(World', s, S)
              /\ Parsed(World, s, S) => Parsed(World', s, S)
              /\ Both(World, s, v, S) => Both(World', s, v, S)
         /\ front' = [front EXCEPT ![Scene(s)] = st] =>
              /\ OnlyScene(World, s, S) => OnlyScene(World', s, {st})
              /\ Parsed(World, s, S) /\ st \notin Judged => Parsed(World', s, {st})
         /\ front' = [front EXCEPT ![View(v)] = st] =>
              (Both(World, s, v, S) => Both(World', s, v, {st}))
<1>1. /\ World.front = front /\ World'.front = front' /\ World'.job = World.job
      /\ World'.view2scene = World.view2scene
  BY DEF World, ReplyTaken
<1>2. DOMAIN front = Objects /\ QueuesInv
  BY DEF Safe, FrontInv, FrontMaps
<1>3. \A o : NoVerdict(World, o) => NoVerdict(World', o)
  BY <1>2, QuietAfter DEF ReplyTaken
<1>4. ASSUME front' = front
      PROVE  /\ Nothing(World) => Nothing(World')
             /\ OnlyScene(World, s, S) => OnlyScene(World', s, S)
             /\ Parsed(World, s, S) => Parsed(World', s, S)
             /\ Both(World, s, v, S) => Both(World', s, v, S)
  <2>1. Told(World, s) => Told(World', s)
    BY <1>4, ToldShift
  <2>2. /\ Nothing(World) => Nothing(World')
        /\ OnlyScene(World, s, S) => OnlyScene(World', s, S)
    BY <1>1, <1>4 DEF Nothing, OnlyScene
  <2>3. Both(World, s, v, S) => Both(World', s, v, S)
    BY <1>1, <1>3, <1>4 DEF Both
  <2> QED
    BY <2>1, <2>2, <2>3 DEF Parsed
<1>5. ASSUME front' = [front EXCEPT ![Scene(s)] = st], OnlyScene(World, s, S)
      PROVE  /\ OnlyScene(World', s, {st})
             /\ Parsed(World, s, S) /\ st \notin Judged => Parsed(World', s, {st})
  <2>1. s \in SceneIds /\ Scene(s) \in Objects
    BY <1>5, MadeFacts DEF OnlyScene
  <2>2. front'[Scene(s)] = st
    BY <1>2, <1>5, <2>1
  <2>3. OnlyScene(World', s, {st})
    BY <1>1, <1>2, <1>5, <2>1 DEF OnlyScene
  <2>4. Told(World, s) /\ st \notin Judged => Told(World', s)
    BY <2>2, ToldShift
  <2> QED
    BY <2>3, <2>4 DEF Parsed
<1>6. ASSUME front' = [front EXCEPT ![View(v)] = st], Both(World, s, v, S)
      PROVE  Both(World', s, v, {st})
  <2>1. s \in SceneIds /\ v \in ViewIds /\ Scene(s) \in Objects /\ View(v) \in Objects
        /\ Scene(s) # View(v)
    BY <1>6, MadeFacts, ObjectFacts DEF Both
  <2> QED
    BY <1>1, <1>2, <1>3, <1>6, <2>1 DEF Both
<1>7. Parsed(World, s, S) => OnlyScene(World, s, S)
  BY DEF Parsed
<1> QED
  BY <1>3, <1>4, <1>5, <1>6, <1>7

Answering ==
  /\ SessionInv /\ Own /\ faults = 0 /\ faults' = 0
  /\ ReplyArrives /\ UNCHANGED <<pc, state, fe>>

LEMMA AnswerFacts ==
  ASSUME Answering
  PROVE  /\ Safe /\ IInv /\ Has /\ HasWaiting /\ Asked /\ ReplyTaken /\ pc \in Waits
         /\ call # NoCall /\ Answers(Head(toFront), call) /\ Fitting(Head(toFront))
         /\ NoReply' /\ DOMAIN front = Objects /\ LocalInv /\ ~fe.pausedAfterFrame
<1> DEFINE m == Head(toFront)
<1>1. Safe /\ IInv /\ Has /\ Asked /\ HasWaiting /\ ReplyFits /\ LocalInv /\ MatchInv
  BY DEF Answering, SessionInv, IInv, Own, Has
<1>2. /\ call # NoCall /\ toFront # <<>> /\ m.kind = "reply" /\ stale = 0 /\ Answers(m, call)
  BY <1>1, ReplyFacts DEF Answering
<1>3. Take("reply")
  BY DEF Answering, ReplyArrives, SceneCreated, ViewCreated, CreateRefused, SceneClosed, ViewClosed,
     PauseReplied, ResumeReplied, StopReplied, Controlled, Replied
<1>4. ReplyTaken
  BY <1>2, <1>3 DEF Take, ReplyTaken
<1>5. m \in Replies /\ Sent(m) /\ NoReply'
  BY <1>1, <1>2, <1>4, TheReply DEF Answers, ReplyTaken
<1>6. Fitting(m)
  BY <1>1, <1>5 DEF ReplyFits
<1>7. pc \in Waits
  BY <1>1, <1>2 DEF LocalInv, TypeInv
<1>8. ~fe.pausedAfterFrame
  BY <1>1, <1>7 DEF HasWaiting
<1> QED
  BY <1>1, <1>2, <1>4, <1>5, <1>6, <1>7, <1>8 DEF Safe, FrontInv, FrontMaps

LEMMA AnswerOwn ==
  ASSUME Answering, call' = NoCall, HasWaiting'
  PROVE  Own'
<1>1. pc' \in Waits /\ NoReply'
  BY AnswerFacts DEF Answering
<1>2. Has' /\ Asked'
  BY <1>1 DEF Has, Asked
<1>3. ReplyFits'
  BY <1>1 DEF ReplyFits, NoReply, Sent
<1> QED
  BY <1>2, <1>3 DEF Own

(* Which wait it ends.                                                     *)
LEMMA WhichWait ==
  ASSUME Asked, call # NoCall, pc \in Waits
  PROVE  /\ call.op = "CreateScene" => pc = "sceneCreated"
         /\ call.op = "CreateView" => pc = "viewCreated" /\ call.obj = Scene(fe.sceneId)
         /\ call.op = "CloseView" => pc = "viewClosed" /\ call.obj = View(fe.viewId)
         /\ call.op = "CloseScene" => pc = "sceneClosed" /\ call.obj = Scene(fe.sceneId)
         /\ call.op = "Pause" => pc = "pausing" /\ JobAsked
         /\ call.op = "Resume" => pc = "resuming" /\ JobAsked
         /\ call.op = "Stop" => pc = "stopping" /\ JobAsked
BY DEF Asked, Waits

LEMMA NoFaultNow == ASSUME faults = 0, faults' = 0 PROVE ~Fault
BY DEF Fault

LEMMA SceneCreatedOwn == ASSUME Answering, SceneCreated PROVE Own'
<1> DEFINE o == Head(toFront).obj
<1>1. /\ Safe /\ HasWaiting /\ ReplyTaken /\ pc \in Waits /\ call # NoCall
      /\ Answers(Head(toFront), call) /\ Fitting(Head(toFront)) /\ DOMAIN front = Objects
      /\ ~fe.pausedAfterFrame /\ Asked
  BY AnswerFacts
<1>2. /\ front' = [front EXCEPT ![o] = "Created"] /\ call' = NoCall
      /\ result' = [ok |-> TRUE, obj |-> o]
      /\ call.op = "CreateScene" /\ Head(toFront).code = "Done"
  BY NoFaultNow DEF SceneCreated, Return, Replied, Answering
<1>3. pc = "sceneCreated" /\ Nothing(World)
  BY <1>1, <1>2, WhichWait DEF HasWaiting, Created
<1>4. PICK s \in SceneIds : o = Scene(s)
  BY <1>1, <1>2 DEF Answers, SceneObjs
<1>5. job[o] = "idle" /\ NoVerdict(World, o) /\ o \in Objects
  BY <1>1, <1>2, <1>4, MadeFacts DEF Fitting, New
<1>6. NoVerdict(World', o)
  BY <1>1, <1>5, ReplyChange
<1>7. World.front = front /\ World'.front = front' /\ World'.job = job' /\ job' = job
  BY <1>1 DEF World, ReplyTaken
<1>8. Parsed(World', s, {"Created"})
  <2>1. OnlyScene(World', s, {"Created"})
    BY <1>1, <1>2, <1>3, <1>4, <1>5, <1>7 DEF OnlyScene, Nothing
  <2>2. Told(World', s)
    BY <1>1, <1>2, <1>4, <1>5, <1>6, <1>7 DEF Told, NoVerdict, Judged
  <2> QED
    BY <2>1, <2>2 DEF Parsed
<1>9. Created(Scene(s))' /\ Parsed(World, s, {"Created"})'
  BY <1>2, <1>4, <1>8, PrimesOwn DEF Created, Answering
<1>10. HasWaiting'
  BY <1>1, <1>3, <1>9 DEF HasWaiting, Answering
<1> QED
  BY <1>2, <1>10, AnswerOwn

LEMMA ViewCreatedOwn == ASSUME Answering, ViewCreated PROVE Own'
<1> DEFINE m == Head(toFront)
           o == Head(toFront).obj
           s == fe.sceneId
<1>1. /\ Safe /\ HasWaiting /\ ReplyTaken /\ pc \in Waits /\ call # NoCall
      /\ Answers(m, call) /\ Fitting(m) /\ DOMAIN front = Objects
      /\ ~fe.pausedAfterFrame /\ Asked
  BY AnswerFacts
<1>2. /\ front' = [front EXCEPT ![o] = "Created", ![call.obj] = "Viewing"] /\ call' = NoCall
      /\ result' = [ok |-> TRUE, obj |-> o]
      /\ call.op = "CreateView" /\ m.code = "Done"
  BY NoFaultNow DEF ViewCreated, Return, Replied, Answering
<1>3. pc = "viewCreated" /\ call.obj = Scene(s)
  BY <1>1, <1>2, WhichWait
<1>4. Parsed(World, s, {"Finished"})
  BY <1>1, <1>3 DEF HasWaiting, Created
<1>5. PICK v \in ViewIds : o = View(v)
  BY <1>1, <1>2 DEF Answers, ViewObjs
<1>6. view2scene[v] = s
  BY <1>1, <1>2, <1>3, <1>5, ObjectFacts DEF Fitting
<1>7. /\ World.front = front /\ World'.front = front' /\ World'.job = job' /\ job' = job
      /\ World.job = job /\ World'.view2scene = view2scene
  BY <1>1 DEF World, ReplyTaken
<1>8. /\ s \in SceneIds /\ front[Scene(s)] = "Finished" /\ Told(World, s)
      /\ \A p \in Objects : p # Scene(s) => front[p] = "Unknown"
  BY <1>4, <1>7 DEF Parsed, OnlyScene
<1>9. /\ Scene(s) \in Objects /\ o \in Objects /\ o # Scene(s)
  BY <1>5, <1>8, MadeFacts, ObjectFacts
<1>10. job[Scene(s)] = "done"
  <2>1. s \in DoneScenes
    BY <1>1, <1>8 DEF Safe, FrontInv, FrontMaps
  <2> QED
    BY <1>7, <1>8, <2>1 DEF DoneScenes, Told
<1>11. NoVerdict(World, Scene(s))
  BY <1>7, <1>8 DEF Told, NoVerdict, Judged
<1>12. NoVerdict(World', Scene(s))
  BY <1>1, <1>11, ReplyChange
<1>13. front'[Scene(s)] = "Viewing" /\ front'[o] = "Created"
       /\ \A p \in Objects : p \notin {Scene(s), o} => front'[p] = front[p]
  BY <1>1, <1>2, <1>3, <1>9
<1>14. Both(World', s, v, {"Created"})
  BY <1>5, <1>6, <1>7, <1>8, <1>9, <1>10, <1>12, <1>13 DEF Both
<1>15. Created(View(v))' /\ Both(World, fe.sceneId, v, {"Created"})'
  BY <1>2, <1>5, <1>14, PrimesOwn DEF Created, Answering
<1>16. HasWaiting'
  BY <1>1, <1>3, <1>15 DEF HasWaiting, Answering
<1> QED
  BY <1>2, <1>16, AnswerOwn

LEMMA CreateRefusedOwn == ASSUME Answering, CreateRefused PROVE Own'
<1>1. /\ Safe /\ HasWaiting /\ ReplyTaken /\ pc \in Waits /\ call # NoCall
      /\ ~fe.pausedAfterFrame /\ Asked
  BY AnswerFacts
<1>2. /\ front' = front /\ call' = NoCall /\ ~result'.ok
      /\ call.op \in {"CreateScene", "CreateView"}
  BY DEF CreateRefused, Return, Replied
<1>3. CASE call.op = "CreateScene"
  <2>1. pc = "sceneCreated" /\ Nothing(World)
    BY <1>1, <1>3, WhichWait DEF HasWaiting, Created
  <2>2. Nothing(World)'
    BY <1>1, <1>2, <2>1, ReplyChange, Primes
  <2> QED
    BY <1>1, <1>2, <2>1, <2>2, AnswerOwn DEF HasWaiting, Answering
<1>4. CASE call.op = "CreateView"
  <2>1. pc = "viewCreated" /\ Parsed(World, fe.sceneId, {"Finished"})
    BY <1>1, <1>4, WhichWait DEF HasWaiting, Created
  <2>2. Parsed(World, fe.sceneId, {"Finished"})'
    BY <1>1, <1>2, <2>1, ReplyChange, PrimesOwn DEF Answering
  <2> QED
    BY <1>1, <1>2, <2>1, <2>2, AnswerOwn DEF HasWaiting, Answering
<1> QED
  BY <1>2, <1>3, <1>4

LEMMA SceneClosedOwn == ASSUME Answering, SceneClosed PROVE Own'
<1> DEFINE s == fe.sceneId
<1>1. /\ Safe /\ HasWaiting /\ ReplyTaken /\ pc \in Waits /\ call # NoCall
      /\ Fitting(Head(toFront)) /\ DOMAIN front = Objects
      /\ ~fe.pausedAfterFrame /\ Asked
  BY AnswerFacts
<1>2. call.op = "CloseScene" /\ call' = NoCall
  BY DEF SceneClosed, Replied, Return
<1>3. pc = "sceneClosed" /\ call.obj = Scene(s) /\ OnlyScene(World, s, Ending)
      /\ Head(toFront).code = "Done"
  BY <1>1, <1>2, WhichWait DEF HasWaiting, Fitting, Closes
<1>4. World.front = front /\ World'.front = front'
  BY DEF World
<1>5. front[Scene(s)] # "Unknown" /\ Scene(s) \in Objects
      /\ \A p \in Objects : p # Scene(s) => front[p] = "Unknown"
  BY <1>3, <1>4, MadeFacts DEF OnlyScene, Ending
<1>6. front' = [front EXCEPT ![Scene(s)] = "Unknown"]
  BY <1>3, <1>5 DEF SceneClosed
<1>7. Nothing(World')
  BY <1>1, <1>4, <1>5, <1>6 DEF Nothing
<1>8. Nothing(World)'
  BY <1>7, Primes
<1> QED
  BY <1>1, <1>2, <1>3, <1>8, AnswerOwn DEF HasWaiting, Answering

LEMMA ViewClosedOwn == ASSUME Answering, ViewClosed PROVE Own'
<1> DEFINE s == fe.sceneId
           v == fe.viewId
<1>1. /\ Safe /\ HasWaiting /\ ReplyTaken /\ pc \in Waits /\ call # NoCall
      /\ Fitting(Head(toFront)) /\ DOMAIN front = Objects
      /\ ~fe.pausedAfterFrame /\ Asked
  BY AnswerFacts
<1>2. call.op = "CloseView" /\ call' = NoCall
  BY DEF ViewClosed, Replied, Return
<1>3. pc = "viewClosed" /\ call.obj = View(v) /\ Both(World, s, v, Closable)
      /\ Head(toFront).code = "Done"
  BY <1>1, <1>2, WhichWait DEF HasWaiting, Fitting, Closes
<1>4. World.front = front /\ World'.front = front' /\ World.view2scene = view2scene
  BY DEF World
<1>5. /\ front[View(v)] # "Unknown" /\ Scene(s) \in Objects /\ View(v) \in Objects
      /\ View(v) # Scene(s) /\ s \in SceneIds /\ v \in ViewIds /\ view2scene[v] = s
      /\ View(v)[2] = v
      /\ \A p \in Objects : p \notin {Scene(s), View(v)} => front[p] = "Unknown"
  BY <1>3, <1>4, MadeFacts, ObjectFacts DEF Both, Closable
<1>6. KnownViews(s) = {v}
  BY <1>5, MadeFacts, ObjectFacts DEF KnownViews
<1>7. front' = [front EXCEPT ![View(v)] = "Unknown", ![Scene(s)] = "Finished"]
  BY <1>3, <1>5, <1>6 DEF ViewClosed
<1>8. OnlyScene(World', s, Judged)
  BY <1>1, <1>4, <1>5, <1>7 DEF OnlyScene, Judged
<1>9. OnlyScene(World, fe.sceneId, Judged)'
  BY <1>8, PrimesOwn DEF Answering
<1> QED
  BY <1>1, <1>2, <1>3, <1>9, AnswerOwn DEF HasWaiting, Answering

(* The state of what is controlled is as it was, or is what was asked for. *)
LEMMA ControlledOwn ==
  ASSUME Answering, NEW op \in {"Pause", "Resume", "Stop"},
         NEW next \in {"Paused", "Working", "same"},
         Controlled(op, next), op = "Stop" => next = "same"
  PROVE  Own'
<1>1. /\ Safe /\ HasWaiting /\ ReplyTaken /\ pc \in Waits /\ call # NoCall
      /\ DOMAIN front = Objects /\ ~fe.pausedAfterFrame /\ Asked
  BY AnswerFacts
<1>2. call.op = op /\ call' = NoCall
  BY DEF Controlled, Replied, Return
<1>3. front' = front \/ (next # "same" /\ front' = [front EXCEPT ![call.obj] = next])
  <2>1. [front EXCEPT ![call.obj] = front[call.obj]] = front
    BY <1>1 DEF Safe, FrontInv, FrontMaps
  <2> QED
    BY <2>1 DEF Controlled
<1>4. JobAsked /\ pc \in {"pausing", "resuming", "stopping"} /\ (pc = "stopping" <=> op = "Stop")
  BY <1>1, <1>2, WhichWait
<1>5. next # "same" => next \in AtWork /\ next \notin Judged
  BY DEF AtWork, Judged
<1>6. {next} \subseteq AtWork \/ next = "same"
  BY <1>5
<1>7. CASE state \in InParsing /\ call.obj = Scene(fe.sceneId)
  <2>1. op # "Stop" => Parsed(World, fe.sceneId, AtWork)
    BY <1>1, <1>4, <1>7 DEF HasWaiting, HasIn
  <2>2. OnlyScene(World, fe.sceneId, AtWork)
    BY <1>1, <1>4, <1>7, <2>1 DEF HasWaiting, Parsed, InParsing, InRendering
  <2>3. op # "Stop" => Parsed(World', fe.sceneId, AtWork)
    <3>1. CASE front' = front
      BY <1>1, <2>1, <3>1, ReplyChange
    <3>2. CASE next # "same" /\ front' = [front EXCEPT ![call.obj] = next]
      <4>1. Parsed(World', fe.sceneId, {next})
        BY <1>1, <1>5, <1>7, <2>1, <3>2, ReplyChange
      <4> QED
        BY <1>6, <3>2, <4>1, Weaken
    <3> QED
      BY <1>3, <3>1, <3>2
  <2>4. op = "Stop" => OnlyScene(World', fe.sceneId, AtWork)
    BY <1>1, <1>3, <2>2, ReplyChange
  <2>5. op # "Stop" => HasIn(state, fe, World')
    BY <1>1, <1>7, <2>3 DEF HasIn, InParsing, InRendering, Empty
  <2>6. /\ op # "Stop" => HasIn(state, fe, World)'
        /\ op = "Stop" => OnlyScene(World, fe.sceneId, AtWork)'
    BY <2>4, <2>5, PrimesOwn DEF Answering
  <2> QED
    BY <1>1, <1>2, <1>4, <1>7, <2>6, AnswerOwn DEF HasWaiting, Answering
<1>8. CASE state \in InRendering /\ call.obj = View(fe.viewId)
  <2>1. Both(World, fe.sceneId, fe.viewId, AtWork)
    BY <1>1, <1>4, <1>8 DEF HasWaiting, HasIn, InParsing, InRendering
  <2>2. Both(World', fe.sceneId, fe.viewId, AtWork)
    <3>1. CASE front' = front
      BY <1>1, <2>1, <3>1, ReplyChange
    <3>2. CASE next # "same" /\ front' = [front EXCEPT ![call.obj] = next]
      <4>1. Both(World', fe.sceneId, fe.viewId, {next})
        BY <1>1, <1>8, <2>1, <3>2, ReplyChange
      <4> QED
        BY <1>6, <3>2, <4>1, Weaken
    <3> QED
      BY <1>3, <3>1, <3>2
  <2>3. HasIn(state, fe, World')
    BY <1>1, <1>8, <2>2 DEF HasIn, InParsing, InRendering, Empty
  <2>4. HasIn(state, fe, World)' /\ Both(World, fe.sceneId, fe.viewId, AtWork)'
    BY <2>2, <2>3, PrimesOwn DEF Answering
  <2> QED
    BY <1>1, <1>2, <1>4, <1>8, <2>4, AnswerOwn DEF HasWaiting, Answering
<1> QED
  BY <1>4, <1>7, <1>8 DEF JobAsked

LEMMA WaitForReplyOwn ==
  ASSUME SessionInv, Own, faults = 0, faults' = 0, WaitForReply PROVE Own'
<1>1. call # NoCall /\ UNCHANGED <<state, fe, pc>> /\ (Receive \/ TimedOut)
  BY DEF WaitForReply, Idle
<1>2. pc \in Waits /\ stale = 0
  BY <1>1 DEF SessionInv, LocalInv, TypeInv, IInv, Safe, FrontInv
<1>3. ~TimedOut /\ ~LateReply
  <2>1. ~TimedOut
    BY NoFaultNow DEF TimedOut
  <2>2. ~LateReply
    BY <1>2 DEF LateReply
  <2> QED
    BY <2>1, <2>2
<1>4. CASE VerdictArrives
  BY <1>1, <1>2, <1>4, VerdictOwn
<1>5. CASE ReplyArrives
  <2>1. Answering
    BY <1>1, <1>5 DEF Answering
  <2>2. PauseReplied \/ ResumeReplied \/ StopReplied => Own'
    BY <2>1, ControlledOwn DEF PauseReplied, ResumeReplied, StopReplied
  <2> QED
    BY <1>5, <2>1, <2>2, SceneCreatedOwn, ViewCreatedOwn, CreateRefusedOwn, SceneClosedOwn,
       ViewClosedOwn DEF ReplyArrives
<1> QED
  BY <1>1, <1>3, <1>4, <1>5 DEF Receive

LEMMA DeliverOwn == ASSUME SessionInv, Own, faults = 0, Deliver PROVE Own'
<1>1. stale = 0
  BY DEF SessionInv, IInv, Safe, FrontInv
<1>2. VerdictArrives /\ UNCHANGED <<state, fe>> /\ pc \notin Waits /\ pc' \notin Waits
  BY <1>1 DEF Deliver, LateReply, Idle, Waits
<1> QED
  BY <1>2, VerdictOwn

-----------------------------------------------------------------------------
(* The back end takes a request the front end waits for only if that is    *)
(* the one the worker waits for now.                                       *)
LEMMA AtHead ==
  ASSUME Safe, MatchInv, stale = 0, toBack # <<>>, Head(toBack) \in Asks
  PROVE  /\ call # NoCall /\ Head(toBack) = call /\ NoReply
         /\ \A j \in 1..Len(Tail(toBack)) : Tail(toBack)[j] \notin Asks
<1>1. toBack \in Seq(Requests) /\ toFront \in Seq(Messages) /\ QueuesInv
  BY QueueTypes DEF Safe
<1>2. /\ Head(toBack) = toBack[1] /\ 1 \in 1..Len(toBack) /\ Len(Tail(toBack)) = Len(toBack) - 1
      /\ Len(toBack) \in Nat /\ \A j \in 1..Len(Tail(toBack)) : Tail(toBack)[j] = toBack[j + 1]
  BY <1>1
<1>3. call # NoCall
  BY <1>1, <1>2, OneAtATime
<1>4. AtBack
  BY <1>2, <1>3 DEF MatchInv, OnItsWay
<1>5. Head(toBack) = call /\ NoReply
  BY <1>1, <1>2, <1>4, OneAtATime
<1>6. \A i, j \in 1..Len(toBack) : i # j /\ toBack[i] \in Asks =>
        ~(toBack[j] \in Asks)
  <2>1. Count(toFront, Replies) \in Nat /\ Count(toBack, Asks) \in Nat
    BY <1>1, PlacesFinite
  <2>2. Count(toBack, Asks) < 2
    BY <2>1 DEF MatchInv, Waiting
  <2>3. \A i, j \in 1..Len(toBack) : (i # j /\ toBack[i] \in Asks /\ toBack[j] \in Asks)
          => Count(toBack, Asks) >= 2
    BY <1>1, CountTwo
  <2> QED
    BY <2>1, <2>2, <2>3
<1>7. \A j \in 1..Len(Tail(toBack)) : j + 1 \in 1..Len(toBack) /\ j + 1 # 1
  BY <1>2
<1> QED
  BY <1>2, <1>3, <1>5, <1>6, <1>7

LEMMA HandledAsk ==
  ASSUME Safe, MatchInv, Asked, LocalInv, stale = 0
  PROVE  /\ Handles("Stop") => call # NoCall /\ pc = "stopping"
         /\ Handles("CloseScene") => call # NoCall /\ pc = "sceneClosed"
<1>1. ASSUME toBack # <<>>, Head(toBack).op \in {"Stop", "CloseScene"}
      PROVE  call # NoCall /\ call = Head(toBack)
  <2>1. Head(toBack) \in Asks
    BY <1>1, HeadRequest DEF Safe, ValidRequests, Asks
  <2> QED
    BY <1>1, <2>1, AtHead
<1>2. call # NoCall => pc \in Waits
  BY DEF LocalInv, TypeInv
<1> QED
  BY <1>1, <1>2 DEF Handles, Asked, Waits

Serving ==
  /\ SessionInv /\ Own /\ faults = 0
  /\ BackNext /\ UNCHANGED frontVars /\ UNCHANGED feVars

LEMMA ServingFacts ==
  ASSUME Serving
  PROVE  /\ Safe /\ IInv /\ MatchInv /\ AgreeInv /\ LocalInv /\ stale = 0 /\ Has /\ HasWaiting
         /\ Asked /\ ReplyFits /\ QueuesInv
         /\ UNCHANGED <<front, call, result, pc, state, fe>>
BY DEF Serving, SessionInv, IInv, Own, Has, Safe, FrontInv, frontVars, feVars

LEMMA ServedWorld ==
  ASSUME Serving
  PROVE  /\ Nothing(World) => Nothing(World')
         /\ \A s, S : OnlyScene(World, s, S) => OnlyScene(World', s, S)
         /\ pc \notin {"stopping", "sceneClosed"} =>
              \A s, S : Parsed(World, s, S) => Parsed(World', s, S)
         /\ pc # "sceneClosed" =>
              \A s, v, V : "Unknown" \notin V /\ Both(World, s, v, V) => Both(World', s, v, V)
<1>1. /\ Safe /\ MatchInv /\ LocalInv /\ Asked /\ stale = 0 /\ front' = front
      /\ BackNext /\ UNCHANGED frontVars
  BY ServingFacts DEF Serving
<1>2. World.front = front /\ World'.front = front
  BY <1>1 DEF World
<1>3. Nothing(World) => Nothing(World')
  BY <1>2 DEF Nothing
<1>4. \A s, S : OnlyScene(World, s, S) => OnlyScene(World', s, S)
  BY <1>2 DEF OnlyScene
<1>5. ASSUME pc \notin {"stopping", "sceneClosed"}, NEW s, NEW S, Parsed(World, s, S)
      PROVE  Parsed(World', s, S)
  <2>1. s \in SceneIds /\ Told(World, s)
    BY <1>5 DEF Parsed, OnlyScene
  <2>2. ~Handles("Stop") /\ ~Handles("CloseScene")
    BY <1>1, <1>5, HandledAsk
  <2>3. Told(World', s)
    BY <1>1, <2>1, <2>2, BackTold
  <2> QED
    BY <1>4, <1>5, <2>3 DEF Parsed
<1>6. ASSUME pc # "sceneClosed", NEW s, NEW v, NEW V, "Unknown" \notin V, Both(World, s, v, V)
      PROVE  Both(World', s, v, V)
  <2>1. ~Handles("CloseScene")
    BY <1>1, <1>6, HandledAsk
  <2> QED
    BY <1>1, <1>6, <2>1, BackBoth
<1> QED
  BY <1>3, <1>4, <1>5, <1>6

LEMMA ServedHas == ASSUME Serving PROVE Has'
<1>1. UNCHANGED <<front, call, result, pc, state, fe>> /\ HasWaiting /\ Has
  BY ServingFacts
<1>2. \A S \in {AtWork, Judged, Closable, {"Created"}} : "Unknown" \notin S
  BY DEF AtWork, Judged, Closable
<1>3. /\ Nothing(World) => Nothing(World')
      /\ \A S : OnlyScene(World, fe.sceneId, S) => OnlyScene(World', fe.sceneId, S)
      /\ pc \notin {"stopping", "sceneClosed"} =>
           \A s, S : Parsed(World, s, S) => Parsed(World', s, S)
      /\ pc # "sceneClosed" =>
           \A s, v : \A S \in {AtWork, Judged, Closable, {"Created"}} :
             Both(World, s, v, S) => Both(World', s, v, S)
  BY <1>2, ServedWorld
<1>4. pc \notin {"stopping", "sceneClosed"} /\ HasIn(state, fe, World) => HasIn(state, fe, World)'
  <2>1. pc \notin {"stopping", "sceneClosed"} /\ HasIn(state, fe, World) => HasIn(state, fe, World')
    BY <1>3 DEF HasIn, Pausing, Stoppable, Stoppings
  <2> QED
    BY <1>1, <2>1, PrimesOwn
<1>5. pc \in Waits => ~fe.pausedAfterFrame
  BY <1>1 DEF HasWaiting
<1>6. pc = "sceneCreated" =>
        \/ \E s \in SceneIds : Created(Scene(s))' /\ Parsed(World, s, {"Created"})'
        \/ ~(call = NoCall /\ result.ok)' /\ Nothing(World)'
  BY <1>1, <1>3, Primes, PrimesOwn DEF HasWaiting, Created
<1>7. pc = "viewCreated" =>
        \/ \E v \in ViewIds : Created(View(v))' /\ Both(World, fe.sceneId, v, {"Created"})'
        \/ ~(call = NoCall /\ result.ok)' /\ Parsed(World, fe.sceneId, {"Finished"})'
  BY <1>1, <1>3, PrimesOwn DEF HasWaiting, Created
<1>8. pc = "viewClosed" =>
        \/ call' = NoCall /\ (Nothing(World)' \/ OnlyScene(World, fe.sceneId, Judged)')
        \/ call' # NoCall /\ Both(World, fe.sceneId, fe.viewId, Closable)'
  BY <1>1, <1>3, Primes, PrimesOwn DEF HasWaiting
<1>9. pc = "sceneClosed" =>
        \/ call' = NoCall /\ Nothing(World)'
        \/ call' # NoCall /\ OnlyScene(World, fe.sceneId, Ending)'
  BY <1>1, <1>3, Primes, PrimesOwn DEF HasWaiting
<1>10. pc \in {"pausing", "resuming"} => HasIn(state, fe, World)'
  BY <1>1, <1>4 DEF HasWaiting
<1>11. pc = "stopping" =>
         \/ state \in InParsing /\ OnlyScene(World, fe.sceneId, AtWork)'
         \/ state \in InRendering /\ Both(World, fe.sceneId, fe.viewId, AtWork)'
  BY <1>1, <1>3, PrimesOwn DEF HasWaiting
<1>12. HasWaiting'
  BY <1>1, <1>5, <1>6, <1>7, <1>8, <1>9, <1>10, <1>11 DEF HasWaiting
<1>13. pc \notin Waits => HasIn(state, fe, World)'
  BY <1>1, <1>4 DEF Has, Waits
<1> QED
  BY <1>1, <1>12, <1>13 DEF Has

(* What the reply says of what was closed or created.                      *)
LEMMA OneSent ==
  ASSUME QueuesInv, NoReply, NEW r \in Messages, toFront' = toFront \o <<r>>,
         NEW m \in Replies, Sent(m)'
  PROVE  m = r
<1>1. toFront \in Seq(Messages) /\ <<r>> \in Seq(Messages) /\ Len(<<r>>) = 1 /\ <<r>>[1] = r
  BY QueueTypes
<1>2. PICK k \in 1..Len(toFront') : toFront'[k] = m
  BY DEF Sent
<1>3. CASE k <= Len(toFront)
  <2>1. k \in 1..Len(toFront) /\ toFront[k] = m
    BY <1>1, <1>2, <1>3
  <2> QED
    BY <2>1 DEF NoReply
<1>4. CASE k > Len(toFront)
  <2>1. k = Len(toFront) + 1 /\ toFront'[k] = r
    BY <1>1, <1>2, <1>4
  <2> QED
    BY <1>2, <2>1
<1> QED
  BY <1>1, <1>2, <1>3, <1>4

LEMMA ClosedFits ==
  ASSUME Serving, CloseView \/ CloseScene, NEW m \in Replies, Sent(m)'
  PROVE  Fitting(m)'
<1>1. /\ Safe /\ MatchInv /\ AgreeInv /\ LocalInv /\ stale = 0 /\ faults = 0 /\ QueuesInv
      /\ HasWaiting /\ Asked /\ call' = call /\ toBack # <<>>
      /\ Head(toBack).op \in {"CloseView", "CloseScene"}
  BY ServingFacts DEF CloseView, CloseScene, Handle, Serving
<1>2. Head(toBack) \in Asks
  BY <1>1, HeadRequest DEF ValidRequests, Asks
<1>3. call # NoCall /\ Head(toBack) = call /\ NoReply /\ Arg = call.obj /\ Arg \in Objects
  BY <1>1, <1>2, AtHead, ArgFacts DEF Arg
<1>4. front[call.obj] # "Unknown" /\ \A o \in Objects : Agree(o)
  BY <1>1, <1>3 DEF AgreeInv, NoReply, Sent
<1>5. job[Arg] # "none"
  BY <1>3, <1>4 DEF Agree
<1>6. CloseScene => ViewsOf(Arg[2]) = {}
  <2> SUFFICES ASSUME CloseScene, NEW v \in ViewIds, job[View(v)] # "none" PROVE FALSE
    BY DEF ViewsOf
  <2>1. call.op = "CloseScene" /\ pc \in Waits
    BY <1>1, <1>3 DEF CloseScene, Handle, LocalInv, TypeInv
  <2>2. OnlyScene(World, fe.sceneId, Ending)
    BY <1>1, <1>3, <2>1, WhichWait DEF HasWaiting
  <2>3. front[View(v)] = "Unknown" /\ View(v) \in Objects
    BY <2>2, MadeFacts, ObjectFacts DEF OnlyScene, World
  <2> QED
    BY <1>4, <2>3 DEF Agree
<1>7. toFront' = toFront \o <<Reply("Done", Arg)>>
  BY <1>5, <1>6 DEF CloseView, CloseScene, Handle
<1>8. Reply("Done", Arg) \in Messages
  BY <1>3 DEF Reply, Messages, Codes
<1>9. m = Reply("Done", Arg)
  BY <1>1, <1>3, <1>7, <1>8, OneSent
<1> QED
  BY <1>1, <1>3, <1>9 DEF Fitting, Reply

LEMMA ViewFits ==
  ASSUME Serving, CreateView, NEW m \in Replies, Sent(m)'
  PROVE  Fitting(m)'
<1>1. /\ Safe /\ MatchInv /\ stale = 0 /\ QueuesInv /\ call' = call /\ toBack # <<>>
      /\ Head(toBack).op = "CreateView"
  BY ServingFacts DEF CreateView, Handle
<1>2. Head(toBack) \in Asks
  BY <1>1, HeadRequest DEF ValidRequests, Asks
<1>3. Head(toBack) = call /\ NoReply /\ Arg = call.obj
  BY <1>1, <1>2, AtHead DEF Arg
<1>4. CASE /\ Handle("CreateView", <<Reply("Done", View(viewcounter + 1))>>)
           /\ viewcounter + 1 \in ViewIds
           /\ view2scene' = [view2scene EXCEPT ![viewcounter + 1] = Arg[2]]
  <2>1. Reply("Done", View(viewcounter + 1)) \in Messages
    BY <1>4, MadeFacts DEF Reply, Messages, Codes
  <2>2. m = Reply("Done", View(viewcounter + 1))
    BY <1>1, <1>3, <1>4, <2>1, OneSent DEF Handle
  <2>3. m.obj[2] = viewcounter + 1
    BY <2>2, ObjectFacts DEF Reply
  <2>4. view2scene'[viewcounter + 1] = call.obj[2]
    BY <1>1, <1>3, <1>4 DEF Safe, RegistryInv
  <2> QED
    BY <1>1, <1>3, <2>3, <2>4 DEF Fitting, Closes
<1>5. CASE \E code \in Codes \ {"Done"} : Handle("CreateView", <<Reply(code, View(0))>>)
  <2>1. PICK code \in Codes \ {"Done"} : Handle("CreateView", <<Reply(code, View(0))>>)
    BY <1>5
  <2>2. Reply(code, View(0)) \in Messages
    BY DEF Reply, Messages
  <2>3. m = Reply(code, View(0))
    BY <1>1, <1>3, <2>1, <2>2, OneSent DEF Handle
  <2> QED
    BY <1>1, <1>3, <2>3 DEF Fitting, Reply, Closes
<1> QED
  BY <1>4, <1>5 DEF CreateView, Codes

LEMMA SceneFits ==
  ASSUME Serving, CreateScene, NEW m \in Replies, Sent(m)'
  PROVE  Fitting(m)'
<1>1. /\ Safe /\ MatchInv /\ stale = 0 /\ QueuesInv /\ call' = call /\ toBack # <<>>
      /\ Head(toBack).op = "CreateScene"
  BY ServingFacts DEF CreateScene, Handle
<1>2. Head(toBack) \in Asks
  BY <1>1, HeadRequest DEF ValidRequests, Asks
<1>3. /\ Head(toBack) = call /\ NoReply
      /\ \A j \in 1..Len(Tail(toBack)) : Tail(toBack)[j] \notin Asks
  BY <1>1, <1>2, AtHead
<1> DEFINE sid == scenecounter + 1
           o == Scene(sid)
<1>4. CASE /\ Handle("CreateScene", <<Reply("Done", o)>>) /\ sid \in SceneIds
           /\ job' = [job EXCEPT ![o] = "idle"]
  <2>1. o \in Objects /\ Reply("Done", o) \in Messages
    BY <1>4, MadeFacts DEF Reply, Messages, Codes
  <2>2. m = Reply("Done", o)
    BY <1>1, <1>3, <1>4, <2>1, OneSent DEF Handle
  <2>3. o \notin Made
    <3>1. scenecounter \in Nat
      BY <1>1, IdFacts DEF Safe, RegistryInv
    <3>2. ~(sid <= scenecounter)
      BY <3>1
    <3> QED
      BY <1>4, <3>2, MadeFacts
  <2>4. job'[o] = "idle"
    BY <1>1, <1>4, <2>1 DEF Safe, RegistryInv
  <2>5. \A k \in 1..Len(toFront') : ~IsVerdict(toFront'[k], o)
    <3>1. toFront \in Seq(ValidMessages) /\ toFront' = toFront \o <<Reply("Done", o)>>
      BY <1>1, <1>4 DEF QueuesInv, Handle
    <3>2. \A e \in ValidMessages : ~IsVerdict(e, o)
      BY <2>3 DEF ValidMessages, IsVerdict
    <3>3. ~IsVerdict(Reply("Done", o), o)
      BY DEF IsVerdict, Reply
    <3>4. toFront' = Append(toFront, Reply("Done", o)) /\ Reply("Done", o) \in Messages
          /\ toFront \in Seq(Messages)
      BY <1>1, <2>1, <3>1, QueueTypes
    <3>5. ASSUME NEW k \in 1..Len(toFront') PROVE ~IsVerdict(toFront'[k], o)
      <4>1. CASE k <= Len(toFront)
        <5>1. k \in 1..Len(toFront) /\ toFront'[k] = toFront[k]
          BY <3>4, <3>5, <4>1
        <5>2. toFront[k] \in ValidMessages
          BY <3>1, <5>1
        <5> QED
          BY <3>2, <5>1, <5>2
      <4>2. CASE k > Len(toFront)
        <5>1. toFront'[k] = Reply("Done", o)
          BY <3>4, <3>5, <4>2
        <5> QED
          BY <3>3, <5>1
      <4> QED
        BY <3>4, <3>5, <4>1, <4>2
    <3> QED
      BY <3>5
  <2>6. \A j \in 1..Len(toBack') : toBack'[j].obj # o
    <3>1. toBack' = Tail(toBack) /\ Tail(toBack) \in Seq(ValidRequests)
      BY <1>1, <1>4 DEF Handle, QueuesInv
    <3>2. ASSUME NEW j \in 1..Len(toBack') PROVE toBack'[j].obj # o
      <4>1. toBack'[j] \in ValidRequests /\ toBack'[j] \notin Asks
        BY <1>3, <3>1, <3>2
      <4> QED
        BY <2>3, <4>1 DEF ValidRequests, Asks
    <3> QED
      BY <3>2
  <2>7. PICK p : p = o
    OBVIOUS
  <2>8. New(p)'
    BY <2>4, <2>5, <2>6, <2>7 DEF New, NoVerdict, World
  <2>9. m.obj = p /\ call.op = "CreateScene"
    BY <1>1, <1>3, <2>2, <2>7 DEF Reply
  <2> QED
    BY <1>1, <2>8, <2>9 DEF Fitting, Closes
<1>5. CASE Handle("CreateScene", <<Reply("Failed", Scene(0))>>)
  <2>1. Reply("Failed", Scene(0)) \in Messages
    BY DEF Reply, Messages, Codes
  <2>2. m = Reply("Failed", Scene(0))
    BY <1>1, <1>3, <1>5, <2>1, OneSent DEF Handle
  <2> QED
    BY <1>1, <1>3, <2>2 DEF Fitting, Reply, Closes
<1> QED
  BY <1>4, <1>5 DEF CreateScene

(* A reply that is on its way stays true, whatever jobs do.                *)
LEMMA OldSent ==
  ASSUME Serving, NEW ms \in Seq(Messages), toFront' = toFront \o ms,
         \A i \in 1..Len(ms) : ms[i] \notin Replies, NEW m \in Replies, Sent(m)'
  PROVE  Sent(m)
<1>1. toFront \in Seq(Messages)
  BY ServingFacts, QueueTypes
<1>2. PICK k \in 1..Len(toFront') : toFront'[k] = m
  BY DEF Sent
<1>3. CASE k <= Len(toFront)
  <2>1. k \in 1..Len(toFront) /\ toFront[k] = m
    BY <1>1, <1>2, <1>3
  <2> QED
    BY <2>1 DEF Sent
<1>4. CASE k > Len(toFront)
  <2>1. k - Len(toFront) \in 1..Len(ms) /\ ms[k - Len(toFront)] = m
    BY <1>1, <1>2, <1>4
  <2> QED
    BY <2>1
<1> QED
  BY <1>1, <1>2, <1>3, <1>4

JobsStep == \E p \in Objects : JobDone(p) \/ JobFails(p) \/ ReportFailure(p) \/ RunsOn(p)

LEMMA StaysNew ==
  ASSUME Serving, StartParser \/ StartRender \/ JobsStep, NEW m \in Replies, Sent(m),
         call.op = "CreateScene", m.code = "Done"
  PROVE  New(m.obj)'
<1> DEFINE o == m.obj
<1>1. /\ Safe /\ MatchInv /\ stale = 0 /\ QueuesInv /\ ReplyFits /\ BackNext
      /\ job \in [Objects -> JobStates]
  BY ServingFacts DEF Serving, Safe, RegistryInv
<1>2. o \in SceneObjs /\ ~NoReply
  <2>1. PICK k \in 1..Len(toFront) : toFront[k] = m
    BY DEF Sent
  <2>2. Answers(m, call)
    BY <1>1, <2>1, OneAtATime
  <2> QED
    BY <2>1, <2>2 DEF Answers, NoReply
<1>3. /\ job[o] = "idle" /\ NoVerdict(World, o) /\ \A j \in 1..Len(toBack) : toBack[j].obj # o
  BY <1>1 DEF ReplyFits, Fitting, New
<1>4. o \in Objects
  BY <1>2, MadeFacts DEF SceneObjs
<1>5. ~Handles("CloseScene")
  <2>1. Handles("CloseScene") => Head(toBack) \in Asks
    BY <1>1, HeadRequest DEF Handles, ValidRequests, Asks
  <2> QED
    BY <1>1, <1>2, <2>1, AtHead DEF Handles
<1>6. NoneAbout(o)
  BY <1>1, <1>2, <1>3, <1>5, BackScene DEF Reports, Busy
<1>7. NoVerdict(World, o)'
  <2>1. \A k \in 1..Len(toFront') : ~IsVerdict(toFront'[k], o)
    BY <1>1, <1>3, <1>6, NoneAboutFacts DEF NoVerdict, World
  <2> QED
    BY <2>1 DEF NoVerdict, World
<1>8. CASE StartParser \/ StartRender
  <2>1. toBack # <<>> /\ toBack' = Tail(toBack) /\ toBack \in Seq(Requests)
    BY <1>1, <1>8, QueueTypes DEF StartParser, StartRender, Handle
  <2>2. /\ Head(toBack) = toBack[1] /\ 1 \in 1..Len(toBack)
        /\ \A j \in 1..Len(toBack') : j + 1 \in 1..Len(toBack) /\ toBack'[j] = toBack[j + 1]
    BY <2>1
  <2>3. Arg # o
    BY <1>3, <2>2 DEF Arg
  <2>4. job' = job \/ job' = [job EXCEPT ![Arg] = "running"]
    BY <1>8 DEF StartParser, StartRender, Jobs
  <2>5. job'[o] = job[o]
    BY <1>1, <1>4, <2>3, <2>4
  <2> QED
    BY <1>3, <1>7, <2>2, <2>5 DEF New
<1>9. CASE JobsStep
  <2>1. PICK p \in Objects : JobDone(p) \/ JobFails(p) \/ ReportFailure(p) \/ RunsOn(p)
    BY <1>9 DEF JobsStep
  <2>2. p # o /\ toBack' = toBack
    BY <1>3, <2>1 DEF JobDone, JobFails, ReportFailure, RunsOn
  <2>3. job'[o] = job[o]
    BY <1>1, <1>4, <2>1, <2>2 DEF JobDone, JobFails, ReportFailure, RunsOn, Jobs
  <2> QED
    BY <1>3, <1>7, <2>2, <2>3 DEF New
<1> QED
  BY <1>8, <1>9

LEMMA OldFits ==
  ASSUME Serving, StartParser \/ StartRender \/ JobsStep, NEW m \in Replies, Sent(m)'
  PROVE  Fitting(m)'
<1>1. /\ Safe /\ QueuesInv /\ ReplyFits /\ call' = call
  BY ServingFacts
<1>2. Sent(m)
  <2>1. CASE StartParser \/ StartRender
    <3>1. \E ms \in Seq(Messages) :
             Handled(ms) /\ \A i \in 1..Len(ms) : ms[i] \notin Replies
      BY <1>1, <2>1, StartEffect
    <3> QED
      BY <3>1, OldSent DEF Handled
  <2>2. CASE JobsStep
    <3>1. PICK p \in Objects : JobDone(p) \/ JobFails(p) \/ ReportFailure(p) \/ RunsOn(p)
      BY <2>2 DEF JobsStep
    <3>2. toFront' = toFront \/ \E code \in Codes : toFront' = Append(toFront, Verdict(code, p))
      BY <3>1 DEF JobDone, JobFails, ReportFailure, RunsOn, Codes
    <3>3. CASE toFront' = toFront
      BY <3>3 DEF Sent
    <3>4. CASE \E code \in Codes : toFront' = Append(toFront, Verdict(code, p))
      <4>1. PICK code \in Codes : toFront' = Append(toFront, Verdict(code, p))
        BY <3>4
      <4>2. Verdict(code, p) \in Messages /\ Verdict(code, p) \notin Replies
        BY DEF Verdict, Messages, Replies
      <4>3. toFront \in Seq(Messages)
        BY <1>1, QueueTypes
      <4> DEFINE ms == <<Verdict(code, p)>>
      <4>4. toFront' = toFront \o ms /\ ms \in Seq(Messages)
            /\ \A i \in 1..Len(ms) : ms[i] \notin Replies
        BY <4>1, <4>2, <4>3
      <4> QED
        BY <4>4, OldSent
    <3> QED
      BY <3>2, <3>3, <3>4
  <2> QED
    BY <2>1, <2>2
<1>3. view2scene' = view2scene
  BY DEF StartParser, StartRender, JobsStep, JobDone, JobFails, ReportFailure, RunsOn, Jobs
<1>4. Fitting(m)
  BY <1>1, <1>2 DEF ReplyFits
<1>5. call.op = "CreateScene" /\ m.code = "Done" => New(m.obj)'
  BY <1>2, StaysNew
<1> QED
  BY <1>1, <1>3, <1>4, <1>5 DEF Fitting

LEMMA ControlFits ==
  ASSUME Serving, Pause \/ Resume \/ Stop, NEW m \in Replies
  PROVE  Fitting(m)'
<1>1. /\ Safe /\ MatchInv /\ stale = 0 /\ call' = call /\ toBack # <<>>
      /\ Head(toBack).op \in {"Pause", "Resume", "Stop"}
  BY ServingFacts DEF Pause, Resume, Stop, Refusal, Handle
<1>2. Head(toBack) \in Asks
  BY <1>1, HeadRequest DEF Safe, ValidRequests, Asks
<1>3. call = Head(toBack)
  BY <1>1, <1>2, AtHead
<1> QED
  BY <1>1, <1>3 DEF Fitting, Closes

LEMMA BackOwn == ASSUME Serving PROVE Own'
<1>1. Has' /\ UNCHANGED <<call, pc, state, fe>> /\ Asked
  BY ServedHas, ServingFacts
<1>2. Asked'
  BY <1>1 DEF Asked, JobAsked
<1>3. ASSUME NEW m \in Replies, Sent(m)' PROVE Fitting(m)'
  <2>1. \/ StartParser \/ StartRender \/ JobsStep \/ Pause \/ Resume \/ Stop
        \/ CreateScene \/ CreateView \/ CloseView \/ CloseScene
    BY DEF Serving, BackNext, BackHandlers, JobsStep
  <2> QED
    BY <1>3, <2>1, OldFits, ControlFits, SceneFits, ViewFits, ClosedFits
<1>4. ReplyFits'
  BY <1>3 DEF ReplyFits
<1> QED
  BY <1>1, <1>2, <1>4 DEF Own

-----------------------------------------------------------------------------
(* All of it, while no fault has come.                                     *)
LEMMA OwnKeeps ==
  ASSUME SessionInv, OwnInv, [SessionNext]_allVars
  PROVE  OwnInv'
<1> SUFFICES ASSUME faults' = 0 PROVE Own'
  BY DEF OwnInv, Own
<1>1. faults = 0
  BY FaultsGrow
<1>2. Own /\ IInv /\ LocalInv
  BY <1>1 DEF OwnInv, Own, SessionInv
<1>3. CASE Worker
  BY <1>1, <1>2, <1>3, ProcessOwn, ControlOwn, DeliverOwn, WaitForReplyOwn DEF Worker
<1>4. CASE UserInterface \/ CommandExits
  BY <1>1, <1>2, <1>4, OthersOwn
<1>5. CASE BackNext /\ UNCHANGED frontVars /\ UNCHANGED feVars
  BY <1>1, <1>2, <1>5, BackOwn DEF Serving
<1>6. CASE UNCHANGED allVars
  BY <1>2, <1>6, StillOwn DEF allVars, feVars
<1> QED
  BY <1>3, <1>4, <1>5, <1>6 DEF SessionNext

LEMMA InitOwn == SessionInit => OwnInv
<1> SUFFICES ASSUME SessionInit PROVE Own
  BY DEF OwnInv, Own
<1>1. /\ front = [o \in Objects |-> "Unknown"] /\ toFront = <<>> /\ call = NoCall
      /\ pc = "receive" /\ state = "Ready" /\ ~fe.pausedAfterFrame
  BY DEF SessionInit, Init, FrontInit, BackInit
<1>2. Nothing(World)
  BY <1>1 DEF Nothing, World
<1>3. HasIn(state, fe, World)
  BY <1>1, <1>2 DEF HasIn, Empty, InParsing, InRendering
<1>4. Has
  BY <1>1, <1>3 DEF Has, HasWaiting, Waits
<1>5. Asked
  BY <1>1 DEF Asked
<1>6. ReplyFits
  BY <1>1 DEF ReplyFits, Sent
<1> QED
  BY <1>4, <1>5, <1>6 DEF Own

LEMMA OwnLeavesNothing == SessionInv /\ OwnInv => NothingLeftBehind
<1> SUFFICES ASSUME SessionInv, OwnInv, state = "Ready", faults = 0, NEW o \in Objects
             PROVE  job[o] = "none"
  BY DEF NothingLeftBehind
<1>1. Own /\ IInv /\ LocalInv /\ stale = 0 /\ QueuesInv /\ MatchInv /\ AgreeInv
  BY DEF OwnInv, Own, SessionInv, IInv, Safe, FrontInv
<1>2. pc \notin Waits
  BY <1>1 DEF LocalInv, PlaceInv, WaitsIn, ClosingStates, Waits
<1>3. Nothing(World) /\ call = NoCall
  BY <1>1, <1>2 DEF Own, Has, HasIn, Empty, LocalInv, TypeInv
<1>4. Agree(o)
  BY <1>1, <1>3, OneAtATime DEF AgreeInv
<1> QED
  BY <1>3, <1>4 DEF Nothing, World, Agree

(* The state has its type, and a session that has met no fault leaves      *)
(* nothing behind in the back end.                                         *)
THEOREM SessionsLeaveNothing == SessionSpec => []FrontEndInv
<1>1. SessionInv /\ [SessionNext]_allVars => SessionInv'
  BY SessionNextKeeps
<1>2. SessionInv /\ OwnInv /\ [SessionNext]_allVars => OwnInv'
  BY OwnKeeps
<1>3. SessionInv /\ OwnInv => FrontEndInv
  BY OwnLeavesNothing, TypeInvMeans DEF FrontEndInv, SessionInv, LocalInv
<1> QED
  BY <1>1, <1>2, <1>3, InitSession, InitOwn, PTL DEF SessionSpec
=============================================================================

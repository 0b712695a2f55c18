------------------------ MODULE JvmCollection_proofs ------------------------
(***************************************************************************)
(* Proofs about JvmCollection for every set of hosts and all plans: the    *)
(* text of a node settles, no tool is forgotten, the nodes are cleaned, and *)
(* the two phases are the two steps of JvmContract.                        *)
(***************************************************************************)
EXTENDS JvmCollection, TLAPS

Phases == {"dist", "start", "tools", "heap", "ok"}
HeapPlaces == {"off", "waiting", "running", "recorded", "streamed", "leaving", "ended"}
Places == HeapPlaces \cup {"entered", "looked", "left", "looked back"}
Outcomes == {"none", "failed", "done", "unseen", "lost"}
Directories == {"none", "tmp-base", "data-base"}
Files == {"tmp-flat", "tmp-base", "data-flat", "data-base", "jfr", "hprof"}
Artefacts == Files \cup {"none"}
Texts == Works \cup {"queued", "uploading", "ready"}

RequestOK == nodes \in SUBSET Hosts /\ tools \in SUBSET Tools /\ heapDump \in BOOLEAN

StateOK ==
  /\ phase \in Phases
  /\ host \in [Hosts -> {"on", "settled", "over"}]
  /\ asprof \in [Hosts -> Directories]
  /\ remote \in [Hosts -> SUBSET Artefacts]
  /\ excused \in [Hosts -> SUBSET Artefacts]
  /\ tool \in [Hosts -> [Works -> Places]]
  /\ \A h \in Hosts : tool[h][HeapDump] \in HeapPlaces
  /\ active \in [Hosts -> SUBSET Tools]
  /\ view \in [Hosts -> [Tools -> SUBSET Tools]]
  /\ shown \in [Hosts -> SUBSET Texts]
  /\ outcome \in [Hosts -> [Works -> Outcomes]]
  /\ reported \in [Hosts -> SUBSET Works]
  /\ tracked \in [Hosts -> SUBSET Works]
  /\ transfers \in Nat

TypeOK == RequestOK /\ StateOK

(* A tool is under way only while its phase lasts and its host is in it,    *)
(* and the host leaves the phase after its tools.                           *)
PlaceInv(h) ==
  /\ phase \in {"dist", "start"} => \A t \in Tools : tool[h][t] = "off"
  /\ phase \in {"dist", "start", "tools"} => tool[h][HeapDump] = "off"
  /\ phase = "tools" /\ host[h] # "on" => ToolsOver(h)
  /\ phase \in {"heap", "ok"} => ToolsOver(h)
  /\ phase = "heap" /\ host[h] = "over" => tool[h][HeapDump] = "ended"
  /\ phase = "ok" => tool[h][HeapDump] \in {"off", "ended"}
  /\ host[h] = "settled" => phase = "tools"
  /\ \A t \in Tools : tool[h][t] # "off" => t \in tools

(* Its files or its error are known as soon as a tool is through, and the   *)
(* errors of all are reported before the host is over.                      *)
Accounted(h, t) ==
  /\ tool[h][t] = "streamed" => t \in tracked[h] \/ outcome[h][t] \in {"unseen", "lost"}
  /\ tool[h][t] \in {"leaving", "left", "looked back", "ended"} =>
       \/ t \in tracked[h]
       \/ outcome[h][t] \in {"failed", "unseen"}
       \/ outcome[h][t] = "lost" /\ t = "async-profiler"

ToolsReported(h) == phase \in {"heap", "ok"} \/ (phase = "tools" /\ host[h] = "over")

AccountInv(h) ==
  /\ \A t \in Tools : Accounted(h, t)
  /\ ToolsReported(h) => Failed(h) \subseteq reported[h]
  /\ phase \in {"dist", "start", "tools"} => tracked[h] \subseteq tools

(* What is on a host without an excuse is the artefact of a tool that still *)
(* has its removal before it.                                               *)
BeforeRemoval == {"waiting", "entered", "looked", "running", "recorded", "streamed"}
Owing(h, t) ==
  IF t = "async-profiler"
  THEN asprof[h] # "none" /\ (phase \in {"dist", "start"} \/ tool[h][t] \in BeforeRemoval)
  ELSE tool[h][t] \in {"recorded", "streamed"}

CleanInv(h) ==
  /\ \A a \in remote[h] \ excused[h] : \E t \in MakesFile : a = Artefact(h, t) /\ Owing(h, t)
  /\ phase = "dist" \/ asprof[h] # "none" => "async-profiler" \in tools
  /\ tool[h]["async-profiler"] # "off" => asprof[h] # "none"
  /\ phase = "dist" /\ host[h] = "on" =>
       remote[h] = {} /\ excused[h] = {} /\ asprof[h] = "none"

TextInv(h) == phase = "tools" /\ host[h] # "on" => shown[h] = {}

RowInv(h) == PlaceInv(h) /\ AccountInv(h) /\ CleanInv(h) /\ TextInv(h)

IInv == TypeOK /\ \A h \in nodes : RowInv(h)

-----------------------------------------------------------------------------
LEMMA WorksAre ==
  /\ Tools \subseteq Works /\ HeapDump \in Works /\ HeapDump \notin Tools
  /\ "async-profiler" \in Tools /\ MakesFile \subseteq Works
  /\ \A t \in Works : t \in Tools \/ t = HeapDump
BY DEF Tools, Works, HeapDump, MakesFile

LEMMA DistributionTypes ==
  ASSUME NEW w \in Distribution
  PROVE  w.dir \in Directories /\ w.left \in SUBSET Files /\ w.error \in BOOLEAN
<1> DEFINE Whole == [dir : Directories, left : SUBSET Files, error : BOOLEAN]
<1>1. \A s \in TmpLeft : s \in SUBSET Files
  BY DEF TmpLeft, Files
<1>2. SUBSET {"data-flat"} \subseteq SUBSET Files /\ SUBSET DataFiles \subseteq SUBSET Files
  BY DEF Files, DataFiles
<1>3. WithTmp({"data-flat"}) \subseteq SUBSET Files /\ WithTmp(DataFiles) \subseteq SUBSET Files
  <2>1. ASSUME NEW more, SUBSET more \subseteq SUBSET Files,
               NEW s \in TmpLeft, NEW d \in SUBSET more
        PROVE  s \cup d \in SUBSET Files
    BY <1>1, <2>1
  <2>2. ASSUME NEW more, SUBSET more \subseteq SUBSET Files
        PROVE  WithTmp(more) \subseteq SUBSET Files
    BY <2>1, <2>2 DEF WithTmp
  <2> QED BY <1>2, <2>2
<1>4. {s \cup {"data-base"} : s \in TmpLeft} \subseteq SUBSET Files
  <2>1. "data-base" \in Files BY DEF Files
  <2>2. ASSUME NEW s \in TmpLeft PROVE s \cup {"data-base"} \in SUBSET Files
    BY <1>1, <2>1
  <2> QED BY <2>2
<1>5. /\ {{}} \subseteq SUBSET Files
      /\ SUBSET {"tmp-flat"} \subseteq SUBSET Files
      /\ {{"tmp-base"}} \subseteq SUBSET Files
  <2>1. "tmp-flat" \in Files /\ "tmp-base" \in Files BY DEF Files
  <2> QED BY <2>1
<1>6. ASSUME NEW dir \in Directories, NEW lefts, lefts \subseteq SUBSET Files,
             NEW error \in BOOLEAN
      PROVE  Ways(dir, lefts, error) \subseteq Whole
  BY <1>6 DEF Ways
<1>7. "none" \in Directories /\ "tmp-base" \in Directories /\ "data-base" \in Directories
  BY DEF Directories
<1>8. Ways("none", {{}}, FALSE) \subseteq Whole BY <1>5, <1>6, <1>7
<1>9. Ways("none", SUBSET {"tmp-flat"}, TRUE) \subseteq Whole BY <1>5, <1>6, <1>7
<1>10. Ways("tmp-base", {{"tmp-base"}}, FALSE) \subseteq Whole BY <1>5, <1>6, <1>7
<1>11. Ways("none", WithTmp({"data-flat"}), FALSE) \subseteq Whole BY <1>3, <1>6, <1>7
<1>12. Ways("none", WithTmp(DataFiles), TRUE) \subseteq Whole BY <1>3, <1>6, <1>7
<1>13. Ways("data-base", {s \cup {"data-base"} : s \in TmpLeft}, FALSE) \subseteq Whole
  BY <1>4, <1>6, <1>7
<1> HIDE DEF Whole
<1>14. w \in Whole
  BY <1>8, <1>9, <1>10, <1>11, <1>12, <1>13, Zenon DEF Distribution
<1> USE DEF Whole
<1> QED BY <1>14

LEMMA ArtefactType ==
  ASSUME TypeOK, NEW h \in Hosts, NEW t
  PROVE  Artefact(h, t) \in Artefacts
<1>1. asprof[h] \in Directories BY DEF TypeOK, StateOK
<1> QED BY <1>1 DEF Artefact, Artefacts, Files, Directories, HeapDump

(* What GoTo does to the places of the tools.                               *)
LEMMA Moved ==
  ASSUME TypeOK, NEW h \in Hosts, NEW t \in Works, NEW there, GoTo(h, t, there)
  PROVE  /\ tool'[h][t] = there
         /\ \A u \in Works : u # t => tool'[h][u] = tool[h][u]
         /\ \A g \in Hosts : g # h => tool'[g] = tool[g]
         /\ there \in Places => tool' \in [Hosts -> [Works -> Places]]
         /\ (t # HeapDump \/ there \in HeapPlaces) =>
              \A g \in Hosts : tool'[g][HeapDump] \in HeapPlaces
<1>1. tool \in [Hosts -> [Works -> Places]] /\ \A g \in Hosts : tool[g][HeapDump] \in HeapPlaces
  BY DEF TypeOK, StateOK
<1>2. tool' = [tool EXCEPT ![h] = [tool[h] EXCEPT ![t] = there]]
  BY DEF GoTo
<1>3. tool'[h] = [tool[h] EXCEPT ![t] = there] /\ tool[h] \in [Works -> Places]
  BY <1>1, <1>2
<1>4. tool'[h][t] = there /\ \A u \in Works : u # t => tool'[h][u] = tool[h][u]
  BY <1>3
<1>5. \A g \in Hosts : g # h => tool'[g] = tool[g]
  BY <1>1, <1>2
<1>6. there \in Places => tool' \in [Hosts -> [Works -> Places]]
  BY <1>1, <1>2, <1>3
<1>7. ASSUME t # HeapDump \/ there \in HeapPlaces, NEW g \in Hosts
      PROVE  tool'[g][HeapDump] \in HeapPlaces
  <2>1. CASE g # h BY <2>1, <1>1, <1>5
  <2>2. CASE g = h /\ t = HeapDump BY <2>2, <1>4, <1>7
  <2>3. CASE g = h /\ t # HeapDump BY <2>3, <1>1, <1>4, WorksAre
  <2> QED BY <2>1, <2>2, <2>3
<1> QED BY <1>4, <1>5, <1>6, <1>7

(* A tool that is neither off nor ended works within its phase.             *)
LEMMA ToolBusy ==
  ASSUME TypeOK, NEW h \in nodes, RowInv(h), NEW t \in Tools, tool[h][t] \notin {"off", "ended"}
  PROVE  phase = "tools" /\ host[h] = "on" /\ t \in tools /\ ~ToolsOver(h)
<1>1. phase \in Phases /\ h \in Hosts BY DEF TypeOK, StateOK, RequestOK
<1>2. PlaceInv(h) BY DEF RowInv
<1>3. ~ToolsOver(h) BY DEF ToolsOver
<1> QED BY <1>1, <1>2, <1>3 DEF PlaceInv, Phases

LEMMA HeapDumpBusy ==
  ASSUME TypeOK, NEW h \in nodes, RowInv(h), tool[h][HeapDump] \notin {"off", "ended"}
  PROVE  phase = "heap" /\ host[h] = "on" /\ ToolsOver(h)
<1>1. phase \in Phases /\ h \in Hosts /\ host[h] \in {"on", "settled", "over"}
  BY DEF TypeOK, StateOK, RequestOK
<1>2. PlaceInv(h) BY DEF RowInv
<1> QED BY <1>1, <1>2 DEF PlaceInv, Phases

-----------------------------------------------------------------------------
(* A row only changes with what is its own.                                 *)
Row(h) == <<host[h], asprof[h], remote[h], excused[h], tool[h], shown[h],
            outcome[h], reported[h], tracked[h]>>

LEMMA RowFrame ==
  ASSUME phase' = phase, tools' = tools, NEW h, RowInv(h), Row(h)' = Row(h)
  PROVE  RowInv(h)'
<1>1. /\ host'[h] = host[h] /\ asprof'[h] = asprof[h] /\ remote'[h] = remote[h]
      /\ excused'[h] = excused[h] /\ tool'[h] = tool[h] /\ shown'[h] = shown[h]
      /\ outcome'[h] = outcome[h] /\ reported'[h] = reported[h] /\ tracked'[h] = tracked[h]
  BY DEF Row
<1>2. PlaceInv(h)' BY <1>1 DEF RowInv, PlaceInv, ToolsOver
<1>3. AccountInv(h)'
  <2>1. \A t \in Tools : Accounted(h, t)' <=> Accounted(h, t)
    BY <1>1 DEF Accounted
  <2>2. Failed(h)' = Failed(h) /\ (ToolsReported(h)' <=> ToolsReported(h))
    BY <1>1 DEF Failed, ToolsReported
  <2>3. AccountInv(h) BY DEF RowInv
  <2> QED BY <1>1, <2>1, <2>2, <2>3 DEF AccountInv
<1>4. CleanInv(h)'
  <2>1. \A t : Artefact(h, t)' = Artefact(h, t) /\ (Owing(h, t)' <=> Owing(h, t))
    BY <1>1 DEF Artefact, Owing
  <2>2. CleanInv(h) BY DEF RowInv
  <2> QED BY <1>1, <2>1, <2>2 DEF CleanInv
<1>5. TextInv(h)'
  <2>1. TextInv(h) BY DEF RowInv
  <2> QED BY <1>1, <2>1 DEF TextInv
<1> QED BY <1>2, <1>3, <1>4, <1>5 DEF RowInv

(* What a step of a tool owes to the rest of its row.                       *)
StepOf(h, t) ==
  /\ phase' = phase /\ tools' = tools /\ host' = host /\ asprof' = asprof
  /\ \A u \in Works : u # t => tool'[h][u] = tool[h][u] /\ outcome'[h][u] = outcome[h][u]
  /\ reported'[h] = reported[h]
  /\ tracked[h] \subseteq tracked'[h] /\ tracked'[h] \subseteq tracked[h] \cup {t}

LEMMA CleanStep ==
  ASSUME NEW h, NEW t \in Works, StepOf(h, t), CleanInv(h),
         (t = "async-profiler" => tool[h][t] # "off"),
         phase # "dist",
         \A a \in remote'[h] \ excused'[h] :
           \/ a \in remote[h] \ excused[h] /\ (a = Artefact(h, t) /\ Owing(h, t) => Owing(h, t)')
           \/ a = Artefact(h, t) /\ t \in MakesFile /\ Owing(h, t)'
  PROVE  CleanInv(h)'
<1>1. \A u \in Works : u # t => (Owing(h, u)' <=> Owing(h, u))
  BY DEF Owing, StepOf
<1>2. \A u : Artefact(h, u)' = Artefact(h, u)
  BY DEF Artefact, StepOf
<1>3. ASSUME NEW a \in remote'[h] \ excused'[h]
      PROVE  \E u \in MakesFile : a = Artefact(h, u) /\ Owing(h, u)'
  <2>1. CASE a = Artefact(h, t) /\ t \in MakesFile /\ Owing(h, t)'
    BY <2>1
  <2>2. CASE a \in remote[h] \ excused[h] /\ (a = Artefact(h, t) /\ Owing(h, t) => Owing(h, t)')
    <3>1. PICK u \in MakesFile : a = Artefact(h, u) /\ Owing(h, u)
      BY <2>2 DEF CleanInv
    <3>2. u \in Works BY WorksAre
    <3> QED BY <3>1, <3>2, <2>2, <1>1
  <2> QED BY <1>3, <2>1, <2>2
<1>4. \A a \in (remote[h] \ excused[h])' : \E u \in MakesFile : a = Artefact(h, u)' /\ Owing(h, u)'
  BY <1>2, <1>3
<1>5. asprof'[h] = asprof[h] /\ tools' = tools /\ phase' = phase BY DEF StepOf
<1>6. tool'[h]["async-profiler"] # "off" => asprof[h] # "none"
  <2>1. CASE t = "async-profiler" BY <2>1 DEF CleanInv
  <2>2. CASE t # "async-profiler" BY <2>2, WorksAre DEF CleanInv, StepOf
  <2> QED BY <2>1, <2>2
<1> QED BY <1>4, <1>5, <1>6 DEF CleanInv

LEMMA ToolRow ==
  ASSUME TypeOK, NEW h \in nodes, RowInv(h), NEW t \in Tools, StepOf(h, t),
         tool[h][t] \notin {"off", "ended"}, Accounted(h, t)', CleanInv(h)'
  PROVE  RowInv(h)'
<1>1. phase = "tools" /\ host[h] = "on" /\ t \in tools BY ToolBusy
<1>2. phase' = "tools" /\ host'[h] = "on" /\ tools' = tools BY <1>1 DEF StepOf
<1>3. \A u \in Tools : u # t => tool'[h][u] = tool[h][u] /\ outcome'[h][u] = outcome[h][u]
  BY WorksAre DEF StepOf
<1>4. PlaceInv(h)'
  <2>1. tool'[h][HeapDump] = "off"
    BY <1>1, WorksAre DEF RowInv, PlaceInv, StepOf
  <2>2. \A u \in Tools : tool'[h][u] # "off" => u \in tools
    BY <1>1, <1>3 DEF RowInv, PlaceInv
  <2> QED BY <1>2, <2>1, <2>2 DEF PlaceInv
<1>5. AccountInv(h)'
  <2>1. ASSUME NEW u \in Tools PROVE Accounted(h, u)'
    <3>1. CASE u = t BY <3>1
    <3>2. CASE u # t
      <4>1. Accounted(h, u) BY DEF RowInv, AccountInv
      <4>2. u \in tracked[h] => u \in tracked'[h] BY DEF StepOf
      <4> QED BY <3>2, <4>1, <4>2, <1>3 DEF Accounted
    <3> QED BY <3>1, <3>2
  <2>2. ~ToolsReported(h)' BY <1>2 DEF ToolsReported
  <2>3. tracked'[h] \subseteq tools
    <3>1. tracked[h] \subseteq tools BY <1>1 DEF RowInv, AccountInv
    <3> QED BY <3>1, <1>1 DEF StepOf
  <2> QED BY <2>1, <2>2, <2>3, <1>2 DEF AccountInv
<1>6. TextInv(h)' BY <1>2 DEF TextInv
<1> QED BY <1>4, <1>5, <1>6 DEF RowInv

LEMMA HeapDumpRow ==
  ASSUME TypeOK, NEW h \in nodes, RowInv(h), StepOf(h, HeapDump),
         tool[h][HeapDump] \notin {"off", "ended"}, CleanInv(h)'
  PROVE  RowInv(h)'
<1>1. phase = "heap" /\ host[h] = "on" /\ ToolsOver(h) BY HeapDumpBusy
<1>2. phase' = "heap" /\ host'[h] = "on" /\ tools' = tools BY <1>1 DEF StepOf
<1>3. \A u \in Tools : tool'[h][u] = tool[h][u] /\ outcome'[h][u] = outcome[h][u]
  BY WorksAre DEF StepOf
<1>4. ToolsOver(h)' BY <1>1, <1>3 DEF ToolsOver
<1>5. PlaceInv(h)'
  BY <1>2, <1>3, <1>4 DEF RowInv, PlaceInv
<1>6. AccountInv(h)'
  <2>1. ASSUME NEW u \in Tools PROVE Accounted(h, u)'
    <3>1. Accounted(h, u) BY DEF RowInv, AccountInv
    <3>2. u \in tracked[h] => u \in tracked'[h] BY DEF StepOf
    <3> QED BY <3>1, <3>2, <1>3 DEF Accounted
  <2>2. Failed(h)' = Failed(h) BY <1>3 DEF Failed
  <2>3. Failed(h) \subseteq reported[h] BY <1>1 DEF RowInv, AccountInv, ToolsReported
  <2>4. reported'[h] = reported[h] BY DEF StepOf
  <2> QED BY <2>1, <2>2, <2>3, <2>4, <1>2 DEF AccountInv
<1>7. TextInv(h)' BY <1>2 DEF TextInv
<1> QED BY <1>5, <1>6, <1>7 DEF RowInv

(* The two together, as the steps of the tools use them.                    *)
LEMMA WorkRow ==
  ASSUME TypeOK, NEW h \in nodes, RowInv(h), NEW t \in Works, StepOf(h, t),
         tool[h][t] \notin {"off", "ended"},
         t \in Tools => Accounted(h, t)',
         \A a \in remote'[h] \ excused'[h] :
           \/ a \in remote[h] \ excused[h] /\ (a = Artefact(h, t) /\ Owing(h, t) => Owing(h, t)')
           \/ a = Artefact(h, t) /\ t \in MakesFile /\ Owing(h, t)'
  PROVE  RowInv(h)'
<1>1. phase # "dist"
  BY ToolBusy, HeapDumpBusy, WorksAre
<1>2. CleanInv(h)'
  BY <1>1, CleanStep DEF RowInv
<1>3. CASE t \in Tools BY <1>3, <1>2, ToolRow
<1>4. CASE t = HeapDump BY <1>4, <1>2, HeapDumpRow
<1> QED BY <1>3, <1>4, WorksAre

-----------------------------------------------------------------------------
(* A step of one host leaves the request and the other rows alone.          *)
Elsewhere(h) ==
  /\ nodes' = nodes /\ tools' = tools /\ heapDump' = heapDump /\ phase' = phase
  /\ \A g \in Hosts : g # h => Row(g)' = Row(g)

LEMMA HostKeepsIInv ==
  ASSUME IInv, NEW h \in nodes, Elsewhere(h), StateOK', RowInv(h)'
  PROVE  IInv'
<1>1. RequestOK' BY DEF IInv, TypeOK, RequestOK, Elsewhere
<1>2. nodes \subseteq Hosts BY DEF IInv, TypeOK, RequestOK
<1>3. \A g \in nodes : g # h => RowInv(g)'
  BY <1>2, RowFrame DEF IInv, Elsewhere
<1>4. nodes' = nodes BY DEF Elsewhere
<1> QED BY <1>1, <1>3, <1>4 DEF IInv, TypeOK

(* The types of a step of a tool that changes little else.                  *)
LEMMA StepTypes ==
  ASSUME TypeOK, NEW h \in Hosts, NEW t \in Works,
         NEW there \in Places, t # HeapDump \/ there \in HeapPlaces, GoTo(h, t, there)
  PROVE  /\ tool' \in [Hosts -> [Works -> Places]]
         /\ \A g \in Hosts : tool'[g][HeapDump] \in HeapPlaces
         /\ h \in Hosts /\ t \in Works
BY Moved

LEMMA PlacesAre == HeapPlaces \subseteq Places
BY DEF Places, HeapPlaces

LEMMA EnterStep ==
  ASSUME IInv, NEW h \in nodes, NEW t \in Works, Enter(h, t)
  PROVE  IInv'
<1> USE DEF IInv
<1>1. h \in Hosts /\ TypeOK /\ RowInv(h) BY DEF TypeOK, RequestOK
<1>2. t \in Tools /\ t # HeapDump /\ tool[h][t] = "waiting" /\ GoTo(h, t, "entered")
  BY WorksAre DEF Enter
<1>3. /\ tool'[h][t] = "entered" /\ \A u \in Works : u # t => tool'[h][u] = tool[h][u]
      /\ \A g \in Hosts : g # h => tool'[g] = tool[g]
  BY <1>1, <1>2, Moved
<1>4. StateOK'
  <2>1. tool' \in [Hosts -> [Works -> Places]] /\ \A g \in Hosts : tool'[g][HeapDump] \in HeapPlaces
    <3>1. "entered" \in Places BY DEF Places
    <3> QED BY <1>1, <1>2, <3>1, StepTypes
  <2>2. active' \in [Hosts -> SUBSET Tools]
    BY <1>1, <1>2 DEF TypeOK, StateOK, Enter
  <2> QED BY <1>1, <2>1, <2>2 DEF TypeOK, StateOK, Enter, request, node, results
<1>5. RowInv(h)'
  <2>1. StepOf(h, t)
    BY <1>3 DEF StepOf, Enter, request, node, results
  <2>2. Accounted(h, t)' BY <1>3 DEF Accounted
  <2>3. phase = "tools" BY <1>1, <1>2, ToolBusy
  <2>4. Owing(h, t) => Owing(h, t)'
    BY <1>2, <1>3, <2>1, <2>3 DEF Owing, BeforeRemoval, StepOf
  <2>5. remote' = remote /\ excused' = excused BY DEF Enter
  <2> QED BY <1>1, <1>2, <2>1, <2>2, <2>4, <2>5, WorkRow
<1>6. Elsewhere(h)
  BY <1>3 DEF Elsewhere, Row, Enter, request, node, results
<1> QED BY <1>4, <1>5, <1>6, HostKeepsIInv

LEMMA LeaveStep ==
  ASSUME IInv, NEW h \in nodes, NEW t \in Works, t # HeapDump, Leave(h, t)
  PROVE  IInv'
<1> USE DEF IInv
<1>1. h \in Hosts /\ TypeOK /\ RowInv(h) BY DEF TypeOK, RequestOK
<1>2. t \in Tools /\ tool[h][t] = "leaving" /\ GoTo(h, t, "left")
  BY WorksAre DEF Leave
<1>3. /\ tool'[h][t] = "left" /\ \A u \in Works : u # t => tool'[h][u] = tool[h][u]
      /\ \A g \in Hosts : g # h => tool'[g] = tool[g]
  BY <1>1, <1>2, Moved
<1>4. StateOK'
  <2>1. tool' \in [Hosts -> [Works -> Places]] /\ \A g \in Hosts : tool'[g][HeapDump] \in HeapPlaces
    <3>1. "left" \in Places BY DEF Places
    <3> QED BY <1>1, <1>2, <3>1, StepTypes
  <2>2. active' \in [Hosts -> SUBSET Tools]
    BY <1>1, <1>2 DEF TypeOK, StateOK, Leave
  <2> QED BY <1>1, <2>1, <2>2 DEF TypeOK, StateOK, Leave, request, node, results
<1>5. RowInv(h)'
  <2>1. StepOf(h, t)
    BY <1>3 DEF StepOf, Leave, request, node, results
  <2>2. Accounted(h, t)'
    <3>1. Accounted(h, t) BY <1>1, <1>2 DEF RowInv, AccountInv
    <3>2. outcome' = outcome /\ tracked' = tracked BY DEF Leave, results
    <3> QED BY <1>2, <1>3, <3>1, <3>2 DEF Accounted
  <2>3. phase = "tools" BY <1>1, <1>2, ToolBusy
  <2>4. Owing(h, t) => Owing(h, t)'
    BY <1>2, <1>3, <2>1, <2>3 DEF Owing, BeforeRemoval, StepOf
  <2>5. remote' = remote /\ excused' = excused BY DEF Leave
  <2> QED BY <1>1, <1>2, <2>1, <2>2, <2>4, <2>5, WorkRow
<1>6. Elsewhere(h)
  BY <1>3 DEF Elsewhere, Row, Leave, request, node, results
<1> QED BY <1>4, <1>5, <1>6, HostKeepsIInv

LEMMA LookStep ==
  ASSUME IInv, NEW h \in nodes, NEW t \in Works, Look(h, t)
  PROVE  IInv'
<1> USE DEF IInv
<1> DEFINE there == IF tool[h][t] = "entered" THEN "looked" ELSE "looked back"
<1>1. h \in Hosts /\ TypeOK /\ RowInv(h) BY DEF TypeOK, RequestOK
<1>2. tool[h][t] \in {"entered", "left"} /\ GoTo(h, t, there)
  BY DEF Look
<1>3. t \in Tools
  <2>1. tool[h][HeapDump] \in HeapPlaces BY <1>1 DEF TypeOK, StateOK
  <2> QED BY <1>2, <2>1, WorksAre DEF HeapPlaces
<1>4. there \in Places /\ there \in {"looked", "looked back"} BY DEF Places
<1>5. /\ tool'[h][t] = there /\ \A u \in Works : u # t => tool'[h][u] = tool[h][u]
      /\ \A g \in Hosts : g # h => tool'[g] = tool[g]
  BY <1>1, <1>2, Moved
<1>6. StateOK'
  <2>1. tool' \in [Hosts -> [Works -> Places]] /\ \A g \in Hosts : tool'[g][HeapDump] \in HeapPlaces
    BY <1>1, <1>2, <1>3, <1>4, StepTypes, WorksAre
  <2>2. view' \in [Hosts -> [Tools -> SUBSET Tools]]
    <3>1. view \in [Hosts -> [Tools -> SUBSET Tools]] /\ active[h] \in SUBSET Tools
      BY <1>1 DEF TypeOK, StateOK
    <3>2. view' = [view EXCEPT ![h] = [view[h] EXCEPT ![t] = active[h]]] BY DEF Look
    <3>3. [view[h] EXCEPT ![t] = active[h]] \in [Tools -> SUBSET Tools] BY <1>1, <3>1
    <3> QED BY <3>1, <3>2, <3>3
  <2> QED BY <1>1, <2>1, <2>2 DEF TypeOK, StateOK, Look, request, node, results
<1>7. RowInv(h)'
  <2>1. StepOf(h, t)
    BY <1>5 DEF StepOf, Look, request, node, results
  <2>2. Accounted(h, t)'
    <3>1. Accounted(h, t) BY <1>1, <1>3 DEF RowInv, AccountInv
    <3>2. outcome' = outcome /\ tracked' = tracked BY DEF Look, results
    <3> QED BY <1>2, <1>5, <3>1, <3>2 DEF Accounted
  <2>3. phase = "tools" BY <1>1, <1>2, <1>3, ToolBusy
  <2>4. Owing(h, t) => Owing(h, t)'
    BY <1>2, <1>5, <2>1, <2>3 DEF Owing, BeforeRemoval, StepOf
  <2>5. remote' = remote /\ excused' = excused BY DEF Look
  <2> QED BY <1>1, <1>2, <2>1, <2>2, <2>4, <2>5, WorkRow
<1>8. Elsewhere(h)
  BY <1>5 DEF Elsewhere, Row, Look, request, node, results
<1> QED BY <1>6, <1>7, <1>8, HostKeepsIInv

LEMMA PostStep ==
  ASSUME IInv, NEW h \in nodes, NEW t \in Works, Post(h, t)
  PROVE  IInv'
<1> USE DEF IInv
<1> DEFINE there == IF tool[h][t] = "looked" THEN "running" ELSE "ended"
<1>1. h \in Hosts /\ TypeOK /\ RowInv(h) BY DEF TypeOK, RequestOK
<1>2. tool[h][t] \in {"looked", "looked back"} /\ GoTo(h, t, there)
  BY DEF Post
<1>3. t \in Tools
  <2>1. tool[h][HeapDump] \in HeapPlaces BY <1>1 DEF TypeOK, StateOK
  <2> QED BY <1>2, <2>1, WorksAre DEF HeapPlaces
<1>4. there \in Places /\ there \in {"running", "ended"} BY DEF Places, HeapPlaces
<1>5. /\ tool'[h][t] = there /\ \A u \in Works : u # t => tool'[h][u] = tool[h][u]
      /\ \A g \in Hosts : g # h => tool'[g] = tool[g]
  BY <1>1, <1>2, Moved
<1>6. StateOK'
  <2>1. tool' \in [Hosts -> [Works -> Places]] /\ \A g \in Hosts : tool'[g][HeapDump] \in HeapPlaces
    BY <1>1, <1>2, <1>3, <1>4, StepTypes, WorksAre
  <2>2. view' \in [Hosts -> [Tools -> SUBSET Tools]] /\ view[h][t] \in SUBSET Tools
    <3>1. view \in [Hosts -> [Tools -> SUBSET Tools]]
      BY <1>1 DEF TypeOK, StateOK
    <3>2. view' = [view EXCEPT ![h] = [view[h] EXCEPT ![t] = {}]] BY DEF Post
    <3>3. [view[h] EXCEPT ![t] = {}] \in [Tools -> SUBSET Tools] BY <1>1, <3>1
    <3> QED BY <1>1, <1>3, <3>1, <3>2, <3>3
  <2>3. shown' \in [Hosts -> SUBSET Texts]
    <3>1. view[h][t] \in SUBSET Texts BY <2>2, WorksAre DEF Texts
    <3> QED BY <1>1, <3>1 DEF Post, TypeOK, StateOK
  <2> QED BY <1>1, <2>1, <2>2, <2>3 DEF TypeOK, StateOK, Post, request, node, results
<1>7. RowInv(h)'
  <2>1. StepOf(h, t)
    BY <1>5 DEF StepOf, Post, request, node, results
  <2>2. Accounted(h, t)'
    <3>1. Accounted(h, t) BY <1>1, <1>3 DEF RowInv, AccountInv
    <3>2. outcome' = outcome /\ tracked' = tracked BY DEF Post, results
    <3> QED BY <1>2, <1>5, <3>1, <3>2 DEF Accounted
  <2>3. phase = "tools" BY <1>1, <1>2, <1>3, ToolBusy
  <2>4. Owing(h, t) => Owing(h, t)'
    BY <1>2, <1>5, <2>1, <2>3 DEF Owing, BeforeRemoval, StepOf
  <2>5. remote' = remote /\ excused' = excused BY DEF Post
  <2> QED BY <1>1, <1>2, <2>1, <2>2, <2>4, <2>5, WorkRow
<1>8. Elsewhere(h)
  BY <1>5, <1>1 DEF Elsewhere, Row, Post, request, node, results, TypeOK, StateOK
<1> QED BY <1>6, <1>7, <1>8, HostKeepsIInv

(* What a work concludes with.                                              *)
LEMMA ConcludeTypes ==
  ASSUME TypeOK, NEW h \in Hosts, NEW t \in Works, NEW how \in Outcomes,
         outcome' = [outcome EXCEPT ![h][t] = how]
  PROVE  /\ outcome' \in [Hosts -> [Works -> Outcomes]]
         /\ outcome'[h][t] = how
         /\ \A u \in Works : u # t => outcome'[h][u] = outcome[h][u]
         /\ \A g \in Hosts : g # h => outcome'[g] = outcome[g]
<1>1. outcome \in [Hosts -> [Works -> Outcomes]] BY DEF TypeOK, StateOK
<1>2. outcome' = [outcome EXCEPT ![h] = [outcome[h] EXCEPT ![t] = how]] OBVIOUS
<1>3. outcome[h] \in [Works -> Outcomes] BY <1>1
<1>4. outcome'[h] = [outcome[h] EXCEPT ![t] = how] BY <1>1, <1>2
<1>5. [outcome[h] EXCEPT ![t] = how] \in [Works -> Outcomes] BY <1>3
<1> QED BY <1>1, <1>2, <1>3, <1>4, <1>5

LEMMA CommandWorksStep ==
  ASSUME IInv, NEW h \in nodes, NEW t \in Works, CommandWorks(h, t)
  PROVE  IInv'
<1> USE DEF IInv
<1>1. h \in Hosts /\ TypeOK /\ RowInv(h) BY DEF TypeOK, RequestOK
<1>2. t \in Tools /\ t \notin MakesFile /\ tool[h][t] = "running" /\ GoTo(h, t, "leaving")
  BY WorksAre DEF CommandWorks, Conclude, MakesFile
<1>3. PICK how \in {"done", "unseen"} :
        /\ outcome' = [outcome EXCEPT ![h][t] = how]
        /\ tracked' = [tracked EXCEPT ![h] = IF how = "done" THEN @ \cup {t} ELSE @]
  BY DEF CommandWorks, Conclude
<1>4. /\ tool'[h][t] = "leaving" /\ \A u \in Works : u # t => tool'[h][u] = tool[h][u]
      /\ \A g \in Hosts : g # h => tool'[g] = tool[g]
  BY <1>1, <1>2, Moved
<1>5. /\ outcome' \in [Hosts -> [Works -> Outcomes]] /\ outcome'[h][t] = how
      /\ \A u \in Works : u # t => outcome'[h][u] = outcome[h][u]
      /\ \A g \in Hosts : g # h => outcome'[g] = outcome[g]
  <2>1. how \in Outcomes BY DEF Outcomes
  <2> QED BY <1>1, <1>3, <2>1, ConcludeTypes
<1>6. /\ tracked' \in [Hosts -> SUBSET Works]
      /\ tracked'[h] = IF how = "done" THEN tracked[h] \cup {t} ELSE tracked[h]
      /\ \A g \in Hosts : g # h => tracked'[g] = tracked[g]
  BY <1>1, <1>3 DEF TypeOK, StateOK
<1>7. StateOK'
  <2>1. tool' \in [Hosts -> [Works -> Places]] /\ \A g \in Hosts : tool'[g][HeapDump] \in HeapPlaces
    <3>1. "leaving" \in Places /\ t # HeapDump BY <1>2, WorksAre DEF Places, HeapPlaces
    <3> QED BY <1>1, <1>2, <3>1, StepTypes
  <2> QED BY <1>1, <2>1, <1>5, <1>6 DEF TypeOK, StateOK, CommandWorks, request, node
<1>8. RowInv(h)'
  <2>1. StepOf(h, t)
    BY <1>4, <1>5, <1>6 DEF StepOf, CommandWorks, request, node
  <2>2. Accounted(h, t)' BY <1>3, <1>4, <1>5, <1>6 DEF Accounted
  <2>3. t # "async-profiler" BY <1>2 DEF MakesFile
  <2>4. Owing(h, t) => Owing(h, t)' BY <1>2, <2>3 DEF Owing
  <2>5. remote' = remote /\ excused' = excused BY DEF CommandWorks
  <2> QED BY <1>1, <1>2, <2>1, <2>2, <2>4, <2>5, WorkRow
<1>9. Elsewhere(h)
  BY <1>4, <1>5, <1>6 DEF Elsewhere, Row, CommandWorks, request, node
<1> QED BY <1>7, <1>8, <1>9, HostKeepsIInv

(* Removing an artefact, with what the removal leaves excused.              *)
LEMMA RemovalTypes ==
  ASSUME TypeOK, NEW h \in Hosts, NEW t \in Works, NEW left \in SUBSET {Artefact(h, t)},
         remote' = [remote EXCEPT ![h] = (@ \ {Artefact(h, t)}) \cup left],
         excused' = [excused EXCEPT ![h] = @ \cup left]
  PROVE  /\ remote' \in [Hosts -> SUBSET Artefacts] /\ excused' \in [Hosts -> SUBSET Artefacts]
         /\ \A a \in remote'[h] \ excused'[h] :
              a \in remote[h] \ excused[h] /\ a # Artefact(h, t)
         /\ \A g \in Hosts : g # h => remote'[g] = remote[g] /\ excused'[g] = excused[g]
<1>1. remote \in [Hosts -> SUBSET Artefacts] /\ excused \in [Hosts -> SUBSET Artefacts]
  BY DEF TypeOK, StateOK
<1>2. left \subseteq Artefacts BY ArtefactType
<1>3. remote'[h] = (remote[h] \ {Artefact(h, t)}) \cup left /\ excused'[h] = excused[h] \cup left
  BY <1>1
<1>4. \A g \in Hosts : g # h => remote'[g] = remote[g] /\ excused'[g] = excused[g]
  BY <1>1
<1>5. remote' \in [Hosts -> SUBSET Artefacts] /\ excused' \in [Hosts -> SUBSET Artefacts]
  BY <1>1, <1>2
<1> QED BY <1>3, <1>4, <1>5

LEMMA WorkFailsStep ==
  ASSUME IInv, NEW h \in nodes, NEW t \in Works, WorkFails(h, t)
  PROVE  IInv'
<1> USE DEF IInv
<1>1. h \in Hosts /\ TypeOK /\ RowInv(h) BY DEF TypeOK, RequestOK
<1>2. /\ tool[h][t] = "running" /\ GoTo(h, t, "leaving")
      /\ outcome' = [outcome EXCEPT ![h][t] = "failed"]
  BY DEF WorkFails, Conclude
<1>3. PICK left \in SUBSET {Artefact(h, t)} :
        /\ left # {} => t \in {"async-profiler", HeapDump}
        /\ remote' = [remote EXCEPT ![h] = (@ \ {Artefact(h, t)}) \cup left]
        /\ excused' = [excused EXCEPT ![h] = @ \cup left]
  BY DEF WorkFails
<1>4. /\ tool'[h][t] = "leaving" /\ \A u \in Works : u # t => tool'[h][u] = tool[h][u]
      /\ \A g \in Hosts : g # h => tool'[g] = tool[g]
  BY <1>1, <1>2, Moved
<1>5. /\ outcome' \in [Hosts -> [Works -> Outcomes]] /\ outcome'[h][t] = "failed"
      /\ \A u \in Works : u # t => outcome'[h][u] = outcome[h][u]
      /\ \A g \in Hosts : g # h => outcome'[g] = outcome[g]
  <2>1. "failed" \in Outcomes BY DEF Outcomes
  <2> QED BY <1>1, <1>2, <2>1, ConcludeTypes
<1>6. /\ remote' \in [Hosts -> SUBSET Artefacts] /\ excused' \in [Hosts -> SUBSET Artefacts]
      /\ \A a \in remote'[h] \ excused'[h] :
           a \in remote[h] \ excused[h] /\ a # Artefact(h, t)
      /\ \A g \in Hosts : g # h => remote'[g] = remote[g] /\ excused'[g] = excused[g]
  BY <1>1, <1>3, RemovalTypes
<1>7. StateOK'
  <2>1. tool' \in [Hosts -> [Works -> Places]] /\ \A g \in Hosts : tool'[g][HeapDump] \in HeapPlaces
    <3>1. "leaving" \in Places /\ "leaving" \in HeapPlaces BY DEF Places, HeapPlaces
    <3> QED BY <1>1, <1>2, <3>1, StepTypes
  <2> QED BY <1>1, <2>1, <1>5, <1>6 DEF TypeOK, StateOK, WorkFails, request, node
<1>8. RowInv(h)'
  <2>1. StepOf(h, t)
    BY <1>4, <1>5 DEF StepOf, WorkFails, request, node
  <2>2. Accounted(h, t)' BY <1>4, <1>5 DEF Accounted
  <2> QED BY <1>1, <1>2, <1>6, <2>1, <2>2, WorkRow
<1>9. Elsewhere(h)
  BY <1>4, <1>5, <1>6 DEF Elsewhere, Row, WorkFails, request, node
<1> QED BY <1>7, <1>8, <1>9, HostKeepsIInv

LEMMA RecordStep ==
  ASSUME IInv, NEW h \in nodes, NEW t \in Works, Record(h, t)
  PROVE  IInv'
<1> USE DEF IInv
<1>1. h \in Hosts /\ TypeOK /\ RowInv(h) BY DEF TypeOK, RequestOK
<1>2. t \in MakesFile /\ tool[h][t] = "running" /\ GoTo(h, t, "recorded")
  BY DEF Record
<1>3. /\ tool'[h][t] = "recorded" /\ \A u \in Works : u # t => tool'[h][u] = tool[h][u]
      /\ \A g \in Hosts : g # h => tool'[g] = tool[g]
  BY <1>1, <1>2, Moved
<1>4. Artefact(h, t) \in Artefacts
  BY <1>1, ArtefactType
<1>5. /\ remote' \in [Hosts -> SUBSET Artefacts] /\ remote'[h] = remote[h] \cup {Artefact(h, t)}
      /\ \A g \in Hosts : g # h => remote'[g] = remote[g]
  BY <1>1, <1>4 DEF Record, TypeOK, StateOK
<1>6. StateOK'
  <2>1. tool' \in [Hosts -> [Works -> Places]] /\ \A g \in Hosts : tool'[g][HeapDump] \in HeapPlaces
    <3>1. "recorded" \in Places /\ "recorded" \in HeapPlaces BY DEF Places, HeapPlaces
    <3> QED BY <1>1, <1>2, <3>1, StepTypes
  <2> QED BY <1>1, <2>1, <1>5 DEF TypeOK, StateOK, Record, request, node, results
<1>7. RowInv(h)'
  <2>1. StepOf(h, t)
    BY <1>3 DEF StepOf, Record, request, node, results
  <2>2. Accounted(h, t)' BY <1>3 DEF Accounted
  <2>3. Owing(h, t)'
    <3>1. asprof'[h] = asprof[h] BY DEF Record, node
    <3>2. t = "async-profiler" => asprof[h] # "none"
      BY <1>1, <1>2 DEF RowInv, CleanInv
    <3> QED BY <1>3, <3>1, <3>2 DEF Owing, BeforeRemoval
  <2>4. excused' = excused BY DEF Record
  <2> QED BY <1>1, <1>2, <1>5, <2>1, <2>2, <2>3, <2>4, WorkRow
<1>8. Elsewhere(h)
  BY <1>3, <1>5 DEF Elsewhere, Row, Record, request, node, results
<1> QED BY <1>6, <1>7, <1>8, HostKeepsIInv

LEMMA StreamStep ==
  ASSUME IInv, NEW h \in nodes, NEW t \in Works, Stream(h, t)
  PROVE  IInv'
<1> USE DEF IInv
<1>1. h \in Hosts /\ TypeOK /\ RowInv(h) BY DEF TypeOK, RequestOK
<1>2. tool[h][t] = "recorded" /\ GoTo(h, t, "streamed")
  BY DEF Stream
<1>3. PICK how \in {"done", "unseen", "lost"} :
        /\ outcome' = [outcome EXCEPT ![h][t] = how]
        /\ tracked' = [tracked EXCEPT ![h] = IF how = "done" THEN @ \cup {t} ELSE @]
  BY DEF Stream
<1>4. /\ tool'[h][t] = "streamed" /\ \A u \in Works : u # t => tool'[h][u] = tool[h][u]
      /\ \A g \in Hosts : g # h => tool'[g] = tool[g]
  BY <1>1, <1>2, Moved
<1>5. /\ outcome' \in [Hosts -> [Works -> Outcomes]] /\ outcome'[h][t] = how
      /\ \A u \in Works : u # t => outcome'[h][u] = outcome[h][u]
      /\ \A g \in Hosts : g # h => outcome'[g] = outcome[g]
  <2>1. how \in Outcomes BY DEF Outcomes
  <2> QED BY <1>1, <1>3, <2>1, ConcludeTypes
<1>6. /\ tracked' \in [Hosts -> SUBSET Works]
      /\ tracked'[h] = IF how = "done" THEN tracked[h] \cup {t} ELSE tracked[h]
      /\ \A g \in Hosts : g # h => tracked'[g] = tracked[g]
  BY <1>1, <1>3 DEF TypeOK, StateOK
<1>7. StateOK'
  <2>1. tool' \in [Hosts -> [Works -> Places]] /\ \A g \in Hosts : tool'[g][HeapDump] \in HeapPlaces
    <3>1. "streamed" \in Places /\ "streamed" \in HeapPlaces BY DEF Places, HeapPlaces
    <3> QED BY <1>1, <1>2, <3>1, StepTypes
  <2> QED BY <1>1, <2>1, <1>5, <1>6 DEF TypeOK, StateOK, Stream, request, node
<1>8. RowInv(h)'
  <2>1. StepOf(h, t)
    BY <1>4, <1>5, <1>6 DEF StepOf, Stream, request, node
  <2>2. Accounted(h, t)' BY <1>3, <1>4, <1>5, <1>6 DEF Accounted
  <2>3. Owing(h, t) => Owing(h, t)'
    <3>1. asprof'[h] = asprof[h] BY DEF Stream, node
    <3> QED BY <1>4, <3>1 DEF Owing, BeforeRemoval
  <2>4. remote' = remote /\ excused' = excused BY DEF Stream
  <2> QED BY <1>1, <1>2, <2>1, <2>2, <2>3, <2>4, WorkRow
<1>9. Elsewhere(h)
  BY <1>4, <1>5, <1>6 DEF Elsewhere, Row, Stream, request, node
<1> QED BY <1>7, <1>8, <1>9, HostKeepsIInv

(* Its last stage turns a lost stream into an error, except the profiler's. *)
LEMMA RemoveStep ==
  ASSUME IInv, NEW h \in nodes, NEW t \in Works, Remove(h, t)
  PROVE  IInv'
<1> USE DEF IInv
<1> DEFINE how == IF outcome[h][t] = "lost" /\ t # "async-profiler"
                  THEN "failed" ELSE outcome[h][t]
<1>1. h \in Hosts /\ TypeOK /\ RowInv(h) BY DEF TypeOK, RequestOK
<1>2. tool[h][t] = "streamed" /\ GoTo(h, t, "leaving")
  BY DEF Remove
<1>3. PICK left \in SUBSET {Artefact(h, t)} :
        /\ remote' = [remote EXCEPT ![h] = (@ \ {Artefact(h, t)}) \cup left]
        /\ excused' = [excused EXCEPT ![h] = @ \cup left]
  BY DEF Remove
<1>4. /\ tool'[h][t] = "leaving" /\ \A u \in Works : u # t => tool'[h][u] = tool[h][u]
      /\ \A g \in Hosts : g # h => tool'[g] = tool[g]
  BY <1>1, <1>2, Moved
<1>5. /\ outcome' \in [Hosts -> [Works -> Outcomes]] /\ outcome'[h][t] = how
      /\ \A u \in Works : u # t => outcome'[h][u] = outcome[h][u]
      /\ \A g \in Hosts : g # h => outcome'[g] = outcome[g]
  <2>1. outcome' = [outcome EXCEPT ![h][t] = how]
    BY Zenon DEF Remove
  <2>2. how \in Outcomes BY <1>1 DEF Outcomes, TypeOK, StateOK
  <2> HIDE DEF how
  <2> QED BY <1>1, <2>1, <2>2, ConcludeTypes
<1>6. /\ remote' \in [Hosts -> SUBSET Artefacts] /\ excused' \in [Hosts -> SUBSET Artefacts]
      /\ \A a \in remote'[h] \ excused'[h] :
           a \in remote[h] \ excused[h] /\ a # Artefact(h, t)
      /\ \A g \in Hosts : g # h => remote'[g] = remote[g] /\ excused'[g] = excused[g]
  BY <1>1, <1>3, RemovalTypes
<1>7. StateOK'
  <2>1. tool' \in [Hosts -> [Works -> Places]] /\ \A g \in Hosts : tool'[g][HeapDump] \in HeapPlaces
    <3>1. "leaving" \in Places /\ "leaving" \in HeapPlaces BY DEF Places, HeapPlaces
    <3> QED BY <1>1, <1>2, <3>1, StepTypes
  <2> QED BY <1>1, <2>1, <1>5, <1>6 DEF TypeOK, StateOK, Remove, request, node
<1>8. RowInv(h)'
  <2>1. StepOf(h, t)
    BY <1>4, <1>5 DEF StepOf, Remove, request, node
  <2>2. ASSUME t \in Tools PROVE Accounted(h, t)'
    <3>1. Accounted(h, t) BY <1>1, <2>2 DEF RowInv, AccountInv
    <3>2. tracked' = tracked BY DEF Remove
    <3>3. t \in tracked[h] \/ outcome[h][t] \in {"unseen", "lost"}
      BY <1>2, <3>1 DEF Accounted
    <3> QED BY <3>2, <3>3, <1>4, <1>5 DEF Accounted
  <2> QED BY <1>1, <1>2, <1>6, <2>1, <2>2, WorkRow
<1>9. Elsewhere(h)
  BY <1>4, <1>5, <1>6 DEF Elsewhere, Row, Remove, request, node
<1> QED BY <1>7, <1>8, <1>9, HostKeepsIInv

LEMMA StartHeapDumpStep ==
  ASSUME IInv, NEW h \in nodes, StartHeapDump(h)
  PROVE  IInv'
<1> USE DEF IInv
<1>1. h \in Hosts /\ TypeOK /\ RowInv(h) BY DEF TypeOK, RequestOK
<1>2. PICK there \in {"running", "leaving"} : GoTo(h, HeapDump, there)
  BY DEF StartHeapDump
<1>3. tool[h][HeapDump] = "waiting" /\ shown' = [shown EXCEPT ![h] = {HeapDump}]
  BY DEF StartHeapDump
<1>4. /\ tool'[h][HeapDump] = there
      /\ \A u \in Works : u # HeapDump => tool'[h][u] = tool[h][u]
      /\ \A g \in Hosts : g # h => tool'[g] = tool[g]
  BY <1>1, <1>2, Moved, WorksAre
<1>5. StateOK'
  <2>1. tool' \in [Hosts -> [Works -> Places]] /\ \A g \in Hosts : tool'[g][HeapDump] \in HeapPlaces
    <3>1. there \in Places /\ there \in HeapPlaces BY DEF Places, HeapPlaces
    <3> QED BY <1>1, <1>2, <3>1, StepTypes, WorksAre
  <2>2. shown' \in [Hosts -> SUBSET Texts]
    <3>1. {HeapDump} \in SUBSET Texts BY WorksAre DEF Texts
    <3> QED BY <1>1, <1>3, <3>1 DEF TypeOK, StateOK
  <2> QED BY <1>1, <2>1, <2>2 DEF TypeOK, StateOK, StartHeapDump, request, node, results
<1>6. RowInv(h)'
  <2>1. StepOf(h, HeapDump)
    BY <1>4 DEF StepOf, StartHeapDump, request, node, results
  <2>2. ~Owing(h, HeapDump) BY <1>3 DEF Owing, HeapDump
  <2>3. remote' = remote /\ excused' = excused BY DEF StartHeapDump
  <2> QED BY <1>1, <1>3, <2>1, <2>2, <2>3, WorkRow, WorksAre
<1>7. Elsewhere(h)
  BY <1>1, <1>3, <1>4 DEF Elsewhere, Row, StartHeapDump, request, node, results, TypeOK, StateOK
<1> QED BY <1>5, <1>6, <1>7, HostKeepsIInv

(* What the goroutine of a host does when its tools are not under way keeps *)
(* what is owed on it.                                                      *)
LEMMA CleanKept ==
  ASSUME NEW h, CleanInv(h), tools' = tools, phase' = phase, phase # "dist",
         asprof' = asprof, remote' = remote, excused' = excused,
         \A t \in Tools : tool'[h][t] = tool[h][t],
         tool'[h][HeapDump] = tool[h][HeapDump] \/ tool[h][HeapDump] \notin {"recorded", "streamed"}
  PROVE  CleanInv(h)'
<1>1. \A t : Artefact(h, t)' = Artefact(h, t) BY DEF Artefact
<1>2. \A t \in MakesFile : Owing(h, t) => Owing(h, t)'
  BY DEF Owing, MakesFile, Tools, HeapDump
<1>3. tool'[h]["async-profiler"] = tool[h]["async-profiler"] BY WorksAre
<1> QED BY <1>1, <1>2, <1>3 DEF CleanInv

LEMMA EndHeapDumpStep ==
  ASSUME IInv, NEW h \in nodes, EndHeapDump(h)
  PROVE  IInv'
<1> USE DEF IInv
<1>1. h \in Hosts /\ TypeOK /\ RowInv(h) BY DEF TypeOK, RequestOK
<1>2. tool[h][HeapDump] = "leaving" /\ GoTo(h, HeapDump, "ended")
  BY DEF EndHeapDump
<1>3. /\ tool'[h][HeapDump] = "ended"
      /\ \A u \in Works : u # HeapDump => tool'[h][u] = tool[h][u]
      /\ \A g \in Hosts : g # h => tool'[g] = tool[g]
  BY <1>1, <1>2, Moved, WorksAre
<1>4. /\ host'[h] = "over" /\ reported[h] \subseteq reported'[h] /\ shown'[h] = {}
      /\ host' \in [Hosts -> {"on", "settled", "over"}]
      /\ reported' \in [Hosts -> SUBSET Works] /\ shown' \in [Hosts -> SUBSET Texts]
      /\ \A g \in Hosts : g # h => host'[g] = host[g] /\ reported'[g] = reported[g]
                                   /\ shown'[g] = shown[g]
  <2>1. HeapDump \in Works BY WorksAre
  <2> QED BY <1>1, <2>1 DEF EndHeapDump, TypeOK, StateOK
<1>5. StateOK'
  <2>1. tool' \in [Hosts -> [Works -> Places]] /\ \A g \in Hosts : tool'[g][HeapDump] \in HeapPlaces
    <3>1. "ended" \in Places /\ "ended" \in HeapPlaces BY DEF Places, HeapPlaces
    <3> QED BY <1>1, <1>2, <3>1, StepTypes, WorksAre
  <2> QED BY <1>1, <1>4, <2>1 DEF TypeOK, StateOK, EndHeapDump, request
<1>6. phase = "heap" /\ ToolsOver(h)
  BY <1>1, <1>2, HeapDumpBusy
<1>7. \A u \in Tools : tool'[h][u] = tool[h][u]
  BY <1>3, WorksAre
<1>8. /\ phase' = phase /\ tools' = tools /\ asprof' = asprof /\ remote' = remote
      /\ excused' = excused /\ outcome' = outcome /\ tracked' = tracked
  BY DEF EndHeapDump, request
<1>9. RowInv(h)'
  <2>1. PlaceInv(h)'
    <3>1. ToolsOver(h)' BY <1>6, <1>7 DEF ToolsOver
    <3>2. PlaceInv(h) BY <1>1 DEF RowInv
    <3> QED BY <1>3, <1>4, <1>6, <1>7, <1>8, <3>1, <3>2 DEF PlaceInv
  <2>2. AccountInv(h)'
    <3>1. AccountInv(h) BY <1>1 DEF RowInv
    <3>2. \A u \in Tools : Accounted(h, u)' <=> Accounted(h, u)
      BY <1>7, <1>8 DEF Accounted
    <3>3. Failed(h)' = Failed(h) BY <1>8 DEF Failed
    <3>4. ToolsReported(h) BY <1>6 DEF ToolsReported
    <3> QED BY <3>1, <3>2, <3>3, <3>4, <1>4, <1>6, <1>8 DEF AccountInv
  <2>3. CleanInv(h)'
    BY <1>1, <1>2, <1>6, <1>7, <1>8, CleanKept DEF RowInv
  <2>4. TextInv(h)' BY <1>4 DEF TextInv
  <2> QED BY <2>1, <2>2, <2>3, <2>4 DEF RowInv
<1>10. Elsewhere(h)
  BY <1>3, <1>4, <1>8 DEF Elsewhere, Row, EndHeapDump, request
<1> QED BY <1>5, <1>9, <1>10, HostKeepsIInv

LEMMA SettleStep ==
  ASSUME IInv, NEW h \in nodes, Settle(h)
  PROVE  IInv'
<1> USE DEF IInv
<1>1. h \in Hosts /\ TypeOK /\ RowInv(h) BY DEF TypeOK, RequestOK
<1>2. phase = "tools" /\ host[h] = "on" /\ ToolsOver(h) BY DEF Settle
<1>3. /\ host'[h] = "settled" /\ shown'[h] = {}
      /\ host' \in [Hosts -> {"on", "settled", "over"}] /\ shown' \in [Hosts -> SUBSET Texts]
      /\ \A g \in Hosts : g # h => host'[g] = host[g] /\ shown'[g] = shown[g]
  BY <1>1 DEF Settle, LastText, TypeOK, StateOK
<1>4. /\ phase' = phase /\ tools' = tools /\ asprof' = asprof /\ remote' = remote
      /\ excused' = excused /\ outcome' = outcome /\ tracked' = tracked
      /\ reported' = reported /\ tool' = tool /\ nodes' = nodes /\ heapDump' = heapDump
  BY DEF Settle, request, results
<1>5. StateOK'
  BY <1>1, <1>3, <1>4 DEF TypeOK, StateOK, Settle
<1>6. RowInv(h)'
  <2>1. PlaceInv(h)'
    <3>1. PlaceInv(h) BY <1>1 DEF RowInv
    <3>2. ToolsOver(h)' BY <1>2, <1>4 DEF ToolsOver
    <3> QED BY <1>2, <1>3, <1>4, <3>1, <3>2 DEF PlaceInv
  <2>2. AccountInv(h)'
    <3>1. AccountInv(h) BY <1>1 DEF RowInv
    <3>2. \A u \in Tools : Accounted(h, u)' <=> Accounted(h, u)
      BY <1>4 DEF Accounted
    <3>3. ~ToolsReported(h)' BY <1>2, <1>3, <1>4 DEF ToolsReported
    <3> QED BY <3>1, <3>2, <3>3, <1>4 DEF AccountInv
  <2>3. CleanInv(h)'
    BY <1>1, <1>2, <1>4, CleanKept DEF RowInv
  <2>4. TextInv(h)' BY <1>3 DEF TextInv
  <2> QED BY <2>1, <2>2, <2>3, <2>4 DEF RowInv
<1>7. Elsewhere(h)
  BY <1>3, <1>4 DEF Elsewhere, Row
<1> QED BY <1>5, <1>6, <1>7, HostKeepsIInv

LEMMA ReportErrorsStep ==
  ASSUME IInv, NEW h \in nodes, ReportErrors(h)
  PROVE  IInv'
<1> USE DEF IInv
<1>1. h \in Hosts /\ TypeOK /\ RowInv(h) BY DEF TypeOK, RequestOK
<1>2. phase = "tools" /\ ToolsOver(h) /\ shown[h] = {}
  BY <1>1 DEF ReportErrors, RowInv, PlaceInv, TextInv
<1>3. /\ host'[h] = "over" /\ reported'[h] = reported[h] \cup Failed(h)
      /\ host' \in [Hosts -> {"on", "settled", "over"}]
      /\ reported' \in [Hosts -> SUBSET Works]
      /\ \A g \in Hosts : g # h => host'[g] = host[g] /\ reported'[g] = reported[g]
  <2>1. Failed(h) \subseteq Works BY WorksAre DEF Failed
  <2> QED BY <1>1, <2>1 DEF ReportErrors, TypeOK, StateOK
<1>4. /\ phase' = phase /\ tools' = tools /\ asprof' = asprof /\ remote' = remote
      /\ excused' = excused /\ outcome' = outcome /\ tracked' = tracked
      /\ shown' = shown /\ tool' = tool /\ nodes' = nodes /\ heapDump' = heapDump
  BY DEF ReportErrors, request
<1>5. StateOK'
  BY <1>1, <1>3, <1>4 DEF TypeOK, StateOK, ReportErrors
<1>6. RowInv(h)'
  <2>1. PlaceInv(h)'
    <3>1. PlaceInv(h) BY <1>1 DEF RowInv
    <3>2. ToolsOver(h)' BY <1>2, <1>4 DEF ToolsOver
    <3> QED BY <1>2, <1>3, <1>4, <3>1, <3>2 DEF PlaceInv
  <2>2. AccountInv(h)'
    <3>1. AccountInv(h) BY <1>1 DEF RowInv
    <3>2. \A u \in Tools : Accounted(h, u)' <=> Accounted(h, u)
      BY <1>4 DEF Accounted
    <3>3. Failed(h)' = Failed(h) BY <1>4 DEF Failed
    <3> QED BY <3>1, <3>2, <3>3, <1>3, <1>4 DEF AccountInv
  <2>3. CleanInv(h)'
    BY <1>1, <1>2, <1>4, CleanKept DEF RowInv
  <2>4. TextInv(h)' BY <1>2, <1>4 DEF TextInv
  <2> QED BY <2>1, <2>2, <2>3, <2>4 DEF RowInv
<1>7. Elsewhere(h)
  BY <1>3, <1>4 DEF Elsewhere, Row
<1> QED BY <1>5, <1>6, <1>7, HostKeepsIInv

LEMMA DistributeStep ==
  ASSUME IInv, NEW h \in nodes, Distribute(h)
  PROVE  IInv'
<1> USE DEF IInv
<1>1. h \in Hosts /\ TypeOK /\ RowInv(h) BY DEF TypeOK, RequestOK
<1>2. phase = "dist" /\ host[h] = "on" BY DEF Distribute
<1>3. PICK w \in Distribution :
        /\ asprof' = [asprof EXCEPT ![h] = w.dir]
        /\ remote' = [remote EXCEPT ![h] = w.left]
        /\ excused' = [excused EXCEPT ![h] = w.left \ {w.dir}]
        /\ reported' = [reported EXCEPT ![h] = IF w.error THEN {"async-profiler"} ELSE {}]
        /\ shown' = [shown EXCEPT ![h] = IF w.dir = "none" THEN {"uploading"} ELSE {"ready"}]
  BY DEF Distribute
<1>4. w.dir \in Directories /\ w.left \in SUBSET Files /\ w.left \in SUBSET Artefacts
  BY DistributionTypes DEF Artefacts
<1>5. /\ host' = [host EXCEPT ![h] = "over"] /\ phase' = phase /\ tools' = tools
      /\ outcome' = outcome /\ tracked' = tracked /\ tool' = tool
      /\ nodes' = nodes /\ heapDump' = heapDump /\ transfers' = transfers
      /\ active' = active /\ view' = view
  BY DEF Distribute, request
<1>6. StateOK'
  <2>1. asprof' \in [Hosts -> Directories] /\ remote' \in [Hosts -> SUBSET Artefacts]
        /\ excused' \in [Hosts -> SUBSET Artefacts]
    BY <1>1, <1>3, <1>4 DEF TypeOK, StateOK
  <2>2. reported' \in [Hosts -> SUBSET Works]
    <3>1. (IF w.error THEN {"async-profiler"} ELSE {}) \in SUBSET Works BY WorksAre
    <3> QED BY <1>1, <1>3, <3>1 DEF TypeOK, StateOK
  <2>3. shown' \in [Hosts -> SUBSET Texts]
    <3>1. (IF w.dir = "none" THEN {"uploading"} ELSE {"ready"}) \in SUBSET Texts BY DEF Texts
    <3> QED BY <1>1, <1>3, <3>1 DEF TypeOK, StateOK
  <2> QED BY <1>1, <1>5, <2>1, <2>2, <2>3 DEF TypeOK, StateOK
<1>7. RowInv(h)'
  <2>1. host'[h] = "over" BY <1>1, <1>5 DEF TypeOK, StateOK
  <2>2. PlaceInv(h)'
    BY <1>1, <1>2, <1>5, <2>1 DEF RowInv, PlaceInv, ToolsOver
  <2>3. AccountInv(h)'
    <3>1. AccountInv(h) BY <1>1 DEF RowInv
    <3>2. \A u \in Tools : Accounted(h, u)' <=> Accounted(h, u)
      BY <1>5 DEF Accounted
    <3>3. ~ToolsReported(h)' BY <1>2, <1>5 DEF ToolsReported
    <3> QED BY <3>1, <3>2, <3>3, <1>5 DEF AccountInv
  <2>4. CleanInv(h)'
    <3>1. asprof'[h] = w.dir /\ remote'[h] = w.left /\ excused'[h] = w.left \ {w.dir}
      BY <1>1, <1>3 DEF TypeOK, StateOK
    <3>2. ASSUME NEW a \in remote'[h] \ excused'[h]
          PROVE  a = Artefact(h, "async-profiler")' /\ Owing(h, "async-profiler")'
      <4>1. a = w.dir /\ w.dir # "none" BY <3>1, <3>2, <1>4 DEF Files
      <4> QED BY <4>1, <3>1, <1>2, <1>5 DEF Artefact, Owing, HeapDump
    <3>3. "async-profiler" \in MakesFile BY DEF MakesFile
    <3>4. "async-profiler" \in tools /\ tool'[h]["async-profiler"] = "off"
      <4>1. tool[h]["async-profiler"] = "off" BY <1>1, <1>2, WorksAre DEF RowInv, PlaceInv
      <4> QED BY <4>1, <1>1, <1>2, <1>5 DEF RowInv, CleanInv
    <3> QED BY <2>1, <3>2, <3>3, <3>4, <1>5 DEF CleanInv
  <2>5. TextInv(h)' BY <1>2, <1>5 DEF TextInv
  <2> QED BY <2>2, <2>3, <2>4, <2>5 DEF RowInv
<1>8. Elsewhere(h)
  BY <1>1, <1>3, <1>5 DEF Elsewhere, Row, TypeOK, StateOK
<1> QED BY <1>6, <1>7, <1>8, HostKeepsIInv

-----------------------------------------------------------------------------
LEMMA InitIInv == Init => IInv
<1> SUFFICES ASSUME Init PROVE IInv OBVIOUS
<1>1. RequestOK
  <2>1. PICK r \in Plans : nodes = r.nodes /\ tools = r.tools /\ heapDump = r.heapDump
    BY DEF Init
  <2>2. r \in [nodes : SUBSET Hosts, tools : SUBSET Tools, heapDump : BOOLEAN]
    BY PlansLegal
  <2>3. nodes \in SUBSET Hosts /\ tools \in SUBSET Tools BY <2>1, <2>2
  <2>4. heapDump \in BOOLEAN BY <2>1, <2>2, Zenon
  <2> QED BY <2>3, <2>4 DEF RequestOK
<1>2. /\ phase = IF nodes = {} THEN "ok" ELSE IF "async-profiler" \in tools THEN "dist" ELSE "start"
      /\ host = [h \in Hosts |-> IF h \in nodes THEN "on" ELSE "over"]
      /\ asprof = [h \in Hosts |-> "none"] /\ remote = [h \in Hosts |-> {}]
      /\ tool = [h \in Hosts |-> [t \in Works |-> "off"]]
      /\ tracked = [h \in Hosts |-> {}] /\ excused = [h \in Hosts |-> {}]
  BY DEF Init
<1>3. StateOK
  <2>1. "off" \in Places /\ "off" \in HeapPlaces BY DEF Places, HeapPlaces
  <2>2. /\ tool \in [Hosts -> [Works -> Places]]
        /\ \A h \in Hosts : tool[h][HeapDump] \in HeapPlaces
    BY <1>2, <2>1, WorksAre
  <2>3. phase \in Phases BY <1>2 DEF Phases
  <2>4. host \in [Hosts -> {"on", "settled", "over"}] /\ asprof \in [Hosts -> Directories]
    BY <1>2 DEF Directories
  <2>5. /\ remote \in [Hosts -> SUBSET Artefacts] /\ excused \in [Hosts -> SUBSET Artefacts]
        /\ tracked \in [Hosts -> SUBSET Works]
    BY <1>2
  <2>6. /\ active \in [Hosts -> SUBSET Tools] /\ view \in [Hosts -> [Tools -> SUBSET Tools]]
        /\ reported \in [Hosts -> SUBSET Works] /\ transfers \in Nat
    BY DEF Init
  <2>7. shown \in [Hosts -> SUBSET Texts]
    <3>1. {"queued"} \in SUBSET Texts BY DEF Texts
    <3> QED BY <3>1 DEF Init
  <2>8. outcome \in [Hosts -> [Works -> Outcomes]]
    <3>1. "none" \in Outcomes BY DEF Outcomes
    <3> QED BY <3>1 DEF Init
  <2> QED BY <2>2, <2>3, <2>4, <2>5, <2>6, <2>7, <2>8 DEF StateOK
<1>4. ASSUME NEW h \in nodes PROVE RowInv(h)
  <2>1. h \in Hosts BY <1>1 DEF RequestOK
  <2>2. /\ phase \in {"dist", "start"} /\ (phase = "dist" => "async-profiler" \in tools)
        /\ host[h] = "on" /\ \A t \in Works : tool[h][t] = "off"
        /\ asprof[h] = "none" /\ remote[h] = {} /\ tracked[h] = {} /\ excused[h] = {}
    BY <1>2, <2>1, <1>4
  <2>3. /\ tool[h]["async-profiler"] = "off" /\ tool[h][HeapDump] = "off"
        /\ \A t \in Tools : tool[h][t] = "off"
    BY <2>2, WorksAre
  <2>4. PlaceInv(h) BY <2>2, <2>3 DEF PlaceInv
  <2>5. AccountInv(h) BY <2>2, <2>3 DEF AccountInv, Accounted, ToolsReported
  <2>6. CleanInv(h) BY <2>2, <2>3 DEF CleanInv
  <2>7. TextInv(h) BY <2>2 DEF TextInv
  <2> QED BY <2>4, <2>5, <2>6, <2>7 DEF RowInv
<1> QED BY <1>1, <1>3, <1>4 DEF IInv, TypeOK

LEMMA EndDistributionStep ==
  ASSUME IInv, EndDistribution
  PROVE  IInv'
<1> USE DEF IInv
<1>1. /\ phase = "dist" /\ phase' = "start" /\ nodes' = nodes /\ tools' = tools
      /\ heapDump' = heapDump /\ host' = host /\ asprof' = asprof /\ remote' = remote
      /\ excused' = excused /\ tool' = tool /\ active' = active /\ view' = view
      /\ shown' = shown /\ outcome' = outcome /\ reported' = reported
      /\ tracked' = tracked /\ transfers' = transfers
  BY DEF EndDistribution, request, node, results
<1>2. RequestOK' BY <1>1 DEF TypeOK, RequestOK
<1>3. StateOK' BY <1>1 DEF TypeOK, StateOK, Phases
<1>4. ASSUME NEW h \in nodes PROVE RowInv(h)'
  <2>1. PlaceInv(h) /\ AccountInv(h) /\ CleanInv(h) BY DEF RowInv
  <2>2. PlaceInv(h)' BY <1>1, <2>1 DEF PlaceInv, ToolsOver
  <2>3. AccountInv(h)' BY <1>1, <2>1 DEF AccountInv, Accounted, ToolsReported
  <2>4. CleanInv(h)'
    <3>1. \A t : Artefact(h, t)' = Artefact(h, t) /\ (Owing(h, t)' <=> Owing(h, t))
      BY <1>1 DEF Artefact, Owing
    <3> QED BY <1>1, <2>1, <3>1 DEF CleanInv
  <2>5. TextInv(h)' BY <1>1 DEF TextInv
  <2> QED BY <2>2, <2>3, <2>4, <2>5 DEF RowInv
<1> QED BY <1>1, <1>2, <1>3, <1>4 DEF TypeOK

LEMMA StartToolsStep ==
  ASSUME IInv, StartTools
  PROVE  IInv'
<1> USE DEF IInv
<1>1. /\ phase = "start" /\ phase' = "tools" /\ nodes' = nodes /\ tools' = tools
      /\ heapDump' = heapDump /\ asprof' = asprof /\ remote' = remote
      /\ excused' = excused /\ active' = active /\ view' = view
      /\ shown' = shown /\ outcome' = outcome /\ reported' = reported
      /\ tracked' = tracked /\ transfers' = transfers
      /\ host' = [h \in Hosts |-> IF h \in nodes THEN "on" ELSE "over"]
      /\ tool' = [h \in Hosts |-> [t \in Works |->
             IF h \in nodes /\ t \in EnabledTools(h) THEN "waiting" ELSE "off"]]
  BY DEF StartTools, Restarted, request, results
<1>2. RequestOK' BY <1>1 DEF TypeOK, RequestOK
<1>3. HeapDump \notin tools BY WorksAre DEF TypeOK, RequestOK
<1>4. StateOK'
  <2>1. tool' \in [Hosts -> [Works -> Places]]
    <3>1. "off" \in Places /\ "waiting" \in Places BY DEF Places, HeapPlaces
    <3> QED BY <1>1, <3>1
  <2>2. \A h \in Hosts : tool'[h][HeapDump] \in HeapPlaces
    BY <1>1, <1>3, WorksAre DEF EnabledTools, HeapPlaces
  <2>3. host' \in [Hosts -> {"on", "settled", "over"}] BY <1>1
  <2> QED BY <1>1, <2>1, <2>2, <2>3 DEF TypeOK, StateOK, Phases
<1>5. ASSUME NEW h \in nodes PROVE RowInv(h)'
  <2>1. PlaceInv(h) /\ AccountInv(h) /\ CleanInv(h) BY DEF RowInv
  <2>2. h \in Hosts BY DEF TypeOK, RequestOK
  <2>3. host'[h] = "on" BY <1>1, <2>2
  <2>4. \A t \in Works : tool'[h][t] = IF t \in EnabledTools(h) THEN "waiting" ELSE "off"
    BY <1>1, <2>2, <1>5
  <2>5. \A t \in Tools : /\ tool'[h][t] \in {"off", "waiting"}
                         /\ tool'[h][t] # "off" => t \in tools
    BY <2>4, WorksAre DEF EnabledTools
  <2>6. PlaceInv(h)'
    <3>1. tool'[h][HeapDump] = "off" BY <2>4, <1>3, WorksAre DEF EnabledTools
    <3> QED BY <1>1, <2>3, <2>5, <3>1 DEF PlaceInv
  <2>7. AccountInv(h)'
    <3>1. \A t \in Tools : Accounted(h, t)' BY <2>5 DEF Accounted
    <3> QED BY <1>1, <2>1, <2>3, <3>1 DEF AccountInv, ToolsReported
  <2>8. CleanInv(h)'
    <3>1. \A t : Artefact(h, t)' = Artefact(h, t) BY <1>1 DEF Artefact
    <3>2. asprof[h] # "none" => tool'[h]["async-profiler"] = "waiting"
      BY <1>1, <2>1, <2>4, WorksAre DEF CleanInv, EnabledTools
    <3>3. asprof[h] = "none" => tool'[h]["async-profiler"] = "off"
      BY <2>4, WorksAre DEF EnabledTools
    <3>4. ASSUME NEW t \in MakesFile, Owing(h, t) PROVE Owing(h, t)'
      <4>1. CASE t = "async-profiler"
        BY <4>1, <3>2, <3>4, <1>1 DEF Owing, BeforeRemoval
      <4>2. CASE t # "async-profiler"
        <5>1. tool[h][t] = "off"
          BY <1>1, <2>1, <4>2, WorksAre DEF PlaceInv
        <5> QED BY <4>2, <5>1, <3>4 DEF Owing
      <4> QED BY <4>1, <4>2
    <3> QED BY <1>1, <2>1, <3>1, <3>2, <3>3, <3>4 DEF CleanInv
  <2>9. TextInv(h)' BY <2>3 DEF TextInv
  <2> QED BY <2>6, <2>7, <2>8, <2>9 DEF RowInv
<1> QED BY <1>1, <1>2, <1>4, <1>5 DEF TypeOK

LEMMA EndToolsStep ==
  ASSUME IInv, EndTools
  PROVE  IInv'
<1> USE DEF IInv
<1>1. /\ phase = "tools" /\ nodes' = nodes /\ tools' = tools
      /\ heapDump' = heapDump /\ asprof' = asprof /\ remote' = remote
      /\ excused' = excused /\ active' = active /\ view' = view
      /\ shown' = shown /\ outcome' = outcome /\ reported' = reported
      /\ tracked' = tracked
  BY DEF EndTools, request, results
<1>2. phase' \in {"heap", "ok"} /\ (phase' = "heap" <=> heapDump)
  BY DEF EndTools
<1>3. \A h \in nodes : host[h] = "over" BY DEF EndTools, PhaseOver, AllOver
<1>4. host' = IF heapDump THEN [h \in Hosts |-> IF h \in nodes THEN "on" ELSE "over"] ELSE host
  BY DEF EndTools, Restarted
<1>5. tool' = [h \in Hosts |-> [tool[h] EXCEPT ![HeapDump] =
             IF heapDump /\ h \in nodes THEN "waiting" ELSE "off"]]
  BY DEF EndTools
<1>6. tool \in [Hosts -> [Works -> Places]] BY DEF TypeOK, StateOK
<1>7. RequestOK' BY <1>1 DEF TypeOK, RequestOK
<1>8. \A h \in Hosts :
        /\ tool'[h] \in [Works -> Places]
        /\ tool'[h][HeapDump] = IF heapDump /\ h \in nodes THEN "waiting" ELSE "off"
        /\ \A t \in Tools : tool'[h][t] = tool[h][t]
  <2> TAKE h \in Hosts
  <2>1. tool[h] \in [Works -> Places] BY <1>6
  <2>2. "off" \in Places /\ "waiting" \in Places BY DEF Places, HeapPlaces
  <2>3. tool'[h] = [tool[h] EXCEPT ![HeapDump] = IF heapDump /\ h \in nodes THEN "waiting" ELSE "off"]
    BY <1>5
  <2> QED BY <2>1, <2>2, <2>3, WorksAre
<1>9. StateOK'
  <2>1. tool' \in [Hosts -> [Works -> Places]]
    <3>1. tool' = [h \in Hosts |-> tool'[h]] BY <1>5
    <3> QED BY <3>1, <1>8
  <2>2. \A h \in Hosts : tool'[h][HeapDump] \in HeapPlaces
    BY <1>8 DEF HeapPlaces
  <2>3. host' \in [Hosts -> {"on", "settled", "over"}] BY <1>4 DEF TypeOK, StateOK
  <2>4. transfers' \in Nat BY DEF EndTools, TypeOK, StateOK
  <2> QED BY <1>1, <1>2, <2>1, <2>2, <2>3, <2>4 DEF TypeOK, StateOK, Phases
<1>10. ASSUME NEW h \in nodes PROVE RowInv(h)'
  <2>1. PlaceInv(h) /\ AccountInv(h) /\ CleanInv(h) BY DEF RowInv
  <2>2. h \in Hosts BY DEF TypeOK, RequestOK
  <2>3. host[h] = "over" /\ ToolsOver(h) BY <1>1, <1>3, <2>1 DEF PlaceInv
  <2>4. IF phase' = "heap" THEN host'[h] = "on" /\ tool'[h][HeapDump] = "waiting"
                           ELSE host'[h] = "over" /\ tool'[h][HeapDump] = "off"
    BY <1>2, <1>4, <1>8, <2>2, <2>3, <1>10
  <2>5. \A t \in Tools : tool'[h][t] = tool[h][t] BY <1>8, <2>2
  <2>6. ToolsOver(h)' BY <2>3, <2>5 DEF ToolsOver
  <2>7. PlaceInv(h)'
    <3>1. \A t \in Tools : tool'[h][t] # "off" => t \in tools BY <2>1, <2>5 DEF PlaceInv
    <3> QED BY <1>1, <1>2, <2>4, <2>6, <3>1 DEF PlaceInv
  <2>8. AccountInv(h)'
    <3>1. \A t \in Tools : Accounted(h, t)' <=> Accounted(h, t)
      BY <1>1, <2>5 DEF Accounted
    <3>2. Failed(h)' = Failed(h) BY <1>1 DEF Failed
    <3>3. Failed(h) \subseteq reported[h] BY <1>1, <2>1, <2>3 DEF AccountInv, ToolsReported
    <3> QED BY <1>1, <1>2, <2>1, <3>1, <3>2, <3>3 DEF AccountInv
  <2>9. CleanInv(h)'
    <3>1. \A t : Artefact(h, t)' = Artefact(h, t) BY <1>1 DEF Artefact
    <3>2. tool[h][HeapDump] = "off" BY <1>1, <2>1 DEF PlaceInv
    <3>3. ASSUME NEW t \in MakesFile, Owing(h, t) PROVE Owing(h, t)'
      <4>1. CASE t = HeapDump BY <4>1, <3>2, <3>3 DEF Owing, HeapDump
      <4>2. CASE t # HeapDump
        <5>1. t \in Tools BY <4>2, WorksAre
        <5>2. tool[h][t] \in {"off", "ended"} BY <5>1, <2>3 DEF ToolsOver
        <5> QED BY <5>2, <3>3, <1>1 DEF Owing, BeforeRemoval
      <4> QED BY <4>1, <4>2
    <3>4. tool'[h]["async-profiler"] = tool[h]["async-profiler"] BY <2>5, WorksAre
    <3> QED BY <1>1, <1>2, <2>1, <3>1, <3>3, <3>4 DEF CleanInv
  <2>10. TextInv(h)' BY <1>2 DEF TextInv
  <2> QED BY <2>7, <2>8, <2>9, <2>10 DEF RowInv
<1> QED BY <1>1, <1>7, <1>9, <1>10 DEF TypeOK

LEMMA EndHeapDumpsStep ==
  ASSUME IInv, EndHeapDumps
  PROVE  IInv'
<1> USE DEF IInv
<1>1. /\ phase = "heap" /\ phase' = "ok" /\ nodes' = nodes /\ tools' = tools
      /\ heapDump' = heapDump /\ host' = host /\ asprof' = asprof /\ remote' = remote
      /\ excused' = excused /\ tool' = tool /\ active' = active /\ view' = view
      /\ shown' = shown /\ outcome' = outcome /\ reported' = reported
      /\ tracked' = tracked /\ transfers' = transfers + 1
      /\ \A h \in nodes : host[h] = "over"
  BY DEF EndHeapDumps, AllOver, request, node, results
<1>2. RequestOK' BY <1>1 DEF TypeOK, RequestOK
<1>3. StateOK' BY <1>1 DEF TypeOK, StateOK, Phases
<1>4. ASSUME NEW h \in nodes PROVE RowInv(h)'
  <2>1. PlaceInv(h) /\ AccountInv(h) /\ CleanInv(h) BY DEF RowInv
  <2>2. PlaceInv(h)' BY <1>1, <2>1 DEF PlaceInv, ToolsOver
  <2>3. AccountInv(h)' BY <1>1, <2>1 DEF AccountInv, Accounted, ToolsReported, Failed
  <2>4. CleanInv(h)'
    <3>1. \A t : Artefact(h, t)' = Artefact(h, t) /\ (Owing(h, t)' <=> Owing(h, t))
      BY <1>1 DEF Artefact, Owing
    <3> QED BY <1>1, <2>1, <3>1 DEF CleanInv
  <2>5. TextInv(h)' BY <1>1 DEF TextInv
  <2> QED BY <2>2, <2>3, <2>4, <2>5 DEF RowInv
<1> QED BY <1>1, <1>2, <1>3, <1>4 DEF TypeOK

LEMMA StutterStep ==
  ASSUME IInv, UNCHANGED vars
  PROVE  IInv'
<1>1. /\ phase' = phase /\ nodes' = nodes /\ tools' = tools /\ heapDump' = heapDump
      /\ host' = host /\ asprof' = asprof /\ remote' = remote
      /\ excused' = excused /\ tool' = tool /\ active' = active /\ view' = view
      /\ shown' = shown /\ outcome' = outcome /\ reported' = reported
      /\ tracked' = tracked /\ transfers' = transfers
  BY DEF vars, request, node, results
<1>2. TypeOK' BY <1>1 DEF IInv, TypeOK, RequestOK, StateOK
<1>3. \A h \in nodes : RowInv(h)'
  BY <1>1, RowFrame DEF IInv, Row
<1> QED BY <1>1, <1>2, <1>3 DEF IInv

LEMMA NextIInv == IInv /\ [Next]_vars => IInv'
<1> SUFFICES ASSUME IInv, [Next]_vars PROVE IInv' OBVIOUS
<1>1. CASE EndDistribution BY <1>1, EndDistributionStep
<1>2. CASE StartTools BY <1>2, StartToolsStep
<1>3. CASE EndTools BY <1>3, EndToolsStep
<1>4. CASE EndHeapDumps BY <1>4, EndHeapDumpsStep
<1>5. CASE \E h \in nodes : HostStep(h)
  <2>1. PICK h \in nodes : HostStep(h) BY <1>5
  <2> QED BY <2>1, DistributeStep, SettleStep, ReportErrorsStep, StartHeapDumpStep,
             EndHeapDumpStep DEF HostStep
<1>6. CASE \E h \in nodes : \E t \in Works : ToolStep(h, t) \/ Work(h, t)
  <2>1. PICK h \in nodes, t \in Works : ToolStep(h, t) \/ Work(h, t) BY <1>6
  <2>2. CASE ToolStep(h, t)
    BY <2>2, EnterStep, LookStep, PostStep, CommandWorksStep, LeaveStep DEF ToolStep
  <2>3. CASE Work(h, t)
    BY <2>3, WorkFailsStep, RecordStep, StreamStep, RemoveStep DEF Work
  <2> QED BY <2>1, <2>2, <2>3
<1>7. CASE UNCHANGED vars BY <1>7, StutterStep
<1> QED BY <1>1, <1>2, <1>3, <1>4, <1>5, <1>6, <1>7 DEF Next, Main

(* The invariant holds of every run of the JVM phases.                      *)
THEOREM SpecIInv == Spec => []IInv
BY InitIInv, NextIInv, PTL DEF Spec

-----------------------------------------------------------------------------
(* When a node is through with its tools its text has settled: no name that *)
(* a goroutine read before the others ended is posted after them.           *)
THEOREM TextsSettle == Spec => []TextSettles
<1>1. IInv => TextSettles
  BY DEF IInv, RowInv, TextInv, TextSettles
<1> QED BY <1>1, SpecIInv, PTL

(* Every tool that ran has files, an error shown for its node, or ended in  *)
(* one of the two known silences.                                           *)
THEOREM ToolsAccountedFor == Spec => []ToolsAccounted
<1>1. ASSUME IInv PROVE ToolsAccounted
  <2> SUFFICES ASSUME NEW h \in nodes, NEW t \in Tools, host[h] = "over", tool[h][t] # "off"
               PROVE  \/ t \in tracked[h] \cup reported[h]
                      \/ outcome[h][t] = "unseen"
                      \/ outcome[h][t] = "lost" /\ t = "async-profiler"
    BY DEF ToolsAccounted
  <2>1. PlaceInv(h) /\ AccountInv(h) /\ phase \in Phases
    BY <1>1 DEF IInv, RowInv, TypeOK, StateOK
  <2>2. ToolsReported(h) /\ ToolsOver(h)
    BY <2>1 DEF PlaceInv, Phases, ToolsReported
  <2>3. tool[h][t] = "ended" BY <2>2 DEF ToolsOver
  <2>4. Accounted(h, t) /\ Failed(h) \subseteq reported[h]
    BY <2>1, <2>2 DEF AccountInv
  <2>5. outcome[h][t] = "failed" => t \in reported[h] BY <2>4 DEF Failed
  <2> QED BY <2>3, <2>4, <2>5 DEF Accounted
<1> QED BY <1>1, SpecIInv, PTL

(* When the phases are over, whatever is left on a node is there because    *)
(* its removal failed or the code gave up before it.                        *)
THEOREM NodesCleaned == Spec => []RemoteCleaned
<1>1. ASSUME IInv PROVE RemoteCleaned
  <2> SUFFICES ASSUME Done, NEW h \in nodes, NEW a \in remote[h], a \notin excused[h]
               PROVE  FALSE
    BY DEF RemoteCleaned
  <2>1. PlaceInv(h) /\ CleanInv(h) /\ phase = "ok" BY <1>1 DEF IInv, RowInv, Done
  <2>2. PICK t \in MakesFile : Owing(h, t) BY <2>1 DEF CleanInv
  <2>3. \A u \in Works : tool[h][u] \in {"off", "ended"}
    BY <2>1, WorksAre DEF PlaceInv, ToolsOver
  <2> QED BY <2>1, <2>2, <2>3, WorksAre DEF Owing, BeforeRemoval
<1> QED BY <1>1, SpecIInv, PTL

-----------------------------------------------------------------------------
(* The refinement: the ends of the two phases are the steps of JvmContract, *)
(* and whatever happens within a phase stutters.                            *)
CPhase == IF phase \in {"dist", "start"} THEN "tools" ELSE phase

LEMMA InitContract == Init => Contract!Init
<1> SUFFICES ASSUME Init PROVE Contract!Init OBVIOUS
<1>1. /\ phase = IF nodes = {} THEN "ok" ELSE IF "async-profiler" \in tools THEN "dist" ELSE "start"
      /\ transfers = 0 /\ tracked = [h \in Hosts |-> {}]
  BY DEF Init
<1>2. nodes \subseteq Hosts BY InitIInv DEF IInv, TypeOK, RequestOK
<1>3. Gathered = {} BY <1>1, <1>2 DEF Gathered
<1>4. CPhase = IF nodes = {} THEN "ok" ELSE "tools" BY <1>1 DEF CPhase
<1> QED BY <1>1, <1>3, <1>4 DEF Contract!Init, CPhase

(* A goroutine of a tool adds files in its own phase alone.                 *)
TrackedInPhase ==
  /\ phase = "heap" => \A g \in nodes : tracked'[g] \ {HeapDump} = tracked[g] \ {HeapDump}
  /\ phase = "ok" => tracked' = tracked

LEMMA TracksInPhase ==
  ASSUME IInv, NEW h \in nodes, NEW t \in Works, tool[h][t] \in {"running", "recorded"},
         NEW more \in SUBSET {t},
         tracked' = [tracked EXCEPT ![h] = @ \cup more]
  PROVE  TrackedInPhase
<1>1. h \in Hosts /\ TypeOK /\ RowInv(h) BY DEF IInv, TypeOK, RequestOK
<1>2. /\ tracked'[h] = tracked[h] \cup more
      /\ \A g \in Hosts : g # h => tracked'[g] = tracked[g]
  BY <1>1 DEF TypeOK, StateOK
<1>3. CASE t \in Tools
  <2>1. phase = "tools" BY <1>1, <1>3, ToolBusy
  <2> QED BY <2>1 DEF TrackedInPhase
<1>4. CASE t = HeapDump
  <2>1. phase = "heap" BY <1>1, <1>4, HeapDumpBusy
  <2>2. \A g \in nodes : tracked'[g] \ {HeapDump} = tracked[g] \ {HeapDump}
    BY <1>1, <1>2, <1>4 DEF TypeOK, RequestOK
  <2> QED BY <2>1, <2>2 DEF TrackedInPhase
<1> QED BY <1>3, <1>4, WorksAre

LEMMA HostsTrackInPhase ==
  ASSUME IInv, NEW h \in nodes,
         HostStep(h) \/ \E t \in Works : ToolStep(h, t) \/ Work(h, t)
  PROVE  /\ TrackedInPhase
         /\ nodes' = nodes /\ tools' = tools /\ heapDump' = heapDump
         /\ phase' = phase /\ transfers' = transfers
<1>1. CASE tracked' = tracked
  <2>1. TrackedInPhase BY <1>1 DEF TrackedInPhase
  <2>2. /\ nodes' = nodes /\ tools' = tools /\ heapDump' = heapDump
        /\ phase' = phase /\ transfers' = transfers
    BY DEF HostStep, ToolStep, Work, Distribute, Settle, ReportErrors, StartHeapDump,
           EndHeapDump, Enter, Look, Post, CommandWorks, Leave, WorkFails, Record, Stream,
           Remove, request
  <2> QED BY <2>1, <2>2
<1>2. CASE \E t \in Works : CommandWorks(h, t)
  <2>1. PICK t \in Works : CommandWorks(h, t) BY <1>2
  <2>2. PICK how \in {"done", "unseen"} :
          tracked' = [tracked EXCEPT ![h] = IF how = "done" THEN @ \cup {t} ELSE @]
    BY <2>1 DEF CommandWorks
  <2> DEFINE more == IF how = "done" THEN {t} ELSE {}
  <2>3. tracked' = [tracked EXCEPT ![h] = @ \cup more]
    BY <2>2
  <2>4. tool[h][t] = "running" BY <2>1 DEF CommandWorks
  <2>5. TrackedInPhase
    <3>1. more \in SUBSET {t} OBVIOUS
    <3> HIDE DEF more
    <3> QED BY <2>3, <2>4, <3>1, TracksInPhase
  <2> QED BY <2>1, <2>5 DEF CommandWorks, request
<1>3. CASE \E t \in Works : Stream(h, t)
  <2>1. PICK t \in Works : Stream(h, t) BY <1>3
  <2>2. PICK how \in {"done", "unseen", "lost"} :
          tracked' = [tracked EXCEPT ![h] = IF how = "done" THEN @ \cup {t} ELSE @]
    BY <2>1 DEF Stream
  <2> DEFINE more == IF how = "done" THEN {t} ELSE {}
  <2>3. tracked' = [tracked EXCEPT ![h] = @ \cup more]
    BY <2>2
  <2>4. tool[h][t] = "recorded" BY <2>1 DEF Stream
  <2>5. TrackedInPhase
    <3>1. more \in SUBSET {t} OBVIOUS
    <3> HIDE DEF more
    <3> QED BY <2>3, <2>4, <3>1, TracksInPhase
  <2> QED BY <2>1, <2>5 DEF Stream, request
<1> QED BY <1>1, <1>2, <1>3
        DEF HostStep, ToolStep, Work, Distribute, Settle, ReportErrors, StartHeapDump,
            EndHeapDump, Enter, Look, Post, Leave, WorkFails, Record, Remove, results

LEMMA HostStutters ==
  ASSUME IInv, TrackedInPhase, nodes' = nodes, tools' = tools, heapDump' = heapDump,
         phase' = phase, transfers' = transfers
  PROVE  UNCHANGED Contract!vars
<1>1. Gathered' = Gathered
  <2>1. CASE phase \in {"dist", "start", "tools"} BY <2>1 DEF Gathered
  <2>2. CASE phase = "heap"
    <3>1. Gathered = {h \in nodes : tracked[h] \ {HeapDump} # {}} BY <2>2 DEF Gathered
    <3>2. Gathered' = {h \in nodes : tracked'[h] \ {HeapDump} # {}} BY <2>2 DEF Gathered
    <3> QED BY <2>2, <3>1, <3>2 DEF TrackedInPhase
  <2>3. CASE phase = "ok" BY <2>3 DEF Gathered, TrackedInPhase
  <2> QED BY <2>1, <2>2, <2>3 DEF IInv, TypeOK, StateOK, Phases
<1> QED BY <1>1 DEF Contract!vars, Contract!request

LEMMA EndToolsContract ==
  ASSUME IInv, EndTools
  PROVE  Contract!Next
<1>1. /\ phase = "tools" /\ nodes' = nodes /\ tools' = tools /\ heapDump' = heapDump
      /\ tracked' = tracked
      /\ phase' = IF heapDump THEN "heap" ELSE "ok"
      /\ transfers' = IF tools = {} THEN transfers ELSE transfers + 1
  BY DEF EndTools, request, results
<1>2. \A h \in nodes : tracked[h] \subseteq tools
  BY <1>1 DEF IInv, RowInv, AccountInv
<1>3. Gathered' \in SUBSET (IF tools = {} THEN {} ELSE nodes)
  <2>1. CASE heapDump
    <3>1. Gathered' = {h \in nodes : tracked[h] \ {HeapDump} # {}} BY <1>1, <2>1 DEF Gathered
    <3> QED BY <1>2, <3>1
  <2>2. CASE ~heapDump
    <3>1. Gathered' = {h \in nodes : tracked[h] # {}} BY <1>1, <2>2 DEF Gathered
    <3> QED BY <1>2, <3>1
  <2> QED BY <2>1, <2>2
<1>4. CPhase = "tools" /\ CPhase' = IF heapDump THEN "heap" ELSE "ok"
  BY <1>1 DEF CPhase
<1>5. Contract!RunTools
  BY <1>1, <1>3, <1>4 DEF Contract!RunTools, Contract!request, CPhase
<1> QED BY <1>5 DEF Contract!Next

LEMMA EndHeapDumpsContract ==
  ASSUME IInv, EndHeapDumps
  PROVE  Contract!Next
<1>1. /\ phase = "heap" /\ nodes' = nodes /\ tools' = tools /\ heapDump' = heapDump
      /\ tracked' = tracked /\ phase' = "ok" /\ transfers' = transfers + 1
  BY DEF EndHeapDumps, request, results
<1>2. /\ Gathered = {h \in nodes : tracked[h] \ {HeapDump} # {}}
      /\ Gathered' = {h \in nodes : tracked[h] # {}}
  BY <1>1 DEF Gathered
<1>3. Gathered' \in SUBSET nodes /\ Gathered \subseteq Gathered'
  BY <1>2
<1>4. CPhase = "heap" /\ CPhase' = "ok" BY <1>1 DEF CPhase
<1>5. Contract!RunHeapDumps
  BY <1>1, <1>3, <1>4 DEF Contract!RunHeapDumps, Contract!request, CPhase
<1> QED BY <1>5 DEF Contract!Next

LEMMA NextContract == IInv /\ [Next]_vars => [Contract!Next]_Contract!vars
<1> SUFFICES ASSUME IInv, [Next]_vars PROVE [Contract!Next]_Contract!vars OBVIOUS
<1>1. CASE EndDistribution \/ StartTools
  <2>1. /\ phase \in {"dist", "start"} /\ phase' \in {"start", "tools"}
        /\ nodes' = nodes /\ tools' = tools /\ heapDump' = heapDump /\ transfers' = transfers
    BY <1>1 DEF EndDistribution, StartTools, request
  <2>2. Gathered = {} /\ Gathered' = {} BY <2>1 DEF Gathered
  <2>3. CPhase' = CPhase BY <2>1 DEF CPhase
  <2> QED BY <2>1, <2>2, <2>3 DEF Contract!vars, Contract!request, CPhase
<1>2. CASE EndTools BY <1>2, EndToolsContract
<1>3. CASE EndHeapDumps BY <1>3, EndHeapDumpsContract
<1>4. ASSUME NEW h \in nodes,
             HostStep(h) \/ \E t \in Works : ToolStep(h, t) \/ Work(h, t)
      PROVE  UNCHANGED Contract!vars
  BY <1>4, HostsTrackInPhase, HostStutters
<1>5. CASE UNCHANGED vars
  <2>1. /\ phase' = phase /\ nodes' = nodes /\ tools' = tools /\ heapDump' = heapDump
        /\ transfers' = transfers /\ tracked' = tracked
    BY <1>5 DEF vars, request, results
  <2>2. TrackedInPhase BY <2>1 DEF TrackedInPhase
  <2> QED BY <2>1, <2>2, HostStutters
<1> QED BY <1>1, <1>2, <1>3, <1>4, <1>5 DEF Next, Main

(* The phases with all their goroutines are, for the caller, two steps in   *)
(* this order, and no tool adds a file while heap dumps are taken.          *)
THEOREM JvmRefinement == Spec => ImplementsContract
BY InitContract, NextContract, SpecIInv, PTL DEF Spec, ImplementsContract, Contract!Spec

=============================================================================

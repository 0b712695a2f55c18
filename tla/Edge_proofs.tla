----------------------------- MODULE Edge_proofs -----------------------------
(***************************************************************************)
(* Proofs about the parts at the edge of the collection, one part after    *)
(* another: the settings of a run, the commands of the cli, the cluster    *)
(* data, the problematic profiles, the discovery of a host and the Kube    *)
(* API transport.  Each has an inductive invariant of its own, and the     *)
(* parts share no state.                                                   *)
(***************************************************************************)
EXTENDS Settings, CliExec, ClusterData, ProfileCollection, Discovery, KubeTransport,
        SequenceTheorems, FiniteSetTheorems, NaturalsInduction, WellFoundedInduction, TLAPS

(***************************************************************************)
(* Settings, for any number of flags on the command line, the form's or the*)
(* user's.  The property looks at the end of a run only; the invariant     *)
(* carries to it that a run starts from the values that init() registered  *)
(* last, those of the diagnosis, and that without the form nothing but the *)
(* given flags has changed them.                                           *)
(***************************************************************************)
RunInv ==
  /\ mode \in Modes
  /\ connection \in Transports
  /\ withForm \in BOOLEAN
  /\ phase \in {"parse", "form", "resolve", "ended"}
  /\ phase = "form" => withForm

(* The global variables of a run, until the settings are decided from them. *)
GlobalInv ==
  /\ phase = "parse" => global = Registered
  /\ phase = "resolve" /\ ~withForm =>
       global = [Registered EXCEPT !.on = (@ \ DOMAIN given) \cup On(given)]

SettingsInv == RunInv /\ GlobalInv /\ UnsetFlagsFollowTheMode

-----------------------------------------------------------------------------
(* The days: the number of the command registered last counts in the        *)
(* diagnosis only, where it is the diagnosis's own.                         *)
LEMMA DaysDecided ==
  ASSUME RunInv, global.daysFlag = Registered.daysFlag, global.perfDays = Registered.perfDays
  PROVE  (IF DiagLogDays > 0 THEN DiagLogDays ELSE global.perfDays) = Profile(mode).days
BY DEF RunInv, Modes, DiagLogDays, Profile, Registered, StandardCollectionProfile,
       DiagnosisCollectionProfile

(* What is on in the standard mode, of the choices that have no flag.       *)
LEMMA StandardUnset ==
  ASSUME RunInv, ~withForm, mode = "standard",
         global.on = (Registered.on \ DOMAIN given) \cup On(given)
  PROVE  (Args \ (Logs \ StandardLogs)) \ DOMAIN given = ModeDefault \ DOMAIN given
<1>1. On(given) \subseteq DOMAIN given  BY DEF On
<1>2. ModeDefault = StandardCollectionProfile.on  BY DEF ModeDefault, Profile
<1>3. "container" \notin DOMAIN given => ~ContainerLogs
  BY DEF ContainerLogs
<1>4. "meta_refresh" \notin DOMAIN given => ~ResolveMetaRefresh
  BY <1>1 DEF ResolveMetaRefresh, ConfData, Profile, StandardCollectionProfile
<1>5. ASSUME NEW x, x \notin DOMAIN given
      PROVE  x \in Args \ (Logs \ StandardLogs) <=> x \in StandardCollectionProfile.on
  <2>1. x \in global.on <=> x \in DiagnosisCollectionProfile.on \ {"reflection"}
    BY <1>1, <1>5 DEF Registered
  <2>2. x \in Args <=> \/ /\ x \in DiagnosisCollectionProfile.on
                          /\ x \notin {"reflection", "meta_refresh", "container", "gc"} \cup OptIns
                       \/ x = "reflection"
    BY <1>3, <1>4, <1>5, <2>1 DEF Args
  <2>3. QED
    BY <2>2 DEF DiagnosisCollectionProfile, StandardCollectionProfile, Logs, StandardLogs, OptIns
<1>6. QED  BY <1>2, <1>5

(* The same of the diagnosis, whose default has container logs on           *)
(* Kubernetes.                                                              *)
LEMMA DiagnosisUnset ==
  ASSUME RunInv, ~withForm, mode = "diagnosis",
         global.on = (Registered.on \ DOMAIN given) \cup On(given)
  PROVE  Args \ DOMAIN given = ModeDefault \ DOMAIN given
<1>1. On(given) \subseteq DOMAIN given  BY DEF On
<1>2. "container" \notin DOMAIN given =>
        (ContainerLogs <=> connection \in {"k8s", "local-k8s"})
  BY DEF ContainerLogs
<1>3. "meta_refresh" \notin DOMAIN given => ResolveMetaRefresh
  BY DEF ResolveMetaRefresh, ConfData, Profile, DiagnosisCollectionProfile
<1>4. ASSUME NEW x, x \notin DOMAIN given PROVE x \in Args <=> x \in ModeDefault
  <2>1. x \in global.on <=> x \in DiagnosisCollectionProfile.on \ {"reflection"}
    BY <1>1, <1>4 DEF Registered
  <2>2. x \in Args <=> \/ x \in DiagnosisCollectionProfile.on
                       \/ x = "container" /\ connection \in {"k8s", "local-k8s"}
    BY <1>2, <1>3, <1>4, <2>1 DEF Args, DiagnosisCollectionProfile, StandardCollectionProfile
  <2>3. QED  BY <2>2 DEF ModeDefault, Profile
<1>5. QED  BY <1>4

-----------------------------------------------------------------------------
(* A run starts with the values that init() has registered.                 *)
THEOREM SettingsInit == STInit => SettingsInv
BY DEF STInit, SettingsInv, RunInv, GlobalInv, UnsetFlagsFollowTheMode, Settled

(* What a run without the form collects, as far as its flags do not say.    *)
LEMMA DecideStep ==
  ASSUME SettingsInv, Decide PROVE SettingsInv'
<1>1. RunInv' /\ GlobalInv'
  BY DEF SettingsInv, RunInv, GlobalInv, Decide, choiceVars
<1>2. UnsetFlagsFollowTheMode'
  <2> SUFFICES ASSUME ~withForm
               PROVE  /\ effect'.days = Profile(mode).days
                      /\ effect'.on \ DOMAIN given = ModeDefault \ DOMAIN given
    BY DEF UnsetFlagsFollowTheMode, Settled, ModeDefault, Decide, choiceVars
  <2>1. /\ RunInv
        /\ global = [Registered EXCEPT !.on = (@ \ DOMAIN given) \cup On(given)]
    BY DEF SettingsInv, GlobalInv, Decide
  <2>2. /\ global.on = (Registered.on \ DOMAIN given) \cup On(given)
        /\ global.daysFlag = Registered.daysFlag /\ global.perfDays = Registered.perfDays
    BY <2>1 DEF Registered
  <2>3. effect'.days = Profile(mode).days
    BY <2>1, <2>2, DaysDecided DEF Decide
  <2>4. effect'.on = IF mode = "diagnosis" THEN Args ELSE Args \ (Logs \ StandardLogs)
    BY DEF Decide
  <2>5. QED
    BY <2>1, <2>2, <2>3, <2>4, StandardUnset, DiagnosisUnset DEF RunInv, Modes
<1>3. QED  BY <1>1, <1>2 DEF SettingsInv

(* Every step of a run keeps the invariant.                                 *)
THEOREM SettingsNext == SettingsInv /\ [STNext]_stVars => SettingsInv'
<1> SUFFICES ASSUME SettingsInv, [STNext]_stVars PROVE SettingsInv'  OBVIOUS
<1>1. CASE Parse
  BY <1>1 DEF SettingsInv, RunInv, GlobalInv, UnsetFlagsFollowTheMode, Settled, Parse, choiceVars
<1>2. CASE RunStandardConfigScreen \/ RunDiagnosisConfigScreen
  BY <1>2 DEF SettingsInv, RunInv, GlobalInv, UnsetFlagsFollowTheMode, Settled,
              RunStandardConfigScreen, RunDiagnosisConfigScreen, SubmitForm
<1>3. CASE Decide
  BY <1>3, DecideStep
<1>4. CASE RunGeneratedCommand
  BY <1>4 DEF SettingsInv, RunInv, GlobalInv, UnsetFlagsFollowTheMode, Settled, RunGeneratedCommand
<1>5. CASE UNCHANGED stVars
  BY <1>5 DEF SettingsInv, RunInv, GlobalInv, UnsetFlagsFollowTheMode, Settled, ModeDefault,
              stVars, choiceVars
<1>6. QED  BY <1>1, <1>2, <1>3, <1>4, <1>5 DEF STNext

(* Whatever flags are given, and whether a user gave them or the form       *)
(* printed them, what they do not say is as the mode of the run has it,     *)
(* although the global variables start from those of the diagnosis.         *)
THEOREM UnsetAsTheMode == STSpec => []UnsetFlagsFollowTheMode
<1>1. SettingsInv => UnsetFlagsFollowTheMode  BY DEF SettingsInv
<1>2. QED  BY <1>1, SettingsInit, SettingsNext, PTL DEF STSpec

-----------------------------------------------------------------------------
(***************************************************************************)
(* CliExec, for any lines, any size of the pipes and any limit of a line.  *)
(* The scanner of a pipe hands on the lines from the first one and holds a *)
(* part of the next; a last text that is no line is there only when the    *)
(* child was killed, or when the scanner gave up on a line over its limit. *)
(***************************************************************************)
CliTypes ==
  /\ output \in Outputs
  /\ child \in {"unstarted", "running", "exited", "failed", "killed"}
  /\ written \in [Pipes -> Nat]
  /\ taken \in [Pipes -> Nat]
  /\ scanner \in [Pipes -> {"scanning", "done"}]
  /\ handled \in [Pipes -> Seq(Nat)]
  /\ call \in {"start", "scan", "wait", "ok", "error"}

PipeInv(p) ==
  /\ taken[p] <= written[p] /\ written[p] <= Size(p)
  /\ child \in {"exited", "failed"} => written[p] = Size(p)

(* What the handler has had are the first lines of the pipe.                *)
FirstLines(p) ==
  /\ Len(handled[p]) <= Len(output[p])
  /\ \A i \in 1 .. Len(handled[p]) : handled[p][i] = output[p][i]

(* What the scanner holds is a part of the next line.                       *)
NextLine(p) ==
  /\ 0 <= Held(p) /\ Held(p) <= MaxToken
  /\ Len(handled[p]) < Len(output[p]) => taken[p] < output[p][Len(handled[p]) + 1]

CutLine(p) ==
  LET k == Len(handled[p]) IN
  /\ 0 < k /\ k <= Len(output[p])
  /\ \A i \in 1 .. k - 1 : handled[p][i] = output[p][i]
  /\ EndOf(output[p], k - 1) < handled[p][k] /\ handled[p][k] < output[p][k]

ScanInv(p) ==
  /\ scanner[p] = "scanning" => FirstLines(p) /\ NextLine(p)
  /\ scanner[p] = "done" =>
       \/ FirstLines(p) /\ TooLong(p)
       \/ child \in {"exited", "failed"} /\ handled[p] = output[p]
       \/ child = "killed" /\ (FirstLines(p) \/ CutLine(p))

CallInv ==
  /\ call \in {"wait", "ok"} => ScannersDone
  /\ call = "ok" => child = "exited"
  /\ child = "unstarted" => call \in {"start", "error"}
  /\ call = "start" => child = "unstarted"

CliInv == CliTypes /\ CallInv /\ \A p \in Pipes : PipeInv(p) /\ ScanInv(p)

-----------------------------------------------------------------------------
(* A stream is the sequence of the ends of its lines.                       *)
LEMMA StreamLegal ==
  ASSUME CliTypes, NEW p \in Pipes
  PROVE  /\ output[p] \in Seq(Nat) /\ Len(output[p]) \in Nat
         /\ handled[p] \in Seq(Nat) /\ Len(handled[p]) \in Nat
         /\ \A i \in 1 .. Len(output[p]) : output[p][i] \in Nat /\ output[p][i] > 0
         /\ \A i, j \in 1 .. Len(output[p]) : i < j => output[p][i] < output[p][j]
         /\ \A i \in 1 .. Len(handled[p]) : handled[p][i] \in Nat
         /\ taken[p] \in Nat /\ written[p] \in Nat /\ Size(p) \in Nat
         /\ EndOf(handled[p], Len(handled[p])) \in Nat
         /\ DOMAIN output[p] = 1 .. Len(output[p])
         /\ DOMAIN handled[p] = 1 .. Len(handled[p])
<1>1. output \in [Pipes -> Seq(Nat \ {0})]  BY OutputsLegal DEF CliTypes
<1>2. output[p] \in Seq(Nat \ {0}) /\ handled[p] \in Seq(Nat)  BY <1>1 DEF CliTypes
<1>3. \A i, j \in 1 .. Len(output[p]) : i < j => output[p][i] < output[p][j]
  BY OutputsLegal DEF CliTypes
<1>4. /\ \A i \in 1 .. Len(output[p]) : output[p][i] \in Nat \ {0}
      /\ \A i \in 1 .. Len(handled[p]) : handled[p][i] \in Nat
  BY <1>2
<1>5. output[p] \in Seq(Nat)
  BY <1>2
<1>6. taken[p] \in Nat /\ written[p] \in Nat  BY DEF CliTypes
<1>7. Size(p) \in Nat /\ EndOf(handled[p], Len(handled[p])) \in Nat
  BY <1>2, <1>4 DEF Size, EndOf
<1>8. QED  BY <1>2, <1>3, <1>4, <1>5, <1>6, <1>7

(* The line the scanner is in begins where the last one handed on ended.    *)
LEMMA LineBegins ==
  ASSUME CliTypes, NEW p \in Pipes, FirstLines(p)
  PROVE  EndOf(handled[p], Len(handled[p])) = EndOf(output[p], Len(handled[p]))
<1>1. Len(handled[p]) \in Nat  BY StreamLegal
<1>2. CASE Len(handled[p]) = 0
  BY <1>2 DEF EndOf
<1>3. CASE Len(handled[p]) # 0
  <2>1. Len(handled[p]) \in 1 .. Len(handled[p])  BY <1>1, <1>3
  <2>2. QED  BY <1>3, <2>1 DEF EndOf, FirstLines
<1>4. QED  BY <1>2, <1>3

(* While a line is not over, the scanner holds a part of it.                *)
LEMMA MidLine ==
  ASSUME CliTypes, NEW p \in Pipes, FirstLines(p), NextLine(p), taken[p] <= Size(p),
         Held(p) # 0
  PROVE  /\ Len(handled[p]) < Len(output[p])
         /\ EndOf(output[p], Len(handled[p])) < taken[p]
<1>1. EndOf(handled[p], Len(handled[p])) < taken[p]
  BY StreamLegal DEF NextLine, Held
<1>2. Len(handled[p]) # Len(output[p])
  BY <1>1, StreamLegal, LineBegins DEF Size
<1>3. QED  BY <1>1, <1>2, StreamLegal, LineBegins DEF FirstLines

(* When the scanner has read all of a stream, it has handed on all lines.   *)
LEMMA AllRead ==
  ASSUME CliTypes, NEW p \in Pipes, FirstLines(p), NextLine(p), taken[p] = Size(p)
  PROVE  handled[p] = output[p] /\ Held(p) = 0
<1> DEFINE k == Len(handled[p])
           n == Len(output[p])
<1>1. k = n
  <2> SUFFICES ASSUME k < n PROVE FALSE
    BY StreamLegal DEF FirstLines
  <2>1. k + 1 \in 1 .. n /\ n \in 1 .. n /\ taken[p] < output[p][k + 1] /\ taken[p] = output[p][n]
    <3>1. k \in Nat /\ n \in Nat  BY StreamLegal
    <3>2. taken[p] < output[p][k + 1]  BY DEF NextLine
    <3>3. taken[p] = output[p][n]  BY <3>1 DEF Size, EndOf
    <3>4. QED  BY <3>1, <3>2, <3>3
  <2>2. k + 1 = n \/ output[p][k + 1] < output[p][n]
    <3>1. k \in Nat /\ n \in Nat /\ k < n  BY StreamLegal
    <3>2. \A i, j \in 1 .. n : i < j => output[p][i] < output[p][j]
      BY StreamLegal
    <3>3. QED  BY <2>1, <3>1, <3>2
  <2>3. QED  BY <2>1, <2>2, StreamLegal
<1>2. handled[p] = output[p]
  <2>1. \A i \in 1 .. Len(handled[p]) : handled[p][i] = output[p][i]  BY DEF FirstLines
  <2>2. QED  BY <1>1, <2>1, StreamLegal, SeqEqual
<1>3. QED  BY <1>2, StreamLegal DEF Held, Size

-----------------------------------------------------------------------------
LEMMA CliInit == CEInit => CliInv
<1> SUFFICES ASSUME CEInit PROVE CliInv  OBVIOUS
<1>1. CliTypes /\ CallInv
  BY DEF CEInit, CliTypes, CallInv
<1>2. ASSUME NEW p \in Pipes PROVE PipeInv(p) /\ ScanInv(p)
  <2>1. /\ taken[p] = 0 /\ written[p] = 0 /\ handled[p] = <<>> /\ scanner[p] = "scanning"
        /\ Len(handled[p]) = 0 /\ child = "unstarted"
    BY DEF CEInit
  <2>2. PipeInv(p)  BY <1>1, <2>1, StreamLegal DEF PipeInv
  <2>3. FirstLines(p) /\ NextLine(p)
    BY <1>1, <2>1, StreamLegal, LimitsPositive DEF FirstLines, NextLine, Held, EndOf
  <2>4. QED  BY <2>1, <2>2, <2>3 DEF ScanInv
<1>3. QED  BY <1>1, <1>2 DEF CliInv

(* The steps of the child and of the caller leave the scanners alone.       *)
LEMMA ChildStep ==
  ASSUME CliInv, \/ Start \/ Exit \/ Kill \/ WaitForScanners \/ WaitForChild
                 \/ \E p \in Pipes : Write(p)
  PROVE  CliInv'
<1>1. /\ UNCHANGED <<output, taken, scanner, handled>>
      /\ child' = child \/ (child \in {"unstarted", "running"} /\ child' # "unstarted")
      /\ child' # "running" => written' = written
  <2>1. CASE Start \/ Exit \/ Kill \/ WaitForScanners \/ WaitForChild
    BY <2>1 DEF Start, Exit, Kill, WaitForScanners, WaitForChild, CliInv, CallInv
  <2>2. ASSUME NEW p \in Pipes, Write(p)
        PROVE  UNCHANGED <<output, taken, scanner, handled, child>> /\ child = "running"
    BY <2>2 DEF Write
  <2>3. QED  BY <2>1, <2>2
<1>2. CliTypes' /\ CallInv'
  <2>1. CliTypes /\ CallInv  BY DEF CliInv
  <2>2. CASE Start \/ Exit \/ Kill
    BY <2>1, <2>2 DEF CliTypes, CallInv, ScannersDone, Start, Exit, Kill
  <2>3. CASE WaitForScanners \/ WaitForChild
    BY <2>1, <2>3 DEF CliTypes, CallInv, ScannersDone, WaitForScanners, WaitForChild
  <2>4. ASSUME NEW p \in Pipes, Write(p) PROVE CliTypes' /\ CallInv'
    BY <2>1, <2>4 DEF CliTypes, CallInv, ScannersDone, Write
  <2>5. QED  BY <2>2, <2>3, <2>4
<1>4. ASSUME NEW p \in Pipes PROVE PipeInv(p)' /\ ScanInv(p)'
  <2>1. CliTypes /\ PipeInv(p) /\ ScanInv(p)  BY DEF CliInv
  <2>2. PipeInv(p)'
    <3>1. written'[p] = written[p] \/ (written'[p] = written[p] + 1 /\ written[p] < Size(p))
      BY <2>1 DEF Start, Exit, Kill, WaitForScanners, WaitForChild, Write, CliTypes
    <3>2. child' \in {"exited", "failed"} => written'[p] = Size(p)
      BY <2>1 DEF PipeInv, Start, Exit, Kill, WaitForScanners, WaitForChild, Write
    <3>3. Size(p)' = Size(p)  BY <1>1 DEF Size, EndOf
    <3>4. QED  BY <1>1, <2>1, <3>1, <3>2, <3>3, StreamLegal DEF PipeInv
  <2>3. ScanInv(p)'
    BY <1>1, <2>1 DEF ScanInv, FirstLines, NextLine, CutLine, TooLong, Held, EndOf
  <2>4. QED  BY <2>2, <2>3
<1>5. QED  BY <1>2, <1>4 DEF CliInv

(* A step of one scanner does not concern the other pipe.                   *)
LEMMA OtherPipe ==
  ASSUME CliInv, NEW q \in Pipes, UNCHANGED <<output, child, written>>,
         taken'[q] = taken[q], scanner'[q] = scanner[q], handled'[q] = handled[q]
  PROVE  PipeInv(q)' /\ ScanInv(q)'
BY DEF CliInv, PipeInv, ScanInv, FirstLines, NextLine, CutLine, TooLong, Held, Size, EndOf

(* A block is read, and perhaps ends the line.                              *)
LEMMA ScanStep ==
  ASSUME CliInv, NEW p \in Pipes, Scan(p)
  PROVE  CliInv'
<1>1. /\ CliTypes /\ CallInv /\ PipeInv(p) /\ FirstLines(p) /\ NextLine(p)
      /\ scanner[p] = "scanning" /\ call = "scan" /\ Held(p) < MaxToken
      /\ taken[p] < written[p]
  BY DEF CliInv, ScanInv, Scan, Scanning
<1>2. /\ UNCHANGED <<output, child, written, scanner, call>>
      /\ taken' = [taken EXCEPT ![p] = @ + 1]
      /\ taken'[p] = taken[p] + 1 /\ taken' \in [Pipes -> Nat]
      /\ \A q \in Pipes \ {p} : taken'[q] = taken[q] /\ handled'[q] = handled[q]
  BY <1>1 DEF Scan, HandOver, CliTypes
<1> DEFINE k == Len(handled[p])
           n == Len(output[p])
<1>3. /\ k \in Nat /\ n \in Nat /\ k <= n /\ taken[p] \in Nat /\ Size(p)' = Size(p)
      /\ taken[p] < Size(p) /\ MaxToken \in Nat
  BY <1>1, <1>2, StreamLegal, LimitsPositive DEF FirstLines, PipeInv, Size, EndOf
<1>s. /\ \A i \in 1 .. n : output[p][i] \in Nat
      /\ \A i, j \in 1 .. n : i < j => output[p][i] < output[p][j]
  BY <1>1, StreamLegal
<1>4. PipeInv(p)'
  BY <1>1, <1>2, <1>3, StreamLegal DEF PipeInv
<1>5. EndOf(output[p], k) <= taken[p] /\ EndOf(handled[p], k) = EndOf(output[p], k)
  BY <1>1, StreamLegal, LineBegins DEF NextLine, Held
<1>6. k < n /\ taken[p] < output[p][k + 1] /\ k + 1 \in 1 .. n
  BY <1>1, <1>3, <1>5, StreamLegal DEF Size, NextLine
<1>7. CASE \E i \in DOMAIN output[p] : output[p][i] = taken'[p]
  <2>1. handled' = [handled EXCEPT ![p] = Append(handled[p], taken'[p])]
    BY <1>7 DEF Scan, HandOver
  <2>2. PICK i \in 1 .. n : output[p][i] = taken[p] + 1
    BY <1>1, <1>2, <1>7, StreamLegal
  <2>3. i > k
    <3> SUFFICES ASSUME i <= k PROVE FALSE  BY <1>3
    <3>1. k \in 1 .. n /\ EndOf(output[p], k) = output[p][k]  BY <1>3 DEF EndOf
    <3>2. i = k \/ output[p][i] < output[p][k]  BY <1>s, <3>1
    <3>3. QED  BY <1>s, <1>3, <1>5, <2>2, <3>1, <3>2
  <2>4. i = k + 1
    <3>1. i = k + 1 \/ output[p][k + 1] < output[p][i]  BY <1>s, <1>3, <1>6, <2>3
    <3>2. QED  BY <1>s, <1>3, <1>6, <2>2, <3>1
  <2>5. /\ handled'[p] = Append(handled[p], taken[p] + 1)
        /\ handled'[p] \in Seq(Nat) /\ Len(handled'[p]) = k + 1
        /\ \A j \in 1 .. k : handled'[p][j] = handled[p][j]
        /\ handled'[p][k + 1] = taken[p] + 1
    BY <1>1, <1>2, <1>3, <2>1, AppendProperties DEF CliTypes
  <2>6. handled' \in [Pipes -> Seq(Nat)]
    BY <1>1, <2>1, <2>5 DEF CliTypes
  <2>7. FirstLines(p)'
    BY <1>1, <1>2, <1>3, <1>6, <2>2, <2>4, <2>5 DEF FirstLines
  <2>8. Held(p)' = 0
    BY <1>2, <1>3, <2>5 DEF Held, EndOf
  <2>9. k + 1 < n => taken[p] + 1 < output[p][k + 2]
    <3>1. k + 1 < n => output[p][k + 1] < output[p][k + 2]  BY <1>s, <1>3, <1>6
    <3>2. QED  BY <2>2, <2>4, <3>1
  <2>10. NextLine(p)'
    BY <1>2, <1>3, <2>5, <2>8, <2>9 DEF NextLine
  <2>11. QED
    BY <1>1, <1>2, <1>4, <2>6, <2>7, <2>10, OtherPipe DEF CliInv, CliTypes, CallInv, ScannersDone, ScanInv
<1>8. CASE ~\E i \in DOMAIN output[p] : output[p][i] = taken'[p]
  <2>1. handled' = handled  BY <1>8 DEF Scan
  <2>2. taken[p] + 1 < output[p][k + 1]
    BY <1>1, <1>2, <1>6, <1>8, StreamLegal
  <2>3. Held(p)' = Held(p) + 1 /\ Held(p) \in Int
    BY <1>1, <1>2, <2>1, StreamLegal DEF Held, EndOf
  <2>4. FirstLines(p)' /\ NextLine(p)'
    BY <1>1, <1>2, <1>3, <2>1, <2>2, <2>3 DEF FirstLines, NextLine
  <2>5. QED
    BY <1>1, <1>2, <1>4, <2>1, <2>4, OtherPipe DEF CliInv, CliTypes, CallInv, ScannersDone, ScanInv
<1>9. QED  BY <1>7, <1>8

(* bufio.ErrTooLong: the line that is given up is too long, and no text of  *)
(* it has been handed on.                                                   *)
LEMMA GiveUpStep ==
  ASSUME CliInv, NEW p \in Pipes, GiveUpScanning(p)
  PROVE  CliInv'
<1>1. /\ CliTypes /\ CallInv /\ PipeInv(p) /\ FirstLines(p) /\ NextLine(p)
      /\ call = "scan" /\ Held(p) = MaxToken
      /\ scanner' = [scanner EXCEPT ![p] = "done"]
      /\ UNCHANGED <<output, child, written, taken, handled, call>>
  BY DEF CliInv, ScanInv, GiveUpScanning, Scanning
<1> DEFINE k == Len(handled[p])
<1>2. /\ taken[p] <= Size(p) /\ MaxToken \in Nat \ {0} /\ k \in Nat
  BY <1>1, StreamLegal, LimitsPositive DEF PipeInv
<1>3. /\ k + 1 \in DOMAIN output[p] /\ taken[p] < output[p][k + 1]
      /\ Held(p) = taken[p] - EndOf(output[p], k)
      /\ EndOf(output[p], k) \in Nat /\ taken[p] \in Nat /\ output[p][k + 1] \in Nat
  <2>1. k < Len(output[p]) /\ EndOf(handled[p], k) = EndOf(output[p], k)
    BY <1>1, <1>2, MidLine, LineBegins
  <2>2. k + 1 \in 1 .. Len(output[p])  BY <1>1, <1>2, <2>1, StreamLegal
  <2>3. QED  BY <1>1, <2>1, <2>2, StreamLegal DEF NextLine, Held
<1>4. TooLong(p)
  <2>1. output[p][k + 1] - EndOf(output[p], (k + 1) - 1) > MaxToken
    BY <1>1, <1>2, <1>3
  <2>2. QED  BY <1>3, <2>1 DEF TooLong
<1>5. PipeInv(p)' /\ ScanInv(p)'
  BY <1>1, <1>4 DEF CliTypes, PipeInv, ScanInv, FirstLines, TooLong, Size, EndOf
<1>6. QED
  BY <1>1, <1>5, OtherPipe DEF CliInv, CliTypes, CallInv, ScannersDone

(* The end of a pipe: after a child that has ended by itself all lines have *)
(* been handed on; one that was killed may leave a part of a line.          *)
LEMMA EndScanStep ==
  ASSUME CliInv, NEW p \in Pipes, EndScan(p)
  PROVE  CliInv'
<1>1. /\ CliTypes /\ CallInv /\ PipeInv(p) /\ FirstLines(p) /\ NextLine(p)
      /\ call = "scan" /\ taken[p] = written[p] /\ child \in {"exited", "failed", "killed"}
      /\ scanner' = [scanner EXCEPT ![p] = "done"]
      /\ UNCHANGED <<output, child, written, taken, call>>
  BY DEF CliInv, CliTypes, ScanInv, EndScan, Scanning
<1> DEFINE k == Len(handled[p])
<1>2. /\ taken[p] <= Size(p) /\ k \in Nat /\ taken[p] \in Nat
      /\ child # "killed" => taken[p] = Size(p)
  BY <1>1, StreamLegal DEF PipeInv
<1>3. PipeInv(p)'
  BY <1>1 DEF PipeInv, Size, EndOf
<1>4. CASE Held(p) = 0
  <2>1. handled' = handled  BY <1>4 DEF EndScan
  <2>2. child # "killed" => handled[p] = output[p]
    BY <1>1, <1>2, AllRead
  <2>3. ScanInv(p)'
    BY <1>1, <2>1, <2>2 DEF CliTypes, ScanInv, FirstLines
  <2>4. QED
    BY <1>1, <1>3, <2>1, <2>3, OtherPipe DEF CliInv, CliTypes, CallInv, ScannersDone
<1>5. CASE Held(p) # 0
  <2>1. child = "killed"
    BY <1>1, <1>2, <1>5, AllRead
  <2>2. k < Len(output[p]) /\ EndOf(output[p], k) < taken[p] /\ taken[p] < output[p][k + 1]
    BY <1>1, <1>2, <1>5, MidLine DEF NextLine
  <2>3. handled' = [handled EXCEPT ![p] = Append(handled[p], taken[p])]
    BY <1>1, <1>5 DEF EndScan, HandOver
  <2>4. /\ handled'[p] \in Seq(Nat) /\ Len(handled'[p]) = k + 1
        /\ \A j \in 1 .. k : handled'[p][j] = handled[p][j]
        /\ handled'[p][k + 1] = taken[p]
        /\ \A q \in Pipes \ {p} : handled'[q] = handled[q]
    BY <1>1, <1>2, <2>3, AppendProperties DEF CliTypes
  <2>5. handled' \in [Pipes -> Seq(Nat)]
    BY <1>1, <2>3, <2>4 DEF CliTypes
  <2>6. CutLine(p)'
    <3>1. (k + 1) - 1 = k /\ k + 1 <= Len(output[p]) /\ 0 < k + 1
      BY <1>1, <1>2, <2>2, StreamLegal
    <3>2. \A i \in 1 .. k : handled'[p][i] = output[p][i]
      BY <1>1, <2>4 DEF FirstLines
    <3>3. QED  BY <1>1, <2>2, <2>4, <3>1, <3>2 DEF CutLine, EndOf
  <2>7. QED
    BY <1>1, <1>3, <2>1, <2>4, <2>5, <2>6, OtherPipe
    DEF CliInv, CliTypes, CallInv, ScannersDone, ScanInv
<1>6. QED  BY <1>4, <1>5

-----------------------------------------------------------------------------
LEMMA CliNext == CliInv /\ [CENext]_ceVars => CliInv'
<1> SUFFICES ASSUME CliInv, [CENext]_ceVars PROVE CliInv'  OBVIOUS
<1>1. CASE UNCHANGED ceVars
  BY <1>1 DEF ceVars, CliInv, CliTypes, CallInv, ScannersDone, PipeInv, ScanInv, FirstLines,
              NextLine, CutLine, TooLong, Held, Size, EndOf
<1>2. ASSUME NEW p \in Pipes, Scan(p) \/ GiveUpScanning(p) \/ EndScan(p) PROVE CliInv'
  BY <1>2, ScanStep, GiveUpStep, EndScanStep
<1>3. QED  BY <1>1, <1>2, ChildStep DEF CENext

(* For every output of the child, however the two scanners interleave with  *)
(* it and whenever it is killed, the handler gets the lines of a pipe whole *)
(* and in order, and all of them when the call succeeds and none was too    *)
(* long.                                                                    *)
THEOREM LinesOrdered == CESpec => []LinesInOrder
<1>1. ASSUME CliInv PROVE LinesInOrder
  <2> SUFFICES ASSUME NEW p \in Pipes
      PROVE  /\ Len(handled[p]) <= Len(output[p])
             /\ \A i \in DOMAIN handled[p] :
                  \/ handled[p][i] = output[p][i]
                  \/ /\ child = "killed" /\ i = Len(handled[p])
                     /\ EndOf(output[p], i - 1) < handled[p][i] /\ handled[p][i] < output[p][i]
             /\ call = "ok" /\ ~TooLong(p) => handled[p] = output[p]
    BY DEF LinesInOrder
  <2>1. CliTypes /\ CallInv /\ ScanInv(p)  BY <1>1 DEF CliInv
  <2>2. FirstLines(p) \/ handled[p] = output[p] \/ (child = "killed" /\ CutLine(p))
    BY <2>1 DEF ScanInv, CliTypes
  <2>3. call = "ok" /\ ~TooLong(p) => handled[p] = output[p]
    BY <2>1 DEF ScanInv, CallInv, ScannersDone
  <2>4. CASE FirstLines(p) \/ handled[p] = output[p]
    <3>1. /\ Len(handled[p]) <= Len(output[p])
          /\ \A i \in 1 .. Len(handled[p]) : handled[p][i] = output[p][i]
      BY <2>1, <2>4, StreamLegal DEF FirstLines
    <3>2. QED  BY <2>1, <2>3, <3>1, StreamLegal
  <2>5. CASE child = "killed" /\ CutLine(p)
    <3>1. \A i \in 1 .. Len(handled[p]) : i = Len(handled[p]) \/ i \in 1 .. Len(handled[p]) - 1
      BY <2>1, StreamLegal
    <3>2. QED  BY <2>1, <2>3, <2>5, <3>1, StreamLegal DEF CutLine
  <2>6. QED  BY <2>2, <2>4, <2>5
<1>2. QED  BY <1>1, CliInit, CliNext, PTL DEF CESpec

-----------------------------------------------------------------------------
(***************************************************************************)
(* ClusterData, for every namespace.  While the previous logs are collected*)
(* the evidence of a restart is on disk, was refused, is asked for, or its *)
(* pod is still to come; when the stage ends nothing is asked for or to    *)
(* come, and no later step takes a file or a refusal away.                 *)
(***************************************************************************)
Requests == {Log(pod, c, previous) : pod \in Range(podList), c \in STRING, previous \in BOOLEAN}

ClusterTypes ==
  /\ podList \in Namespaces
  /\ selector \in BOOLEAN /\ containerLogs \in BOOLEAN
  /\ clusterStage \in {"resources", "previous", "logs", "over"}
  /\ podsToGo \in Seq(Range(podList))
  /\ wanted \in Seq(Requests)

Pending(pod, log) ==
  clusterStage = "previous" /\ (pod \in Range(podsToGo) \/ log \in Range(wanted))

EvidenceInv ==
  "previous" \in listed =>
    \A pod \in Range(podList) : Selected(pod) =>
      \A c \in DOMAIN pod.restarts : pod.restarts[c] > 0 =>
        Log(pod, c, TRUE) \in DOMAIN logs \cup unserved \/ Pending(pod, Log(pod, c, TRUE))

ClusterInv == ClusterTypes /\ EvidenceInv

-----------------------------------------------------------------------------
LEMMA RangeOfConcat ==
  ASSUME NEW S, NEW s \in Seq(S), NEW t \in Seq(S)
  PROVE  /\ s \o t \in Seq(S)
         /\ Range(s \o t) = Range(s) \cup Range(t)
<1>1. /\ s \o t \in Seq(S)
      /\ Len(s \o t) = Len(s) + Len(t)
      /\ Len(s) \in Nat /\ Len(t) \in Nat
      /\ \A i \in 1 .. Len(s) + Len(t) :
           (s \o t)[i] = IF i <= Len(s) THEN s[i] ELSE t[i - Len(s)]
  BY ConcatProperties
<1>2. DOMAIN s = 1 .. Len(s) /\ DOMAIN t = 1 .. Len(t) /\ DOMAIN (s \o t) = 1 .. Len(s) + Len(t)
  BY <1>1
<1> DEFINE u == s \o t
<1> HIDE DEF u
<1>3. ASSUME NEW x \in Range(u) PROVE x \in Range(s) \cup Range(t)
  <2>1. PICK i \in 1 .. Len(s) + Len(t) : x = u[i]  BY <1>2 DEF Range, u
  <2>2. CASE i <= Len(s)
    <3>1. i \in 1 .. Len(s) /\ x = s[i]  BY <2>1, <2>2, <1>1 DEF u
    <3>2. QED  BY <3>1, <1>2 DEF Range
  <2>3. CASE ~(i <= Len(s))
    <3>1. i - Len(s) \in 1 .. Len(t) /\ x = t[i - Len(s)]  BY <2>1, <2>3, <1>1 DEF u
    <3>2. QED  BY <3>1, <1>2 DEF Range
  <2>4. QED  BY <2>2, <2>3
<1>4. ASSUME NEW x \in Range(s) PROVE x \in Range(u)
  <2>1. PICK i \in 1 .. Len(s) : x = s[i]  BY <1>2 DEF Range
  <2>2. i \in 1 .. Len(s) + Len(t) /\ x = u[i]  BY <2>1, <1>1 DEF u
  <2>3. QED  BY <2>2, <1>2 DEF Range, u
<1>5. ASSUME NEW x \in Range(t) PROVE x \in Range(u)
  <2>1. PICK i \in 1 .. Len(t) : x = t[i]  BY <1>2 DEF Range
  <2>2. /\ Len(s) + i \in 1 .. Len(s) + Len(t)
        /\ ~(Len(s) + i <= Len(s)) /\ (Len(s) + i) - Len(s) = i
    BY <1>1
  <2>3. x = u[Len(s) + i]  BY <2>1, <2>2, <1>1 DEF u
  <2>4. QED  BY <2>2, <2>3, <1>2 DEF Range, u
<1>6. QED  BY <1>1, <1>3, <1>4, <1>5 DEF u

LEMMA PodLegal ==
  ASSUME ClusterTypes, NEW pod \in Range(podList)
  PROVE  /\ Containers(pod) \in Seq(STRING)
         /\ Range(Containers(pod)) = DOMAIN pod.restarts
         /\ \A c \in DOMAIN pod.restarts : c \in STRING /\ pod.restarts[c] \in Nat
<1>1. /\ pod.containers \in Seq(STRING) /\ pod.inits \in Seq(STRING)
      /\ DOMAIN pod.restarts = Range(pod.containers) \cup Range(pod.inits)
      /\ \A c \in DOMAIN pod.restarts : pod.restarts[c] \in Nat
  BY NamespacesLegal DEF ClusterTypes
<1>2. /\ Containers(pod) \in Seq(STRING)
      /\ Range(Containers(pod)) = DOMAIN pod.restarts
  BY <1>1, RangeOfConcat DEF Containers
<1>3. Range(Containers(pod)) \subseteq STRING  BY <1>2 DEF Range
<1>4. QED  BY <1>1, <1>2, <1>3

(* What is asked for a pod that has restarted holds the previous log of     *)
(* each of its containers; so does what is asked for any pod at the end.    *)
LEMMA LogsOfPod ==
  ASSUME ClusterTypes, NEW pod \in Range(podList)
  PROVE  /\ PreviousLogs(pod) \in Seq(Requests)
         /\ AllLogs(pod) \in Seq(Requests)
         /\ \A c \in DOMAIN pod.restarts : Log(pod, c, TRUE) \in Range(PreviousLogs(pod))
<1> DEFINE cs == Containers(pod)  n == Len(cs)
<1>1. /\ cs \in Seq(STRING) /\ n \in Nat
      /\ \A i \in 1 .. n : cs[i] \in STRING
      /\ DOMAIN pod.restarts = Range(cs)
      /\ DOMAIN cs = 1 .. n
  BY PodLegal
<1> HIDE DEF cs, n
<1>r. \A c \in STRING, b \in BOOLEAN : Log(pod, c, b) \in Requests
  BY DEF Requests
<1>2. PreviousLogs(pod) = [i \in 1 .. n |-> Log(pod, cs[i], TRUE)]
  BY DEF PreviousLogs, cs, n
<1>3. AllLogs(pod) = [i \in 1 .. (2 * n) |-> Log(pod, cs[(i + 1) \div 2], i % 2 = 1)]
  BY DEF AllLogs, cs, n
<1>4. PreviousLogs(pod) \in Seq(Requests)
  <2>1. \A i \in 1 .. n : Log(pod, cs[i], TRUE) \in Requests
    BY <1>1, <1>r
  <2>2. n \in Nat  BY <1>1
  <2>3. PreviousLogs(pod) \in [1 .. n -> Requests]  BY <1>2, <2>1
  <2>4. QED  BY <2>2, <2>3
<1>5. AllLogs(pod) \in Seq(Requests)
  <2>1. ASSUME NEW i \in 1 .. (2 * n)
        PROVE  Log(pod, cs[(i + 1) \div 2], i % 2 = 1) \in Requests
    <3>1. (i + 1) \div 2 \in 1 .. n  BY <1>1
    <3>2. cs[(i + 1) \div 2] \in STRING  BY <3>1, <1>1
    <3>3. (i % 2 = 1) = TRUE \/ (i % 2 = 1) = FALSE  OBVIOUS
    <3>4. Log(pod, cs[(i + 1) \div 2], TRUE) \in Requests /\ Log(pod, cs[(i + 1) \div 2], FALSE) \in Requests
      BY <3>2, <1>r
    <3>5. QED  BY <3>3, <3>4
  <2>2. 2 * n \in Nat  BY <1>1
  <2>3. AllLogs(pod) \in [1 .. (2 * n) -> Requests]  BY <1>3, <2>1
  <2>4. QED  BY <2>2, <2>3
<1>6. ASSUME NEW c \in DOMAIN pod.restarts
      PROVE  Log(pod, c, TRUE) \in Range(PreviousLogs(pod))
  <2>1. PICK i \in 1 .. n : c = cs[i]  BY <1>1 DEF Range
  <2>2. i \in DOMAIN PreviousLogs(pod) /\ PreviousLogs(pod)[i] = Log(pod, c, TRUE)
    BY <2>1, <1>2
  <2>3. QED  BY <2>2 DEF Range
<1>7. QED  BY <1>4, <1>5, <1>6

LEMMA HeadAndRest ==
  ASSUME NEW S, NEW s \in Seq(S), s # <<>>
  PROVE  /\ Head(s) \in S /\ Tail(s) \in Seq(S)
         /\ Head(s) \in Range(s)
         /\ \A x \in Range(s) : x = Head(s) \/ x \in Range(Tail(s))
<1>1. /\ Len(s) \in Nat \ {0} /\ Head(s) = s[1] /\ DOMAIN s = 1 .. Len(s)
      /\ \A i \in 1 .. Len(s) : s[i] \in S
  OBVIOUS
<1>2. /\ Tail(s) \in Seq(S) /\ Len(Tail(s)) = Len(s) - 1
      /\ \A i \in 1 .. Len(Tail(s)) : Tail(s)[i] = s[i + 1]
  BY HeadTailProperties
<1>3. ASSUME NEW x \in Range(s) PROVE x = Head(s) \/ x \in Range(Tail(s))
  <2>1. PICK i \in 1 .. Len(s) : x = s[i]  BY <1>1 DEF Range
  <2>2. CASE i = 1  BY <2>1, <2>2, <1>1
  <2>3. CASE i # 1
    <3>1. i - 1 \in 1 .. Len(Tail(s)) /\ x = Tail(s)[i - 1]  BY <2>1, <2>3, <1>1, <1>2
    <3>2. DOMAIN Tail(s) = 1 .. Len(Tail(s))  BY <1>2
    <3>3. QED  BY <3>1, <3>2 DEF Range
  <2>4. QED  BY <2>2, <2>3
<1>4. QED  BY <1>1, <1>2, <1>3 DEF Range

-----------------------------------------------------------------------------
LEMMA ClusterInit == CDInit => ClusterInv
<1> SUFFICES ASSUME CDInit PROVE ClusterInv  OBVIOUS
<1>1. ClusterTypes  BY DEF CDInit, ClusterTypes
<1>2. EvidenceInv  BY DEF CDInit, EvidenceInv
<1>3. QED  BY <1>1, <1>2 DEF ClusterInv

LEMMA SameRequests ==
  ASSUME clusterArgs' = clusterArgs
  PROVE  /\ Requests' = Requests
         /\ podList' = podList
         /\ \A pod : Selected(pod)' = Selected(pod)
BY DEF clusterArgs, Requests, Selected, Log

LEMMA NextPodStep ==
  ASSUME ClusterInv, NextPod PROVE ClusterInv'
<1> DEFINE pod == Head(podsToGo)
<1>1. /\ podsToGo # <<>> /\ wanted = <<>> /\ podsToGo' = Tail(podsToGo)
      /\ wanted' = IF ~Selected(pod) THEN <<>>
                   ELSE IF clusterStage = "logs" THEN AllLogs(pod)
                   ELSE IF PodHasRestarts(pod) THEN PreviousLogs(pod) ELSE <<>>
      /\ UNCHANGED <<clusterArgs, clusterStage, listed, logs, unserved>>
  BY DEF NextPod
<1>2. ClusterTypes /\ EvidenceInv  BY DEF ClusterInv
<1>3. /\ pod \in Range(podList) /\ Tail(podsToGo) \in Seq(Range(podList))
      /\ \A p \in Range(podsToGo) : p = pod \/ p \in Range(podsToGo')
  BY <1>1, <1>2, HeadAndRest DEF ClusterTypes
<1>4. /\ PreviousLogs(pod) \in Seq(Requests) /\ AllLogs(pod) \in Seq(Requests)
      /\ \A c \in DOMAIN pod.restarts : Log(pod, c, TRUE) \in Range(PreviousLogs(pod))
  BY <1>2, <1>3, LogsOfPod
<1>5. Range(Containers(pod)) = DOMAIN pod.restarts  BY <1>2, <1>3, PodLegal
<1> HIDE DEF pod
<1>6. /\ Requests' = Requests /\ podList' = podList /\ clusterArgs' = clusterArgs
      /\ \A p : Selected(p)' = Selected(p)
  BY <1>1, SameRequests
<1>7. ClusterTypes'
  <2>1. wanted' \in Seq(Requests)  BY <1>1, <1>4
  <2>2. QED  BY <2>1, <1>1, <1>2, <1>3, <1>6 DEF ClusterTypes, clusterArgs
<1>8. EvidenceInv'
  <2>1. SUFFICES ASSUME "previous" \in listed, NEW p \in Range(podList), Selected(p),
                        NEW c \in DOMAIN p.restarts, p.restarts[c] > 0,
                        Log(p, c, TRUE) \notin DOMAIN logs \cup unserved
                 PROVE  clusterStage = "previous" /\
                        (p \in Range(podsToGo') \/ Log(p, c, TRUE) \in Range(wanted'))
    BY <1>1, <1>6 DEF EvidenceInv, Pending, Log
  <2>2. Pending(p, Log(p, c, TRUE))  BY <2>1, <1>2 DEF EvidenceInv
  <2>3. clusterStage = "previous" /\ p \in Range(podsToGo)
    BY <2>2, <1>1 DEF Pending, Range
  <2>4. CASE p = pod
    <3>1. PodHasRestarts(pod)  BY <2>1, <2>4, <1>5 DEF PodHasRestarts
    <3>2. wanted' = PreviousLogs(pod)  BY <3>1, <2>1, <2>3, <2>4, <1>1
    <3>3. QED  BY <3>2, <2>3, <2>4, <1>4
  <2>5. CASE p # pod  BY <2>3, <2>5, <1>3
  <2>6. QED  BY <2>4, <2>5
<1>9. QED  BY <1>7, <1>8 DEF ClusterInv

LEMMA CopyStep ==
  ASSUME ClusterInv, CopyContainerLog PROVE ClusterInv'
<1> DEFINE log == Head(wanted)
<1>1. /\ wanted # <<>> /\ wanted' = Tail(wanted)
      /\ UNCHANGED <<clusterArgs, clusterStage, listed, podsToGo>>
  BY DEF CopyContainerLog
<1>2. DOMAIN logs \cup unserved \cup {log} \subseteq DOMAIN logs' \cup unserved'
  BY DEF CopyContainerLog
<1>3. ClusterTypes /\ EvidenceInv  BY DEF ClusterInv
<1>4. /\ Tail(wanted) \in Seq(Requests)
      /\ \A l \in Range(wanted) : l = log \/ l \in Range(wanted')
  BY <1>1, <1>3, HeadAndRest DEF ClusterTypes
<1> HIDE DEF log
<1>5. /\ Requests' = Requests /\ podList' = podList
      /\ \A p : Selected(p)' = Selected(p)
  BY <1>1, SameRequests
<1>6. ClusterTypes'  BY <1>1, <1>3, <1>4, <1>5 DEF ClusterTypes, clusterArgs
<1>7. EvidenceInv'
  BY <1>1, <1>2, <1>3, <1>4, <1>5 DEF EvidenceInv, Pending, Log
<1>8. QED  BY <1>6, <1>7 DEF ClusterInv

LEMMA ListStep ==
  ASSUME ClusterInv, ListPodsOfStage PROVE ClusterInv'
<1>1. /\ clusterStage \in {"previous", "logs"} /\ clusterStage \notin listed
      /\ listed' = listed \cup {clusterStage} /\ podsToGo' = podList
      /\ UNCHANGED <<clusterArgs, clusterStage, wanted, logs, unserved>>
  BY DEF ListPodsOfStage
<1>2. ClusterTypes /\ EvidenceInv  BY DEF ClusterInv
<1>3. /\ Requests' = Requests /\ podList' = podList
      /\ \A p : Selected(p)' = Selected(p)
  BY <1>1, SameRequests
<1>4. podList \in Seq(Range(podList))  BY <1>2, NamespacesLegal DEF ClusterTypes
<1>5. ClusterTypes'  BY <1>1, <1>2, <1>3, <1>4 DEF ClusterTypes, clusterArgs
<1>6. EvidenceInv'
  <2>1. CASE clusterStage = "previous"
    BY <2>1, <1>1, <1>3 DEF EvidenceInv, Pending
  <2>2. CASE clusterStage = "logs"
    BY <2>2, <1>1, <1>2, <1>3 DEF EvidenceInv, Pending, Log
  <2>3. QED  BY <2>1, <2>2, <1>1
<1>7. QED  BY <1>5, <1>6 DEF ClusterInv

LEMMA EndStageStep ==
  ASSUME ClusterInv, EndStage PROVE ClusterInv'
<1>1. /\ \/ clusterStage = "resources"
         \/ /\ clusterStage \in {"previous", "logs"}
            /\ clusterStage \in listed => podsToGo = <<>> /\ wanted = <<>>
      /\ clusterStage' = StageAfter
      /\ UNCHANGED <<clusterArgs, listed, podsToGo, wanted, logs, unserved>>
  BY DEF EndStage
<1>2. ClusterTypes /\ EvidenceInv  BY DEF ClusterInv
<1>3. /\ Requests' = Requests /\ podList' = podList
      /\ \A p : Selected(p)' = Selected(p)
  BY <1>1, SameRequests
<1>4. ClusterTypes'
  BY <1>1, <1>2, <1>3 DEF ClusterTypes, clusterArgs, StageAfter
<1>5. EvidenceInv'
  <2>1. SUFFICES ASSUME "previous" \in listed, NEW p \in Range(podList), Selected(p),
                        NEW c \in DOMAIN p.restarts, p.restarts[c] > 0
                 PROVE  Log(p, c, TRUE) \in DOMAIN logs \cup unserved
    BY <1>1, <1>3 DEF EvidenceInv, Log
  <2>2. ~Pending(p, Log(p, c, TRUE))
    <3>1. CASE clusterStage = "previous"
      <4>1. podsToGo = <<>> /\ wanted = <<>>  BY <3>1, <2>1, <1>1
      <4>2. Range(podsToGo) = {} /\ Range(wanted) = {}  BY <4>1 DEF Range
      <4>3. QED  BY <4>2 DEF Pending
    <3>2. CASE clusterStage # "previous"  BY <3>2 DEF Pending
    <3>3. QED  BY <3>1, <3>2
  <2>3. QED  BY <2>1, <2>2, <1>2 DEF EvidenceInv
<1>6. QED  BY <1>4, <1>5 DEF ClusterInv

LEMMA ClusterNext == ClusterInv /\ [CDNext]_cdVars => ClusterInv'
<1> SUFFICES ASSUME ClusterInv, [CDNext]_cdVars PROVE ClusterInv'  OBVIOUS
<1>1. ASSUME UNCHANGED <<clusterArgs, clusterStage, listed, podsToGo, wanted, logs, unserved>>
      PROVE  ClusterInv'
  <2>1. /\ Requests' = Requests /\ podList' = podList
        /\ \A p : Selected(p)' = Selected(p)
    BY <1>1, SameRequests
  <2>2. ClusterTypes'  BY <1>1, <2>1 DEF ClusterInv, ClusterTypes, clusterArgs
  <2>3. EvidenceInv'  BY <1>1, <2>1 DEF ClusterInv, EvidenceInv, Pending, Log
  <2>4. QED  BY <2>2, <2>3 DEF ClusterInv
<1>2. CASE CollectResource  BY <1>2, <1>1 DEF CollectResource
<1>3. CASE EndStage  BY <1>3, EndStageStep
<1>4. CASE ListPodsOfStage  BY <1>4, ListStep
<1>5. CASE NextPod  BY <1>5, NextPodStep
<1>6. CASE CopyContainerLog  BY <1>6, CopyStep
<1>7. CASE UNCHANGED cdVars  BY <1>7, <1>1 DEF cdVars
<1>8. QED  BY <1>2, <1>3, <1>4, <1>5, <1>6, <1>7 DEF CDNext

(* What the comment of GetPreviousLogsForRestartedPods promises of every    *)
(* namespace: at the end each container of a pod the selector takes, of its *)
(* own or of its init ones, that has restarted has its previous log on disk *)
(* or a request for it that failed.                                         *)
THEOREM RestartsShown == CDSpec => []RestartEvidence
<1>1. ClusterInv => RestartEvidence
  <2> SUFFICES ASSUME ClusterInv PROVE RestartEvidence  OBVIOUS
  <2>1. EvidenceInv  BY DEF ClusterInv
  <2>2. QED  BY <2>1 DEF EvidenceInv, RestartEvidence, Pending, Over
<1>2. QED  BY <1>1, ClusterInit, ClusterNext, PTL DEF CDSpec

-----------------------------------------------------------------------------
(***************************************************************************)
(* ProfileCollection, for any logs and any limit.  The merged result is that*)
(* of the logs scanned so far, exclusions with it, and is left alone once  *)
(* the jobs are chosen.  That below the limit all are chosen needs that    *)
(* there are finitely many: as many distinct jobs as there are candidates  *)
(* are all of them.                                                        *)
(***************************************************************************)
Usable == 1 .. scanned \ failedScans
Reported == UNION {ReportedBy(serverLogs[i]) : i \in Usable}
Excluded == UNION {ExcludedBy(serverLogs[i]) : i \in Usable}

ProfileTypes ==
  /\ serverLogs \in LogSets
  /\ step \in {"start", "scan", "download", "ok", "error"}
  /\ scanned \in 0 .. Len(serverLogs)
  /\ failedScans \subseteq 1 .. scanned

MergedInv == DOMAIN matches = Reported /\ exclusions = Excluded

JobsInv ==
  /\ step \in {"start", "scan"} => downloaded = {} /\ tried = 0
  /\ step = "download" =>
       /\ jobs \in Seq(Candidates)
       /\ Len(jobs) < MaxProfiles => Range(jobs) = Candidates
       /\ tried \in Nat
       /\ downloaded \subseteq Range(jobs)

ProfileInv == ProfileTypes /\ MergedInv /\ JobsInv

-----------------------------------------------------------------------------
LEMMA LogsFinite ==
  ASSUME NEW ls \in LogSets
  PROVE  /\ Len(ls) \in Nat
         /\ \A i \in 1 .. Len(ls) : IsFiniteSet(ReportedBy(ls[i]))
<1>1. /\ ls \in Seq(Range(ls))
      /\ \A log \in Range(ls) :
           log \in Seq(Range(log)) /\ \A line \in Range(log) : IsFiniteSet(line.reports)
  BY LogsLegal
<1>2. Len(ls) \in Nat /\ DOMAIN ls = 1 .. Len(ls)  BY <1>1
<1>3. ASSUME NEW i \in 1 .. Len(ls) PROVE IsFiniteSet(ReportedBy(ls[i]))
  <2> DEFINE log == ls[i]
             T == {log[k].reports : k \in DOMAIN log}
             f == [k \in DOMAIN log |-> log[k].reports]
  <2>1. log \in Range(ls)  BY <1>2 DEF Range
  <2>2. log \in Seq(Range(log)) /\ \A line \in Range(log) : IsFiniteSet(line.reports)
    BY <2>1, <1>1
  <2>3. DOMAIN log = 1 .. Len(log) /\ Len(log) \in Nat  BY <2>2
  <2> HIDE DEF log
  <2>4. IsFiniteSet(DOMAIN log)
    <3>1. 1 \in Int /\ Len(log) \in Int  BY <2>3
    <3>2. QED  BY <3>1, <2>3, FS_Interval
  <2>5. f \in Surjection(DOMAIN log, T)  BY DEF Surjection
  <2> HIDE DEF f
  <2>6. IsFiniteSet(T)  BY <2>4, <2>5, FS_Surjection
  <2>7. \A t \in T : IsFiniteSet(t)  BY <2>2 DEF Range
  <2> HIDE DEF T
  <2>8. IsFiniteSet(UNION T)  BY <2>6, <2>7, FS_UNION
  <2>9. QED  BY <2>8 DEF ReportedBy, T, log
<1>4. QED  BY <1>2, <1>3

(* Finitely many jobs are candidates, so that the limit can be reached.     *)
LEMMA CandidatesFinite ==
  ASSUME ProfileTypes, MergedInv PROVE IsFiniteSet(Candidates)
<1> DEFINE T == {ReportedBy(serverLogs[i]) : i \in Usable}
           f == [i \in Usable |-> ReportedBy(serverLogs[i])]
<1>1. Len(serverLogs) \in Nat /\ \A i \in 1 .. Len(serverLogs) : IsFiniteSet(ReportedBy(serverLogs[i]))
  BY LogsFinite DEF ProfileTypes
<1>2. scanned \in Nat /\ Usable \subseteq 1 .. scanned /\ Usable \subseteq 1 .. Len(serverLogs)
  BY <1>1 DEF ProfileTypes, Usable
<1>3. IsFiniteSet(Usable)
  <2>1. 1 \in Int /\ scanned \in Int  BY <1>2
  <2>2. IsFiniteSet(1 .. scanned)  BY <2>1, FS_Interval
  <2>3. QED  BY <2>2, <1>2, FS_Subset
<1>4. f \in Surjection(Usable, T)  BY DEF Surjection
<1>5. \A t \in T : IsFiniteSet(t)  BY <1>1, <1>2
<1> HIDE DEF f
<1>6. IsFiniteSet(T)  BY <1>3, <1>4, FS_Surjection
<1> HIDE DEF T
<1>7. IsFiniteSet(UNION T)  BY <1>5, <1>6, FS_UNION
<1>8. IsFiniteSet(DOMAIN matches)  BY <1>7 DEF MergedInv, Reported, T
<1>9. Candidates \in SUBSET DOMAIN matches  BY DEF Candidates
<1>10. QED  BY <1>8, <1>9, FS_Subset

(* What is chosen are candidates, and all of them below the limit.          *)
LEMMA ChosenJobs ==
  ASSUME ProfileTypes, MergedInv, NEW ids \in MostRecent
  PROVE  /\ ids \in Seq(Candidates)
         /\ Len(ids) < MaxProfiles => Range(ids) = Candidates
<1> DEFINE n == Cardinality(Candidates)
<1>1. IsFiniteSet(Candidates)  BY CandidatesFinite
<1>2. n \in Nat  BY <1>1, FS_CardinalityType
<1>3. Limit \in Nat /\ (Limit < MaxProfiles => Limit = n)
  BY <1>2, LimitPositive DEF Limit
<1>4. ids \in Injection(1 .. Limit, Candidates)  BY DEF MostRecent
<1>5. ids \in [1 .. Limit -> Candidates]  BY <1>4 DEF Injection
<1>6. ids \in Seq(Candidates) /\ Len(ids) = Limit  BY <1>3, <1>5
<1>7. ASSUME Limit < MaxProfiles PROVE Range(ids) = Candidates
  <2>1. 1 \in Int /\ Limit \in Int  BY <1>3
  <2>2. Cardinality(1 .. Limit) = IF 1 > Limit THEN 0 ELSE Limit - 1 + 1  BY <2>1, FS_Interval
  <2>3. Cardinality(1 .. Limit) = Cardinality(Candidates)  BY <2>2, <1>3, <1>7
  <2>4. ids \in Surjection(1 .. Limit, Candidates)  BY <2>3, <1>1, <1>4, FS_Injection
  <2>5. QED  BY <2>4, <1>5 DEF Surjection, Range
<1>8. QED  BY <1>6, <1>7

-----------------------------------------------------------------------------
LEMMA ProfileInit == PCInit => ProfileInv
<1> SUFFICES ASSUME PCInit PROVE ProfileInv  OBVIOUS
<1>1. Len(serverLogs) \in Nat  BY LogsFinite DEF PCInit
<1>2. ProfileTypes  BY <1>1 DEF PCInit, ProfileTypes
<1>3. Usable = {}  BY DEF PCInit, Usable
<1>4. MergedInv  BY <1>3 DEF PCInit, MergedInv, Reported, Excluded
<1>5. JobsInv  BY DEF PCInit, JobsInv
<1>6. QED  BY <1>2, <1>4, <1>5 DEF ProfileInv

LEMMA MergedSame ==
  ASSUME UNCHANGED <<serverLogs, scanned, merged>>
  PROVE  MergedInv => MergedInv'
<1>1. Usable' = Usable /\ serverLogs' = serverLogs  BY DEF merged, Usable
<1>2. Reported' = Reported /\ Excluded' = Excluded
  BY <1>1 DEF Reported, Excluded, ReportedBy, ExcludedBy
<1>3. QED  BY <1>2 DEF merged, MergedInv

(* The log that is scanned adds its jobs to the results, or is left out.    *)
LEMMA ScanFileStep ==
  ASSUME ProfileInv, ScanFile PROVE ProfileInv'
<1> DEFINE log == serverLogs[scanned + 1]
<1>1. /\ step = "scan" /\ scanned < Len(serverLogs) /\ scanned' = scanned + 1
      /\ UNCHANGED <<serverLogs, step, jobs, tried, downloaded>>
      /\ \/ Merge(log) /\ failedScans' = failedScans
         \/ failedScans' = failedScans \cup {scanned + 1} /\ UNCHANGED <<matches, exclusions>>
  BY DEF ScanFile, input, fetch
<1>2. /\ ProfileTypes /\ MergedInv /\ JobsInv
      /\ Len(serverLogs) \in Nat /\ scanned \in Nat
  BY LogsFinite DEF ProfileInv, ProfileTypes
<1>3. ProfileTypes'
  <2>1. failedScans \subseteq 1 .. scanned  BY <1>2 DEF ProfileTypes
  <2>2. failedScans \cup {scanned + 1} \subseteq 1 .. scanned + 1  BY <2>1, <1>2
  <2>3. failedScans' \subseteq 1 .. scanned'
    <3>1. failedScans' \subseteq failedScans \cup {scanned + 1}  BY <1>1
    <3>2. QED  BY <3>1, <2>2, <1>1
  <2>4. scanned' \in 0 .. Len(serverLogs)  BY <1>1, <1>2
  <2>5. QED  BY <2>3, <2>4, <1>1, <1>2 DEF ProfileTypes
<1>4. MergedInv'
  <2>1. CASE Merge(log) /\ failedScans' = failedScans
    <3>1. scanned + 1 \notin failedScans  BY <1>2 DEF ProfileTypes
    <3>2. Usable' = Usable \cup {scanned + 1}  BY <3>1, <2>1, <1>1, <1>2 DEF Usable
    <3>3. /\ Reported' = Reported \cup ReportedBy(log)
          /\ Excluded' = Excluded \cup ExcludedBy(log)
      BY <3>2, <1>1 DEF Reported, Excluded, ReportedBy, ExcludedBy
    <3>4. DOMAIN matches' = DOMAIN matches \cup ReportedBy(log)
      BY <2>1 DEF Merge
    <3>5. exclusions' = exclusions \cup ExcludedBy(log)  BY <2>1 DEF Merge
    <3>6. QED  BY <3>3, <3>4, <3>5, <1>2 DEF MergedInv
  <2>2. CASE failedScans' = failedScans \cup {scanned + 1} /\ UNCHANGED <<matches, exclusions>>
    <3>1. Usable' = Usable  BY <2>2, <1>1, <1>2 DEF Usable
    <3>2. Reported' = Reported /\ Excluded' = Excluded
      BY <3>1, <1>1 DEF Reported, Excluded, ReportedBy, ExcludedBy
    <3>3. QED  BY <3>2, <2>2, <1>2 DEF MergedInv
  <2>3. QED  BY <2>1, <2>2, <1>1
<1>5. JobsInv'  BY <1>1, <1>2 DEF JobsInv
<1>6. QED  BY <1>3, <1>4, <1>5 DEF ProfileInv

LEMMA DownloadStep ==
  ASSUME ProfileInv, Download PROVE ProfileInv'
<1>1. /\ step = "download" /\ tried < Len(jobs) /\ tried' = tried + 1
      /\ downloaded' \subseteq downloaded \cup {jobs[tried + 1]}
      /\ UNCHANGED <<serverLogs, step, scanned, merged, jobs>>
  BY DEF Download, input
<1>2. ProfileTypes /\ MergedInv /\ JobsInv  BY DEF ProfileInv
<1>3. ProfileTypes'  BY <1>1, <1>2 DEF ProfileTypes, merged
<1>4. MergedInv'  BY <1>1, <1>2, MergedSame
<1>5. Candidates' = Candidates  BY <1>1 DEF Candidates, merged
<1>6. jobs[tried + 1] \in Range(jobs)
  <2>1. jobs \in Seq(Candidates) /\ tried \in Nat  BY <1>1, <1>2 DEF JobsInv
  <2>2. tried + 1 \in DOMAIN jobs  BY <2>1, <1>1
  <2>3. QED  BY <2>2 DEF Range
<1>7. JobsInv'  BY <1>1, <1>2, <1>5, <1>6 DEF JobsInv
<1>8. QED  BY <1>3, <1>4, <1>7 DEF ProfileInv

LEMMA ProfileNext == ProfileInv /\ [PCNext]_pcVars => ProfileInv'
<1> SUFFICES ASSUME ProfileInv, [PCNext]_pcVars PROVE ProfileInv'  OBVIOUS
<1>1. ProfileTypes /\ MergedInv /\ JobsInv  BY DEF ProfileInv
<1>2. CASE StartScan
  <2>1. /\ step = "start" /\ step' \in {"ok", "scan"}
        /\ UNCHANGED <<serverLogs, scanned, merged, jobs, tried, downloaded>>
    BY <1>2 DEF StartScan, input, fetch
  <2>2. MergedInv'  BY <1>1, <2>1, MergedSame
  <2>3. ProfileTypes' /\ JobsInv'  BY <1>1, <2>1 DEF ProfileTypes, JobsInv, merged
  <2>4. QED  BY <2>2, <2>3 DEF ProfileInv
<1>3. CASE ScanFile  BY <1>3, ScanFileStep
<1>4. CASE ChooseJobs
  <2>1. /\ step = "scan" /\ jobs' \in MostRecent /\ step' \in {"ok", "download", "error"}
        /\ UNCHANGED <<serverLogs, scanned, merged, tried, downloaded>>
    BY <1>4 DEF ChooseJobs, input
  <2>2. MergedInv'  BY <1>1, <2>1, MergedSame
  <2>3. jobs' \in Seq(Candidates) /\ (Len(jobs') < MaxProfiles => Range(jobs') = Candidates)
    BY <1>1, <2>1, ChosenJobs
  <2>4. Candidates' = Candidates  BY <2>1 DEF Candidates, merged
  <2>5. ProfileTypes' /\ JobsInv'  BY <1>1, <2>1, <2>3, <2>4 DEF ProfileTypes, JobsInv, merged
  <2>6. QED  BY <2>2, <2>5 DEF ProfileInv
<1>5. CASE Download  BY <1>5, DownloadStep
<1>6. CASE Finish
  <2>1. /\ step = "download" /\ step' = "ok"
        /\ UNCHANGED <<serverLogs, scanned, merged>>
    BY <1>6 DEF Finish, input
  <2>2. MergedInv'  BY <1>1, <2>1, MergedSame
  <2>3. ProfileTypes' /\ JobsInv'  BY <1>1, <2>1 DEF ProfileTypes, JobsInv, merged
  <2>4. QED  BY <2>2, <2>3 DEF ProfileInv
<1>7. CASE UNCHANGED pcVars
  <2>1. UNCHANGED <<serverLogs, step, scanned, merged, jobs, tried, downloaded>>
    BY <1>7 DEF pcVars, input, fetch
  <2>2. MergedInv'  BY <1>1, <2>1, MergedSame
  <2>3. ProfileTypes' /\ JobsInv'
    BY <1>1, <2>1 DEF ProfileTypes, JobsInv, Candidates, merged
  <2>4. QED  BY <2>2, <2>3 DEF ProfileInv
<1>8. QED  BY <1>2, <1>3, <1>4, <1>5, <1>6, <1>7 DEF PCNext

(* A job that a scanned log excludes is neither tried nor takes the place   *)
(* of another one, in whatever order the logs report and exclude it.        *)
THEOREM ExclusionsKept == PCSpec => []ExcludedNotDownloaded
<1>1. ProfileInv => ExcludedNotDownloaded
  <2> SUFFICES ASSUME ProfileInv PROVE ExcludedNotDownloaded  OBVIOUS
  <2>1. MergedInv /\ JobsInv  BY DEF ProfileInv
  <2>2. Candidates = Reported \ Excluded  BY <2>1 DEF Candidates, MergedInv
  <2>3. step = "download" => /\ Range(jobs) \subseteq Reported \ Excluded
                             /\ Len(jobs) < MaxProfiles => Range(jobs) = Reported \ Excluded
                             /\ downloaded \subseteq Range(jobs)
    <3>1. step = "download" => jobs \in Seq(Candidates)  BY <2>1 DEF JobsInv
    <3>2. step = "download" => Range(jobs) \subseteq Candidates  BY <3>1 DEF Range
    <3>3. QED  BY <2>1, <2>2, <3>2 DEF JobsInv
  <2>4. QED  BY <2>3 DEF ExcludedNotDownloaded, Reported, Excluded, Usable
<1>2. QED  BY <1>1, ProfileInit, ProfileNext, PTL DEF PCSpec

-----------------------------------------------------------------------------
(***************************************************************************)
(* Discovery, for every machine and any directories to probe.  The promise *)
(* is about the server and its log directory; the invariant follows both   *)
(* through the fallbacks: as long as nothing has failed, what the next     *)
(* command is shown is the server, and the directory its options name comes *)
(* first among those to probe.                                             *)
(***************************************************************************)
(* The host and the arguments the property is about, as long as no command  *)
(* of a tool that works has failed.                                         *)
AsPromised ==
  /\ failed = {} /\ logDirFlag = "none"
  /\ Unambiguous /\ Occurrences(machine.cmdline, LogPath) # {}

DiscoveryTypes ==
  /\ machine \in Machines
  /\ DOMAIN info = {"pid", "logDir", "confDir", "rocksDBDir", "checksumTool", "gzip", "files"}

Before == {"jcmd", "pgrep -x"}
Listed == {"list logs", "conf dir", "list conf", "dremio.conf", "tools", "end", "ok", "error"}

(* Without jcmd the processes are those pgrep shows.                        *)
ServerKnown ==
  /\ command \in Before \cup {"ps", "log dir"} \cup Listed
  /\ command = "pgrep -x" =>
       /\ "pgrep" \in machine.has
       /\ \A i \in DOMAIN Jvms : Jvms[i].server
  /\ command \notin Before => IsServer(info.pid)

LogDirKnown ==
  ServerLogDir \in machine.full =>
    /\ command = "log dir" => candidates # <<>> /\ Head(candidates) = ServerLogDir
    /\ command \in Listed => info.logDir = ServerLogDir

DiscoveryInv == DiscoveryTypes /\ (AsPromised => ServerKnown /\ LogDirKnown)

-----------------------------------------------------------------------------
LEMMA MaxOf ==
  ASSUME NEW n \in Nat, NEW S \in SUBSET (1 .. n), S # {}
  PROVE  Max(S) \in S /\ \A i \in S : i <= Max(S)
<1> DEFINE R == OpToRel(<, Nat)
           T == {n - i : i \in S}
<1>1. IsWellFoundedOn(R, Nat)  BY NatLessThanWellFounded
<1>2. T \subseteq Nat /\ T # {}
  <2>1. \A i \in 1 .. n : n - i \in Nat  OBVIOUS
  <2>2. \A i \in S : n - i \in Nat  BY <2>1
  <2>3. T # {}  OBVIOUS
  <2>4. QED  BY <2>2, <2>3
<1> HIDE DEF R
<1>3. PICK x \in T : \A y \in T : ~(<<y, x>> \in R)  BY <1>1, <1>2, WFMin
<1>4. \A y \in T : ~(y < x)  BY <1>2, <1>3 DEF R, OpToRel
<1>5. PICK m \in S : x = n - m  OBVIOUS
<1>6. \A i \in S : i <= m
  <2> TAKE i \in S
  <2>1. ~(n - i < n - m)  BY <1>4, <1>5
  <2>2. \A k \in 1 .. n : k \in Nat  OBVIOUS
  <2>3. i \in Nat /\ m \in Nat  BY <2>2
  <2>4. QED  BY <2>1, <2>3
<1>7. \E z \in S : \A i \in S : z >= i  BY <1>6
<1>8. QED  BY <1>7 DEF Max

LEMMA MinOf ==
  ASSUME NEW n \in Nat, NEW S \in SUBSET (1 .. n), S # {}
  PROVE  Min(S) \in S /\ \A i \in S : Min(S) <= i
<1> DEFINE R == OpToRel(<, Nat)
<1>1. IsWellFoundedOn(R, Nat)  BY NatLessThanWellFounded
<1>2. S \subseteq Nat  OBVIOUS
<1> HIDE DEF R
<1>3. PICK x \in S : \A y \in S : ~(<<y, x>> \in R)  BY <1>1, <1>2, WFMin
<1>4. \A y \in S : ~(y < x)  BY <1>2, <1>3 DEF R, OpToRel
<1>5. \E z \in S : \A i \in S : z =< i  BY <1>2, <1>4
<1>6. QED  BY <1>5 DEF Min

LEMMA MachineLegal ==
  ASSUME DiscoveryTypes
  PROVE  /\ Jvms \in Seq(Range(Jvms))
         /\ machine.cmdline \in Seq(Range(machine.cmdline))
         /\ machine.environ \in Seq(Range(machine.environ))
         /\ \A i \in DOMAIN Jvms : Jvms[i].pid # 0 /\ (Jvms[i].server => Jvms[i].dremio)
         /\ "none" \notin machine.full
<1>1. \A j \in Range(Jvms) : j.pid # 0 /\ (j.server => j.dremio)
  BY MachinesLegal DEF DiscoveryTypes, Jvms
<1>2. \A i \in DOMAIN Jvms : Jvms[i] \in Range(Jvms)  BY DEF Range
<1>3. QED  BY MachinesLegal, <1>1, <1>2 DEF DiscoveryTypes, Jvms

(* Whichever of the processes shown is selected, it is a server when all    *)
(* are; 1 as well as any other number.                                      *)
LEMMA ServerSelected ==
  ASSUME DiscoveryTypes, NEW shown \in SUBSET DOMAIN Jvms, shown # {},
         \A i \in shown : Jvms[i].server
  PROVE  IsServer(SelectPid(shown))
<1> DEFINE others == {i \in shown : Processes[i].pid # 1}
           S == IF others # {} THEN others ELSE shown
<1>1. Jvms \in Seq(Range(Jvms))  BY MachineLegal
<1>2. DOMAIN Jvms = 1 .. Len(Jvms) /\ Len(Jvms) \in Nat  BY <1>1
<1>3. S \in SUBSET (1 .. Len(Jvms)) /\ S # {} /\ S \subseteq shown  BY <1>2
<1>4. SelectPid(shown) = Processes[Min(S)].pid  BY DEF SelectPid
<1> HIDE DEF S
<1>5. Min(S) \in S  BY <1>2, <1>3, MinOf
<1>6. Min(S) \in shown /\ Min(S) \in 1 .. Len(Jvms)  BY <1>3, <1>5
<1>7. Processes[Min(S)] = Jvms[Min(S)]  BY <1>1, <1>2, <1>6 DEF Processes
<1>8. QED  BY <1>2, <1>4, <1>6, <1>7 DEF IsServer

(* The last occurrence of the log path in two texts one after the other.       *)
LEMMA LastOfBoth ==
  ASSUME NEW T, NEW s \in Seq(T), NEW t \in Seq(T), NEW u, u = s \o t,
         Occurrences(s, LogPath) # {}
  PROVE  /\ Occurrences(u, LogPath) # {}
         /\ u[LastOccurrence(u, LogPath)] =
              IF Occurrences(t, LogPath) # {} THEN t[LastOccurrence(t, LogPath)]
                                          ELSE s[LastOccurrence(s, LogPath)]
<1> DEFINE n == Len(s) + Len(t)
<1>1. /\ Len(s) \in Nat /\ Len(t) \in Nat
      /\ DOMAIN s = 1 .. Len(s) /\ DOMAIN t = 1 .. Len(t)
  OBVIOUS
<1>2. /\ u \in Seq(T) /\ Len(u) = n
      /\ \A i \in 1 .. n : u[i] = IF i <= Len(s) THEN s[i] ELSE t[i - Len(s)]
  BY <1>1, ConcatProperties
<1>3. DOMAIN u = 1 .. n /\ n \in Nat  BY <1>1, <1>2
<1>4. \A i \in 1 .. Len(s) : i \in Occurrences(s, LogPath) <=> i \in Occurrences(u, LogPath)
  <2> TAKE i \in 1 .. Len(s)
  <2>1. i \in 1 .. n /\ u[i] = s[i]  BY <1>1, <1>2
  <2>2. QED  BY <2>1, <1>1, <1>3 DEF Occurrences
<1>5. \A i \in 1 .. Len(t) : i \in Occurrences(t, LogPath) <=> Len(s) + i \in Occurrences(u, LogPath)
  <2> TAKE i \in 1 .. Len(t)
  <2>1. /\ Len(s) + i \in 1 .. n /\ ~(Len(s) + i <= Len(s)) /\ (Len(s) + i) - Len(s) = i
    BY <1>1
  <2>2. u[Len(s) + i] = t[i]  BY <2>1, <1>2
  <2>3. QED  BY <2>1, <2>2, <1>1, <1>3 DEF Occurrences
<1>6. /\ Occurrences(s, LogPath) \in SUBSET (1 .. Len(s))
      /\ Occurrences(t, LogPath) \in SUBSET (1 .. Len(t))
      /\ Occurrences(u, LogPath) \in SUBSET (1 .. n)
  BY <1>1, <1>3 DEF Occurrences
<1> DEFINE ms == LastOccurrence(s, LogPath)  mt == LastOccurrence(t, LogPath)
           m == LastOccurrence(u, LogPath)
<1>7. ms \in Occurrences(s, LogPath) /\ \A i \in Occurrences(s, LogPath) : i <= ms
  BY <1>1, <1>6, MaxOf DEF LastOccurrence
<1>8. Occurrences(t, LogPath) # {} =>
        mt \in Occurrences(t, LogPath) /\ \A i \in Occurrences(t, LogPath) : i <= mt
  BY <1>1, <1>6, MaxOf DEF LastOccurrence
<1>9. ms \in Occurrences(u, LogPath)  BY <1>4, <1>6, <1>7
<1>10. m \in Occurrences(u, LogPath) /\ \A i \in Occurrences(u, LogPath) : i <= m
  BY <1>3, <1>6, <1>9, MaxOf DEF LastOccurrence
<1> HIDE DEF ms, mt, m
<1>11. m \in 1 .. n /\ ms \in 1 .. Len(s)  BY <1>6, <1>7, <1>10
<1>12. CASE Occurrences(t, LogPath) # {}
  <2>1. mt \in 1 .. Len(t) /\ Len(s) + mt <= m  BY <1>5, <1>6, <1>8, <1>10, <1>12
  <2>2. m - Len(s) \in 1 .. Len(t) /\ Len(s) + (m - Len(s)) = m /\ ~(m <= Len(s))
    BY <2>1, <1>1, <1>11
  <2>3. m - Len(s) \in Occurrences(t, LogPath)  BY <2>2, <1>5, <1>10
  <2>4. m - Len(s) = mt  BY <2>1, <2>2, <2>3, <1>8, <1>1
  <2>5. u[m] = t[mt]  BY <2>2, <2>4, <1>2, <1>11
  <2>6. QED  BY <2>5, <1>9, <1>12 DEF m, mt
<1>13. CASE Occurrences(t, LogPath) = {}
  <2>1. m <= Len(s)
    <3>1. SUFFICES ASSUME ~(m <= Len(s)) PROVE FALSE  OBVIOUS
    <3>2. m - Len(s) \in 1 .. Len(t) /\ Len(s) + (m - Len(s)) = m  BY <3>1, <1>1, <1>11
    <3>3. QED  BY <3>2, <1>5, <1>10, <1>13
  <2>2. m \in Occurrences(s, LogPath)  BY <2>1, <1>1, <1>4, <1>10, <1>11
  <2>3. m = ms  BY <2>2, <1>7, <1>9, <1>10, <1>11
  <2>4. u[m] = s[ms]  BY <2>1, <2>3, <1>2, <1>11
  <2>5. QED  BY <2>4, <1>9, <1>13 DEF m, ms
<1>14. QED  BY <1>12, <1>13

LEMMA OptionFirst ==
  ASSUME DiscoveryTypes, Occurrences(machine.cmdline, LogPath) # {}, IsServer(info.pid)
  PROVE  /\ ToProbe(CmdLine \o Environ) # <<>>
         /\ Head(ToProbe(CmdLine \o Environ)) = ServerLogDir
<1> DEFINE c == machine.cmdline  e == machine.environ  b == c \o e
           rest == ExtractEnvValue(b, "DREMIO_LOG_DIR") \o LogDirCandidates
<1>1. CmdLine \o Environ = b  BY DEF CmdLine, Environ
<1>2. /\ c \in Seq(Range(c)) /\ e \in Seq(Range(e))
      /\ ServerLogDir = IF Occurrences(e, LogPath) # {} THEN e[LastOccurrence(e, LogPath)].value
                                                     ELSE c[LastOccurrence(c, LogPath)].value
  BY MachineLegal DEF ServerLogDir
<1> HIDE DEF c, e
<1>3. Occurrences(c, LogPath) # {}  BY DEF c
<1>a. /\ Occurrences(b, LogPath) # {}
      /\ b[LastOccurrence(b, LogPath)] =
           IF Occurrences(e, LogPath) # {} THEN e[LastOccurrence(e, LogPath)]
                                           ELSE c[LastOccurrence(c, LogPath)]
  <2> DEFINE S == Range(c) \cup Range(e)
  <2>1. c \in Seq(S) /\ e \in Seq(S) /\ b = c \o e  BY <1>2
  <2> HIDE DEF b, S
  <2>2. QED  BY <2>1, <1>3, LastOfBoth
<1> HIDE DEF b
<1>4. /\ Occurrences(b, LogPath) # {}
      /\ b[LastOccurrence(b, LogPath)].value = ServerLogDir
  BY <1>a, <1>2
<1>5. ExtractEnvValue(b, LogPath) = <<ServerLogDir>>  BY <1>4 DEF ExtractEnvValue
<1> DEFINE v == b[LastOccurrence(b, "DREMIO_LOG_DIR")].value  T == STRING \cup {v, ServerLogDir}
<1>6. ExtractEnvValue(b, "DREMIO_LOG_DIR") \in Seq(T)
  <2>1. ExtractEnvValue(b, "DREMIO_LOG_DIR") \in {<<>>, <<v>>}  BY DEF ExtractEnvValue
  <2> HIDE DEF v
  <2>2. <<v>> \in Seq(T) /\ <<>> \in Seq(T)  OBVIOUS
  <2>3. QED  BY <2>1, <2>2
<1>7. LogDirCandidates \in Seq(T) /\ <<ServerLogDir>> \in Seq(T)
  <2> HIDE DEF v
  <2>1. STRING \subseteq T  OBVIOUS
  <2>2. LogDirCandidates \in Seq(T)  BY <2>1, CandidatesLegal
  <2>3. <<ServerLogDir>> \in Seq(T)  OBVIOUS
  <2>4. QED  BY <2>2, <2>3
<1> HIDE DEF T
<1>b. rest \in Seq(T)  BY <1>6, <1>7, ConcatProperties
<1>8. ToProbe(b) = <<ServerLogDir>> \o rest
  BY <1>5, <1>6, <1>7, ConcatAssociative DEF ToProbe
<1> HIDE DEF rest
<1>9. /\ <<ServerLogDir>> \o rest # <<>>
      /\ Head(<<ServerLogDir>> \o rest) = ServerLogDir
  BY <1>7, <1>b
<1>10. QED  BY <1>1, <1>8, <1>9

-----------------------------------------------------------------------------
LEMMA DiscoveryInit == DIInit => DiscoveryInv
<1> SUFFICES ASSUME DIInit PROVE DiscoveryInv  OBVIOUS
<1>1. command = "jcmd" /\ machine \in Machines  BY DEF DIInit
<1>2. DiscoveryTypes  BY DEF DIInit, DiscoveryTypes
<1>3. ServerKnown /\ LogDirKnown  BY <1>1 DEF ServerKnown, LogDirKnown, Before, Listed
<1>4. QED  BY <1>2, <1>3 DEF DiscoveryInv

(* A command that has failed stays one that has failed, and the promise is  *)
(* about the host and the arguments.                                        *)
LEMMA PromiseKept ==
  ASSUME UNCHANGED discoveryArgs, failed \subseteq failed'
  PROVE  /\ AsPromised' => AsPromised
         /\ machine' = machine /\ logDirFlag' = logDirFlag
         /\ Jvms' = Jvms /\ ServerLogDir' = ServerLogDir
         /\ \A p : IsServer(p)' = IsServer(p)
<1>1. machine' = machine /\ logDirFlag' = logDirFlag  BY DEF discoveryArgs
<1>2. Jvms' = Jvms /\ ServerLogDir' = ServerLogDir
  BY <1>1 DEF Jvms, ServerLogDir, Occurrences, LastOccurrence
<1>3. \A p : IsServer(p)' = IsServer(p)  BY <1>2 DEF IsServer
<1>4. Unambiguous' = Unambiguous  BY <1>1, <1>2 DEF Unambiguous
<1>5. Occurrences(machine.cmdline, LogPath)' = Occurrences(machine.cmdline, LogPath)
  BY <1>1 DEF Occurrences
<1>6. QED  BY <1>1, <1>2, <1>3, <1>4, <1>5 DEF AsPromised

LEMMA FaresOn ==
  ASSUME NEW works, NEW ok, Fares(works, ok)
  PROVE  /\ failed \subseteq failed' /\ ok \in BOOLEAN
         /\ failed' = {} /\ works => ok
         /\ ok => works
BY DEF Fares

(* Of a process of Dremio: the tool that shows it is jcmd, if there is one, *)
(* or else pgrep.                                                           *)
LEMMA PidStep ==
  ASSUME DiscoveryInv, NEW asked, NEW tool, NEW listing, NEW next,
         DiscoverPid(asked, tool, listing, next)
  PROVE  /\ DiscoveryTypes'
         /\ failed \subseteq failed' /\ UNCHANGED discoveryArgs /\ command = asked
         /\ \/ /\ listing # {} /\ tool \in machine.has /\ info'.pid = SelectPid(listing)
               /\ logDirFlag = "none" => command' = "ps"
            \/ /\ failed' = {} /\ tool \in machine.has => listing = {}
               /\ next # "ps" => command' = next
<1>1. /\ command = asked /\ UNCHANGED discoveryArgs
      /\ DOMAIN info' = DOMAIN info
  BY DEF DiscoverPid
<1>2. DiscoveryTypes  BY DEF DiscoveryInv
<1>3. DiscoveryTypes'  BY <1>1, <1>2 DEF DiscoveryTypes, discoveryArgs
<1>4. PICK ok \in BOOLEAN :
        LET shown == IF ok THEN listing ELSE {} IN
        /\ Fares(tool \in machine.has, ok)
        /\ info' = [info EXCEPT !.pid = SelectPid(shown)]
        /\ command' = IF shown # {} \/ next = "ps"
                      THEN (IF logDirFlag = "none" THEN "ps" ELSE "list logs") ELSE next
  BY DEF DiscoverPid
<1>5. /\ failed \subseteq failed'
      /\ failed' = {} /\ tool \in machine.has => ok
      /\ ok => tool \in machine.has
  BY <1>4, FaresOn
<1>6. CASE ok /\ listing # {}
  <2>1. /\ info' = [info EXCEPT !.pid = SelectPid(listing)]
        /\ command' = IF logDirFlag = "none" THEN "ps" ELSE "list logs"
    BY <1>4, <1>6
  <2>2. info'.pid = SelectPid(listing)  BY <2>1, <1>2 DEF DiscoveryTypes
  <2>3. QED  BY <2>1, <2>2, <1>1, <1>3, <1>5, <1>6
<1>7. CASE ~(ok /\ listing # {})
  <2>1. next # "ps" => command' = next  BY <1>4, <1>7
  <2>2. failed' = {} /\ tool \in machine.has => listing = {}  BY <1>5, <1>7
  <2>3. QED  BY <2>1, <2>2, <1>1, <1>3, <1>5
<1>8. QED  BY <1>6, <1>7

LEMMA JcmdStep ==
  ASSUME DiscoveryInv, Jcmd PROVE DiscoveryInv'
<1>1. /\ DiscoveryTypes'
      /\ failed \subseteq failed' /\ UNCHANGED discoveryArgs
      /\ \/ /\ Dremios # {} /\ "jcmd" \in machine.has /\ info'.pid = SelectPid(Dremios)
            /\ logDirFlag = "none" => command' = "ps"
         \/ /\ failed' = {} /\ "jcmd" \in machine.has => Dremios = {}
            /\ command' = "pgrep -x"
  BY PidStep DEF Jcmd
<1>2. /\ AsPromised' => AsPromised
      /\ machine' = machine /\ logDirFlag' = logDirFlag /\ Jvms' = Jvms
      /\ \A p : IsServer(p)' = IsServer(p)
  BY <1>1, PromiseKept
<1>3. DiscoveryTypes  BY DEF DiscoveryInv
<1>4. \A i \in DOMAIN Jvms : Jvms[i].server => Jvms[i].dremio  BY <1>3, MachineLegal
<1>5. ASSUME AsPromised' PROVE ServerKnown' /\ LogDirKnown'
  <2>1. AsPromised /\ Unambiguous /\ failed' = {}  BY <1>5, <1>2 DEF AsPromised
  <2>2. CASE /\ Dremios # {} /\ "jcmd" \in machine.has /\ info'.pid = SelectPid(Dremios)
             /\ logDirFlag = "none" => command' = "ps"
    <3>1. \A i \in Dremios : Jvms[i].server  BY <2>1 DEF Unambiguous, Dremios
    <3>2. Dremios \in SUBSET DOMAIN Jvms  BY DEF Dremios
    <3>3. IsServer(info'.pid)  BY <2>2, <3>1, <3>2, <1>3, ServerSelected
    <3>4. command' = "ps"  BY <2>1, <2>2 DEF AsPromised
    <3>5. IsServer(info.pid)'  BY <3>3, <1>2 DEF IsServer
    <3>6. QED  BY <3>4, <3>5 DEF ServerKnown, LogDirKnown, Before, Listed
  <2>3. CASE /\ failed' = {} /\ "jcmd" \in machine.has => Dremios = {}
             /\ command' = "pgrep -x"
    <3>1. "pgrep" \in machine.has /\ \A i \in DOMAIN Jvms : Jvms[i].server
      <4>1. CASE "jcmd" \in machine.has
        <5>1. Dremios = {}  BY <4>1, <2>1, <2>3
        <5>2. \A i \in DOMAIN Jvms : ~Jvms[i].dremio  BY <5>1 DEF Dremios
        <5>3. \A i \in DOMAIN Jvms : ~Jvms[i].server  BY <5>2, <1>4
        <5>4. QED  BY <5>3, <2>1 DEF Unambiguous
      <4>2. CASE "jcmd" \notin machine.has  BY <4>2, <2>1 DEF Unambiguous
      <4>3. QED  BY <4>1, <4>2
    <3>2. QED  BY <3>1, <2>3, <1>2 DEF ServerKnown, LogDirKnown, Before, Listed
  <2>4. QED  BY <2>2, <2>3, <1>1
<1>6. QED  BY <1>1, <1>5 DEF DiscoveryInv

LEMMA PgrepStep ==
  ASSUME DiscoveryInv, PgrepExact PROVE DiscoveryInv'
<1>1. /\ DiscoveryTypes'
      /\ failed \subseteq failed' /\ UNCHANGED discoveryArgs /\ command = "pgrep -x"
      /\ \/ /\ DOMAIN Jvms # {} /\ info'.pid = SelectPid(DOMAIN Jvms)
            /\ logDirFlag = "none" => command' = "ps"
         \/ failed' = {} /\ "pgrep" \in machine.has => DOMAIN Jvms = {}
  BY PidStep DEF PgrepExact
<1>2. /\ AsPromised' => AsPromised
      /\ machine' = machine /\ logDirFlag' = logDirFlag /\ Jvms' = Jvms
      /\ \A p : IsServer(p)' = IsServer(p)
  BY <1>1, PromiseKept
<1>3. DiscoveryTypes  BY DEF DiscoveryInv
<1>4. ASSUME AsPromised' PROVE ServerKnown' /\ LogDirKnown'
  <2>1. AsPromised /\ ServerKnown /\ failed' = {}
    BY <1>4, <1>2 DEF AsPromised, DiscoveryInv
  <2>2. "pgrep" \in machine.has /\ \A i \in DOMAIN Jvms : Jvms[i].server
    BY <2>1, <1>1 DEF ServerKnown
  <2>3. DOMAIN Jvms # {}  BY <2>1 DEF AsPromised, Unambiguous
  <2>4. info'.pid = SelectPid(DOMAIN Jvms) /\ command' = "ps"
    BY <2>1, <2>2, <2>3, <1>1 DEF AsPromised
  <2>5. DOMAIN Jvms \in SUBSET DOMAIN Jvms  OBVIOUS
  <2>6. IsServer(info'.pid)  BY <2>2, <2>3, <2>4, <2>5, <1>3, ServerSelected
  <2>7. IsServer(info.pid)'  BY <2>6, <1>2 DEF IsServer
  <2>8. QED  BY <2>4, <2>7 DEF ServerKnown, LogDirKnown, Before, Listed
<1>5. QED  BY <1>1, <1>4 DEF DiscoveryInv

LEMMA PgrepFullStep ==
  ASSUME DiscoveryInv, PgrepFull PROVE DiscoveryInv'
<1>1. PICK shell \in {{}, {Len(Processes)}} :
        DiscoverPid("pgrep -f", "pgrep", Dremios \cup shell, "ps")
  BY DEF PgrepFull
<1>2. /\ DiscoveryTypes'
      /\ failed \subseteq failed' /\ UNCHANGED discoveryArgs /\ command = "pgrep -f"
  BY <1>1, PidStep
<1>3. AsPromised' => AsPromised  BY <1>2, PromiseKept
<1>4. ~AsPromised  BY <1>2 DEF DiscoveryInv, ServerKnown, Before, Listed
<1>5. QED  BY <1>2, <1>3, <1>4 DEF DiscoveryInv

LEMMA InfoStep ==
  ASSUME DiscoveryInv, ReadProcessInfo PROVE DiscoveryInv'
<1>1. /\ command = "ps" /\ command' = "log dir" /\ candidates' = ToProbe(procInfo')
      /\ UNCHANGED <<discoveryArgs, info>>
  BY DEF ReadProcessInfo
<1>2. failed \subseteq failed'  BY DEF ReadProcessInfo
<1>3. /\ AsPromised' => AsPromised
      /\ machine' = machine /\ ServerLogDir' = ServerLogDir
      /\ \A p : IsServer(p)' = IsServer(p)
  BY <1>1, <1>2, PromiseKept
<1>4. DiscoveryTypes  BY DEF DiscoveryInv
<1>5. DiscoveryTypes'  BY <1>1, <1>3, <1>4 DEF DiscoveryTypes
<1>6. ASSUME AsPromised' PROVE ServerKnown' /\ LogDirKnown'
  <2>1. AsPromised /\ ServerKnown /\ failed' = {}
    BY <1>6, <1>3 DEF AsPromised, DiscoveryInv
  <2>2. IsServer(info.pid)  BY <2>1, <1>1 DEF ServerKnown, Before
  <2>3. info.pid # 0  BY <2>2, <1>4, MachineLegal DEF IsServer
  <2>4. procInfo' = CmdLine \o Environ
    <3>1. PICK ps, line, env \in BOOLEAN :
            /\ failed' = IF ps \/ (line /\ env) THEN failed ELSE failed \cup {"ps"}
            /\ procInfo' = (IF ps \/ line THEN CmdLine ELSE <<>>)
                        \o (IF ps \/ env THEN Environ ELSE <<>>)
      BY <2>3 DEF ReadProcessInfo
    <3>2. ps \/ (line /\ env)  BY <3>1, <2>1
    <3>3. QED  BY <3>1, <3>2
  <2>5. candidates' # <<>> /\ Head(candidates') = ServerLogDir
    BY <2>1, <2>2, <2>4, <1>1, <1>4, OptionFirst DEF AsPromised
  <2>6. IsServer(info.pid)'  BY <2>2, <1>1, <1>3 DEF IsServer
  <2>7. ServerKnown'  BY <2>6, <1>1 DEF ServerKnown, Before
  <2>8. LogDirKnown'  BY <2>5, <1>1, <1>3 DEF LogDirKnown, Listed
  <2>9. QED  BY <2>7, <2>8
<1>7. QED  BY <1>5, <1>6 DEF DiscoveryInv

LEMMA ProbeLogStep ==
  ASSUME DiscoveryInv, ProbeLogDir PROVE DiscoveryInv'
<1>1. DiscoveryTypes  BY DEF DiscoveryInv
<1>2. /\ command = "log dir" /\ command' \in {"log dir", "list logs"}
      /\ failed \subseteq failed' /\ UNCHANGED discoveryArgs
      /\ DOMAIN info' = DOMAIN info /\ info'.pid = info.pid
  BY <1>1 DEF ProbeLogDir, ProbeDir, Fares, DiscoveryTypes
<1>3. /\ AsPromised' => AsPromised
      /\ machine' = machine /\ ServerLogDir' = ServerLogDir
      /\ \A p : IsServer(p)' = IsServer(p)
  BY <1>2, PromiseKept
<1>4. DiscoveryTypes'  BY <1>1, <1>2, <1>3 DEF DiscoveryTypes
<1>5. ASSUME AsPromised' PROVE ServerKnown' /\ LogDirKnown'
  <2>1. AsPromised /\ ServerKnown /\ LogDirKnown /\ failed' = {}
    BY <1>5, <1>3 DEF AsPromised, DiscoveryInv
  <2>2. IsServer(info.pid)  BY <2>1, <1>2 DEF ServerKnown, Before
  <2>3. IsServer(info.pid)'  BY <2>2, <1>2, <1>3 DEF IsServer
  <2>4. ServerKnown'  BY <2>3, <1>2 DEF ServerKnown, Before, Listed
  <2>5. ASSUME ServerLogDir \in machine.full
        PROVE  command' = "list logs" /\ info'.logDir = ServerLogDir
    <3>1. candidates # <<>> /\ Head(candidates) = ServerLogDir
      BY <2>1, <2>5, <1>2 DEF LogDirKnown
    <3>2. PICK ok \in BOOLEAN :
            /\ Fares(Head(candidates) \in machine.full, ok)
            /\ info' = IF ok THEN [info EXCEPT !["logDir"] = Head(candidates)] ELSE info
            /\ command' = IF ok THEN "list logs" ELSE "log dir"
      BY <3>1 DEF ProbeLogDir, ProbeDir
    <3>3. ok  BY <3>1, <3>2, <2>1, <2>5, FaresOn
    <3>4. QED  BY <3>1, <3>2, <3>3, <1>1 DEF DiscoveryTypes
  <2>6. LogDirKnown'  BY <2>5, <1>3 DEF LogDirKnown, Listed
  <2>7. QED  BY <2>4, <2>6
<1>6. QED  BY <1>4, <1>5 DEF DiscoveryInv

(* Once the directory is known no step changes the process or it.           *)
LEMMA ListedSame ==
  ASSUME DiscoveryInv, command \in Listed, command' \in Listed,
         failed \subseteq failed', UNCHANGED discoveryArgs,
         DOMAIN info' = DOMAIN info, info'.pid = info.pid,
         AsPromised => info'.logDir = info.logDir \/ ServerLogDir \notin machine.full
  PROVE  DiscoveryInv'
<1>1. /\ AsPromised' => AsPromised
      /\ machine' = machine /\ ServerLogDir' = ServerLogDir
      /\ \A p : IsServer(p)' = IsServer(p)
  BY PromiseKept
<1>2. DiscoveryTypes'  BY <1>1 DEF DiscoveryInv, DiscoveryTypes
<1>3. ASSUME AsPromised' PROVE ServerKnown' /\ LogDirKnown'
  <2>1. AsPromised /\ ServerKnown /\ LogDirKnown  BY <1>3, <1>1 DEF DiscoveryInv
  <2>2. IsServer(info.pid)  BY <2>1 DEF ServerKnown, Before, Listed
  <2>3. IsServer(info.pid)'  BY <2>2, <1>1 DEF IsServer
  <2>4. ServerKnown'  BY <2>3 DEF ServerKnown, Before, Listed
  <2>5. LogDirKnown'  BY <2>1, <1>1 DEF LogDirKnown, Listed
  <2>6. QED  BY <2>4, <2>5
<1>4. QED  BY <1>2, <1>3 DEF DiscoveryInv

LEMMA ProbeConfStep ==
  ASSUME DiscoveryInv, ProbeConfDir PROVE DiscoveryInv'
<1>1. DiscoveryTypes  BY DEF DiscoveryInv
<1>2. /\ command = "conf dir" /\ command' \in {"conf dir", "list conf"}
      /\ failed \subseteq failed' /\ UNCHANGED discoveryArgs
      /\ DOMAIN info' = DOMAIN info /\ info'.pid = info.pid /\ info'.logDir = info.logDir
  BY <1>1 DEF ProbeConfDir, ProbeDir, Fares, DiscoveryTypes
<1>3. command \in Listed /\ command' \in Listed  BY <1>2 DEF Listed
<1>4. QED  BY <1>2, <1>3, ListedSame

LEMMA FilesListed ==
  ASSUME DiscoveryTypes, NEW dir, NEW kind, ListFiles(dir, kind)
  PROVE  /\ failed \subseteq failed'
         /\ DOMAIN info' = DOMAIN info /\ info'.pid = info.pid
         /\ info'.logDir = IF kind = "log" THEN dir ELSE info.logDir
<1>1. failed \subseteq failed'  BY DEF ListFiles
<1>2. \E files : info' = [info EXCEPT ![IF kind = "log" THEN "logDir" ELSE "confDir"] = dir,
                                      !.files = files]
  BY DEF ListFiles
<1>3. QED  BY <1>1, <1>2 DEF DiscoveryTypes

LEMMA ListLogsStep ==
  ASSUME DiscoveryInv, ListLogs PROVE DiscoveryInv'
<1> DEFINE dir == GivenOr(logDirFlag, info.logDir)
<1>1. DiscoveryTypes  BY DEF DiscoveryInv
<1>2. /\ command = "list logs" /\ command' = "conf dir" /\ UNCHANGED discoveryArgs
      /\ IF dir = "none" THEN UNCHANGED <<info, failed>> ELSE ListFiles(dir, "log")
  BY DEF ListLogs
<1>3. /\ failed \subseteq failed' /\ DOMAIN info' = DOMAIN info /\ info'.pid = info.pid
      /\ info'.logDir = info.logDir \/ info'.logDir = dir
  <2>1. CASE dir = "none"  BY <2>1, <1>2
  <2>2. CASE dir # "none"
    <3>1. ListFiles(dir, "log")  BY <2>2, <1>2
    <3>2. QED  BY <3>1, <1>1, FilesListed
  <2>3. QED  BY <2>1, <2>2
<1>4. AsPromised => dir = info.logDir  BY DEF AsPromised, GivenOr
<1> HIDE DEF dir
<1>5. command \in Listed /\ command' \in Listed  BY <1>2 DEF Listed
<1>6. QED  BY <1>2, <1>3, <1>4, <1>5, ListedSame

LEMMA ListConfStep ==
  ASSUME DiscoveryInv, ListConf PROVE DiscoveryInv'
<1> DEFINE dir == GivenOr(confDirFlag, info.confDir)
<1>1. DiscoveryTypes  BY DEF DiscoveryInv
<1>2. /\ command = "list conf" /\ command' = "dremio.conf" /\ UNCHANGED discoveryArgs
      /\ IF dir = "none" THEN UNCHANGED <<info, failed>> ELSE ListFiles(dir, "conf")
  BY DEF ListConf
<1> HIDE DEF dir
<1>3. /\ failed \subseteq failed' /\ DOMAIN info' = DOMAIN info /\ info'.pid = info.pid
      /\ info'.logDir = info.logDir
  <2>1. CASE dir = "none"  BY <2>1, <1>2
  <2>2. CASE dir # "none"
    <3>1. ListFiles(dir, "conf")  BY <2>2, <1>2
    <3>2. QED  BY <3>1, <1>1, FilesListed
  <2>3. QED  BY <2>1, <2>2
<1>4. command \in Listed /\ command' \in Listed  BY <1>2 DEF Listed
<1>5. QED  BY <1>2, <1>3, <1>4, ListedSame

LEMMA LaterStep ==
  ASSUME DiscoveryInv, DetectRocksDBDir \/ ProbeTools \/ EndDiscovery
  PROVE  DiscoveryInv'
<1>1. DiscoveryTypes  BY DEF DiscoveryInv
<1>2. /\ command \in Listed /\ command' \in Listed
      /\ failed \subseteq failed' /\ UNCHANGED discoveryArgs
      /\ DOMAIN info' = DOMAIN info /\ info'.pid = info.pid /\ info'.logDir = info.logDir
  <2>1. CASE DetectRocksDBDir  BY <2>1, <1>1 DEF DetectRocksDBDir, Fares, Listed, DiscoveryTypes
  <2>2. CASE ProbeTools
    <3>1. \E g, t : info' = [info EXCEPT !.gzip = g, !.checksumTool = t]
      BY <2>2 DEF ProbeTools
    <3>2. QED  BY <3>1, <2>2, <1>1 DEF ProbeTools, Listed, DiscoveryTypes
  <2>3. CASE EndDiscovery  BY <2>3 DEF EndDiscovery, Listed
  <2>4. QED  BY <2>1, <2>2, <2>3
<1>3. QED  BY <1>2, ListedSame

LEMMA DiscoveryNext == DiscoveryInv /\ [DINext]_diVars => DiscoveryInv'
<1> SUFFICES ASSUME DiscoveryInv, [DINext]_diVars PROVE DiscoveryInv'  OBVIOUS
<1>1. CASE Jcmd  BY <1>1, JcmdStep
<1>2. CASE PgrepExact  BY <1>2, PgrepStep
<1>3. CASE PgrepFull  BY <1>3, PgrepFullStep
<1>4. CASE ReadProcessInfo  BY <1>4, InfoStep
<1>5. CASE ProbeLogDir  BY <1>5, ProbeLogStep
<1>6. CASE ProbeConfDir  BY <1>6, ProbeConfStep
<1>7. CASE ListLogs  BY <1>7, ListLogsStep
<1>8. CASE ListConf  BY <1>8, ListConfStep
<1>9. CASE DetectRocksDBDir \/ ProbeTools \/ EndDiscovery  BY <1>9, LaterStep
<1>10. CASE UNCHANGED diVars
  <2>1. UNCHANGED <<discoveryArgs, command, candidates, info, failed>>
    BY <1>10 DEF diVars
  <2>2. /\ AsPromised' => AsPromised
        /\ machine' = machine /\ Jvms' = Jvms /\ ServerLogDir' = ServerLogDir
        /\ \A p : IsServer(p)' = IsServer(p)
    BY <2>1, PromiseKept
  <2>3. DiscoveryTypes'  BY <2>1, <2>2 DEF DiscoveryInv, DiscoveryTypes
  <2>4. ServerKnown => ServerKnown'
    <3>1. IsServer(info.pid) => IsServer(info.pid)'  BY <2>1, <2>2 DEF IsServer
    <3>2. QED  BY <3>1, <2>1, <2>2 DEF ServerKnown
  <2>5. LogDirKnown => LogDirKnown'  BY <2>1, <2>2 DEF LogDirKnown
  <2>6. QED  BY <2>2, <2>3, <2>4, <2>5 DEF DiscoveryInv
<1>11. QED
  BY <1>1, <1>2, <1>3, <1>4, <1>5, <1>6, <1>7, <1>8, <1>9, <1>10 DEF DINext

(* On every host with one server that the first working tool can mean, the  *)
(* discovery ends with that server and with the directory its last          *)
(* -Ddremio.log.path names, one of the environment before one of the        *)
(* command line, if there are files there and unless a command failed.      *)
THEOREM ServerLogsFound == DISpec => []LogsOfServer
<1>1. DiscoveryInv => LogsOfServer
  <2> SUFFICES ASSUME DiscoveryInv PROVE LogsOfServer  OBVIOUS
  <2>1. AsPromised /\ Discovered =>
          IsServer(info.pid) /\ (ServerLogDir \in machine.full => info.logDir = ServerLogDir)
    BY DEF DiscoveryInv, ServerKnown, LogDirKnown, Discovered, Before, Listed
  <2>2. QED  BY <2>1 DEF LogsOfServer, AsPromised, ServerLogDir
<1>2. QED  BY <1>1, DiscoveryInit, DiscoveryNext, PTL DEF DISpec

-----------------------------------------------------------------------------
(***************************************************************************)
(* KubeTransport, for any text and however it is cut into chunks.  Between *)
(* two chunks the buffer holds the text since the last newline that Write  *)
(* has gone through, and one line was handed on for each newline before it. *)
(***************************************************************************)
Characters == Streams \X Nat
Newlines(s) == speech[s].newlines

\* The lines before the one that is being gathered are those that ended in
\* what Write has gone through.
Passed(s) ==
  /\ Len(emitted) <= Len(Newlines(s))
  /\ \A i \in DOMAIN Newlines(s) : Newlines(s)[i] <= used[s] <=> i <= Len(emitted)

StreamInv(s) ==
  /\ at[s] \in {"between", "gather"} =>
       Passed(s) /\ partial = Text(s, LineStart(s, Len(emitted) + 1), used[s])
  /\ at[s] = "emit" =>
       /\ Len(emitted) + 1 \in DOMAIN Newlines(s)
       /\ used[s] = Newlines(s)[Len(emitted) + 1] - 1
       /\ partial = LineOf(s, Len(emitted) + 1)
  /\ at[s] = "clear" =>
       /\ Len(emitted) \in DOMAIN Newlines(s)
       /\ used[s] = Newlines(s)[Len(emitted)] - 1

Alone(s) == op = "execute" /\ \A o \in Streams \ {s} : speech[o].length = 0

WriterInv(s) ==
  /\ \A o \in Streams \ {s} : at[o] = "between"
  /\ \A k \in DOMAIN emitted : emitted[k] = LineOf(s, k)
  /\ exec \in {"search", "idle", "lookup", "stream", "flush"} => StreamInv(s)
  /\ exec # "stream" => at[s] = "between"
  /\ exec = "flush" => heard[s] = speech[s].length
  /\ exec \in {"flushed", "ok"} => Len(emitted) = LineCount(s)
  /\ Len(emitted) <= LineCount(s)

(* What holds of a cancelled command too.                                   *)
KubeTypeOK ==
  /\ speech \in Speeches
  /\ exec \in {"search", "idle", "lookup", "stream"} => status = "none"
  /\ heard \in [Streams -> Nat] /\ used \in [Streams -> Nat]
  /\ at \in [Streams -> {"between", "gather", "emit", "clear"}]
  /\ partial \in Seq(Characters) /\ emitted \in Seq(Seq(Characters))
  /\ \A s \in Streams :
       /\ used[s] <= heard[s] /\ heard[s] <= speech[s].length
       /\ at[s] = "between" => used[s] = heard[s]
       /\ at[s] \in {"emit", "clear"} => used[s] < heard[s]

KubeInv ==
  /\ KubeTypeOK
  /\ \A s \in Streams : Alone(s) /\ status # "cancelled" => WriterInv(s)

-----------------------------------------------------------------------------
LEMMA SpeechLegal ==
  ASSUME KubeTypeOK, NEW s \in Streams
  PROVE  /\ speech[s].length \in Nat
         /\ Newlines(s) \in Seq(1 .. speech[s].length)
         /\ Len(Newlines(s)) \in Nat /\ DOMAIN Newlines(s) = 1 .. Len(Newlines(s))
         /\ \A i \in 1 .. Len(Newlines(s)) :
              Newlines(s)[i] \in Nat /\ 0 < Newlines(s)[i] /\ Newlines(s)[i] <= speech[s].length
         /\ \A i, j \in 1 .. Len(Newlines(s)) : i < j => Newlines(s)[i] < Newlines(s)[j]
<1>1. speech \in Speeches  BY DEF KubeTypeOK
<1>2. /\ speech[s].length \in Nat
      /\ speech[s].newlines \in Seq(1 .. speech[s].length)
      /\ \A i, j \in DOMAIN speech[s].newlines :
           i < j => speech[s].newlines[i] < speech[s].newlines[j]
  BY <1>1, SpeechesLegal
<1>3. QED  BY <1>2 DEF Newlines

LEMMA WriterTypes ==
  ASSUME KubeTypeOK, NEW s \in Streams
  PROVE  /\ heard[s] \in Nat /\ used[s] \in Nat
         /\ Len(emitted) \in Nat /\ DOMAIN emitted = 1 .. Len(emitted)
BY DEF KubeTypeOK

LEMMA TextIs ==
  ASSUME NEW s \in Streams, NEW a \in Nat, NEW b \in Nat, a <= b
  PROVE  /\ Text(s, a, b) \in Seq(Characters)
         /\ Len(Text(s, a, b)) = b - a
         /\ \A i \in 1 .. (b - a) : Text(s, a, b)[i] = <<s, a + i>>
<1>1. b - a \in Nat  OBVIOUS
<1>2. Text(s, a, b) \in [1 .. (b - a) -> Characters]
  BY <1>1 DEF Text, Characters
<1>3. QED  BY <1>1, <1>2 DEF Text

(* What is gathered after what was gathered is the text of both.            *)
LEMMA TextJoined ==
  ASSUME NEW s \in Streams, NEW a \in Nat, NEW b \in Nat, NEW c \in Nat, a <= b, b <= c,
         NEW w, w = Text(s, a, b) \o Text(s, b, c)
  PROVE  w = Text(s, a, c)
<1> DEFINE t == Text(s, a, b)  u == Text(s, b, c)  v == Text(s, a, c)
<1>1. /\ t \in Seq(Characters) /\ Len(t) = b - a
      /\ \A i \in 1 .. (b - a) : t[i] = <<s, a + i>>
  BY TextIs
<1>2. /\ u \in Seq(Characters) /\ Len(u) = c - b
      /\ \A i \in 1 .. (c - b) : u[i] = <<s, b + i>>
  BY TextIs
<1>3. /\ v \in Seq(Characters) /\ Len(v) = c - a
      /\ \A i \in 1 .. (c - a) : v[i] = <<s, a + i>>
  <2>1. a <= c  OBVIOUS
  <2>2. QED  BY <2>1, TextIs
<1>4. /\ w \in Seq(Characters) /\ Len(w) = Len(t) + Len(u)
      /\ \A i \in 1 .. (Len(t) + Len(u)) :
           w[i] = IF i <= Len(t) THEN t[i] ELSE u[i - Len(t)]
  BY <1>1, <1>2, ConcatProperties
<1> HIDE DEF t, u, v
<1>5. \A i \in 1 .. (c - a) : w[i] = v[i]
  <2> TAKE i \in 1 .. (c - a)
  <2>1. Len(t) + Len(u) = c - a  BY <1>1, <1>2
  <2>2. CASE i <= b - a
    <3>1. i \in 1 .. (b - a) /\ i \in 1 .. (Len(t) + Len(u)) /\ i <= Len(t)
      BY <2>1, <2>2, <1>1
    <3>2. w[i] = t[i]  BY <3>1, <1>4
    <3>3. t[i] = <<s, a + i>>  BY <3>1, <1>1
    <3>4. QED  BY <3>2, <3>3, <1>3
  <2>3. CASE ~(i <= b - a)
    <3>1. i - (b - a) \in 1 .. (c - b) /\ b + (i - (b - a)) = a + i  BY <2>3
    <3>2. u[i - (b - a)] = <<s, a + i>>  BY <3>1, <1>2
    <3>3. w[i] = u[i - (b - a)]  BY <2>1, <2>3, <1>1, <1>4
    <3>4. QED  BY <3>2, <3>3, <1>3
  <2>4. QED  BY <2>2, <2>3
<1>6. Len(w) = c - a  BY <1>1, <1>2, <1>4
<1>7. w = v  BY <1>3, <1>4, <1>5, <1>6, SeqEqual
<1>8. QED  BY <1>7 DEF v

(* The places of the lines a stream is cut into.                            *)
LEMMA LineBounds ==
  ASSUME KubeTypeOK, NEW s \in Streams, NEW k \in 1 .. Len(Newlines(s)) + 1
  PROVE  /\ LineStart(s, k) \in Nat /\ LineEnd(s, k) \in Nat
         /\ LineStart(s, k) <= LineEnd(s, k)
         /\ LineOf(s, k) \in Seq(Characters)
<1>1. /\ speech[s].newlines = Newlines(s) /\ Len(Newlines(s)) \in Nat
      /\ DOMAIN Newlines(s) = 1 .. Len(Newlines(s)) /\ speech[s].length \in Nat
      /\ k \in Nat /\ 1 <= k /\ k <= Len(Newlines(s)) + 1
  BY SpeechLegal DEF Newlines
<1>2. k # 1 => k - 1 \in 1 .. Len(Newlines(s))  BY <1>1
<1>3. /\ LineStart(s, k) = IF k = 1 THEN 0 ELSE Newlines(s)[k - 1]
      /\ LineEnd(s, k) = IF k \in 1 .. Len(Newlines(s)) THEN Newlines(s)[k] - 1
                         ELSE speech[s].length
  BY <1>1 DEF LineStart, LineEnd
<1>4. LineStart(s, k) \in Nat /\ LineEnd(s, k) \in Nat
  BY <1>1, <1>2, <1>3, SpeechLegal
<1>5. LineStart(s, k) <= LineEnd(s, k)
  <2>1. CASE k \in 1 .. Len(Newlines(s))
    <3>1. k # 1 => Newlines(s)[k - 1] < Newlines(s)[k]
      <4>1. k - 1 < k  BY <1>1
      <4>2. QED  BY <4>1, <2>1, <1>2, SpeechLegal
    <3>2. QED  BY <2>1, <3>1, <1>1, <1>2, <1>3, SpeechLegal
  <2>2. CASE k \notin 1 .. Len(Newlines(s))
    BY <2>2, <1>1, <1>2, <1>3, SpeechLegal
  <2>3. QED  BY <2>1, <2>2
<1>6. QED  BY <1>4, <1>5, TextIs DEF LineOf

LEMMA LineCountIs ==
  ASSUME KubeTypeOK, NEW s \in Streams
  PROVE  /\ LineCount(s) \in Nat
         /\ LineCount(s) = IF LineStart(s, Len(Newlines(s)) + 1) < speech[s].length
                           THEN Len(Newlines(s)) + 1 ELSE Len(Newlines(s))
BY SpeechLegal DEF LineCount, Newlines

(* Where Gather stops: before the first newline that has arrived, or at the *)
(* end of what has.                                                         *)
LEMMA NextNewline ==
  ASSUME KubeTypeOK, NEW s \in Streams, NewlinesIn(s) # {}
  PROVE  /\ Min(NewlinesIn(s)) \in Nat
         /\ used[s] < Min(NewlinesIn(s)) /\ Min(NewlinesIn(s)) <= heard[s]
         /\ \E i \in 1 .. Len(Newlines(s)) : Min(NewlinesIn(s)) = Newlines(s)[i]
         /\ \A i \in 1 .. Len(Newlines(s)) :
              used[s] < Newlines(s)[i] /\ Newlines(s)[i] <= heard[s]
              => Min(NewlinesIn(s)) <= Newlines(s)[i]
<1> DEFINE S == NewlinesIn(s)
<1>1. /\ heard[s] \in Nat /\ used[s] \in Nat /\ DOMAIN Newlines(s) = 1 .. Len(Newlines(s))
  BY SpeechLegal, WriterTypes
<1>2. S = {n \in (used[s] + 1) .. heard[s] : \E i \in 1 .. Len(Newlines(s)) : n = Newlines(s)[i]}
  BY <1>1 DEF NewlinesIn, Newlines
<1>3. S \in SUBSET (1 .. heard[s])  BY <1>1, <1>2
<1> HIDE DEF S
<1>4. S # {}  BY DEF S
<1>5. Min(S) \in S /\ \A i \in S : Min(S) <= i  BY <1>1, <1>3, <1>4, MinOf
<1>6. /\ Min(S) \in (used[s] + 1) .. heard[s]
      /\ \E i \in 1 .. Len(Newlines(s)) : Min(S) = Newlines(s)[i]
  BY <1>2, <1>5
<1>7. \A i \in 1 .. Len(Newlines(s)) :
        used[s] < Newlines(s)[i] /\ Newlines(s)[i] <= heard[s] => Min(S) <= Newlines(s)[i]
  <2> SUFFICES ASSUME NEW i \in 1 .. Len(Newlines(s)),
                      used[s] < Newlines(s)[i], Newlines(s)[i] <= heard[s]
               PROVE  Newlines(s)[i] \in S
    BY <1>5
  <2>1. Newlines(s)[i] \in (used[s] + 1) .. heard[s]  BY <1>1, SpeechLegal
  <2>2. QED  BY <2>1, <1>2
<1>8. QED  BY <1>1, <1>6, <1>7 DEF S

LEMMA GatherReach ==
  ASSUME KubeTypeOK, NEW s \in Streams, Gather(s)
  PROVE  /\ used'[s] \in Nat /\ used[s] <= used'[s] /\ used'[s] <= heard[s]
         /\ at'[s] = "between" => used'[s] = heard[s] /\ NewlinesIn(s) = {}
         /\ at'[s] # "between" =>
              /\ at'[s] = "emit" /\ NewlinesIn(s) # {}
              /\ used'[s] = Min(NewlinesIn(s)) - 1 /\ used'[s] < heard[s]
         /\ \A o \in Streams \ {s} : used'[o] = used[o] /\ at'[o] = at[o]
         /\ used' \in [Streams -> Nat]
         /\ at' \in [Streams -> {"between", "gather", "emit", "clear"}]
<1>1. /\ used \in [Streams -> Nat] /\ used[s] \in Nat /\ heard[s] \in Nat /\ used[s] <= heard[s]
      /\ at \in [Streams -> {"between", "gather", "emit", "clear"}]
  BY DEF KubeTypeOK
<1>2. CASE NewlinesIn(s) # {}
  <2>1. /\ used' = [used EXCEPT ![s] = Min(NewlinesIn(s)) - 1]
        /\ at' = [at EXCEPT ![s] = "emit"]
    BY <1>2 DEF Gather
  <2>2. /\ Min(NewlinesIn(s)) \in Nat /\ used[s] < Min(NewlinesIn(s))
        /\ Min(NewlinesIn(s)) <= heard[s]
    BY <1>2, NextNewline
  <2>3. Min(NewlinesIn(s)) - 1 \in Nat  BY <2>2, <1>1
  <2>4. QED  BY <1>1, <1>2, <2>1, <2>2, <2>3
<1>3. CASE NewlinesIn(s) = {}
  BY <1>1, <1>3 DEF Gather
<1>4. QED  BY <1>2, <1>3

-----------------------------------------------------------------------------
LEMMA KubeStart == KTInit => KubeInv
<1> SUFFICES ASSUME KTInit PROVE KubeInv  OBVIOUS
<1>1. KubeTypeOK
  <2>1. \A s \in Streams : speech[s].length \in Nat  BY SpeechesLegal DEF KTInit
  <2>2. <<>> \in Seq(Characters) /\ <<>> \in Seq(Seq(Characters))  OBVIOUS
  <2>3. QED  BY <2>1, <2>2 DEF KTInit, KubeTypeOK
<1>2. ASSUME NEW s \in Streams PROVE WriterInv(s)
  <2>1. /\ emitted = <<>> /\ Len(emitted) = 0 /\ partial = <<>> /\ used[s] = 0
        /\ exec = "search" /\ \A o \in Streams : at[o] = "between"
    BY DEF KTInit
  <2>2. Passed(s)
    BY <1>1, <2>1, SpeechLegal DEF Passed
  <2>3. LineStart(s, 1) = 0 /\ partial = Text(s, 0, 0)
    <3>1. Text(s, 0, 0) \in Seq(Characters) /\ Len(Text(s, 0, 0)) = 0  BY TextIs
    <3>2. QED  BY <3>1, <2>1 DEF LineStart
  <2>4. StreamInv(s)  BY <2>1, <2>2, <2>3 DEF StreamInv
  <2>5. QED  BY <1>1, <2>1, <2>4, LineCountIs DEF WriterInv
<1>3. QED  BY <1>1, <1>2 DEF KubeInv

LEMMA KubeTypes ==
  ASSUME KubeTypeOK, [KTNext]_ktVars
  PROVE  KubeTypeOK'
<1>1. ASSUME NEW s \in Streams, Receive(s) PROVE KubeTypeOK'
  <2>1. PICK n \in (heard[s] + 1) .. speech[s].length : heard' = [heard EXCEPT ![s] = n]
    BY <1>1 DEF Receive
  <2>2. n \in Nat /\ heard[s] < n /\ n <= speech[s].length
    BY <2>1, SpeechLegal, WriterTypes
  <2>3. QED  BY <1>1, <2>1, <2>2 DEF Receive, KubeTypeOK, kubeRequest
<1>2. ASSUME NEW s \in Streams, Gather(s) PROVE KubeTypeOK'
  <2>1. Text(s, used[s], used'[s]) \in Seq(Characters)
    BY <1>2, GatherReach, WriterTypes, TextIs
  <2>2. partial' \in Seq(Characters)
    BY <1>2, <2>1, ConcatProperties DEF Gather, KubeTypeOK
  <2>3. UNCHANGED <<speech, exec, heard, emitted, status>>
    BY <1>2 DEF Gather, kubeRequest
  <2>4. \A q \in Streams :
          /\ used'[q] <= heard[q]
          /\ at'[q] = "between" => used'[q] = heard[q]
          /\ at'[q] \in {"emit", "clear"} => used'[q] < heard[q]
    BY <1>2, GatherReach DEF KubeTypeOK
  <2>5. QED  BY <1>2, <2>2, <2>3, <2>4, GatherReach DEF KubeTypeOK
<1>3. Append(emitted, partial) \in Seq(Seq(Characters)) /\ <<>> \in Seq(Characters)
  BY AppendProperties DEF KubeTypeOK
<1>4. ASSUME NEW s \in Streams, Emit(s) PROVE KubeTypeOK'
  BY <1>3, <1>4 DEF Emit, KubeTypeOK, kubeRequest
<1>5. ASSUME NEW s \in Streams, Clear(s) PROVE KubeTypeOK'
  BY <1>3, <1>5 DEF Clear, KubeTypeOK, kubeRequest
<1>6. CASE \/ Search \/ Begin \/ Lookup \/ StreamReturns \/ ArchiverEnds \/ TransferReturns
           \/ UNCHANGED ktVars
  BY <1>6 DEF Search, Begin, Lookup, StreamReturns, ArchiverEnds, TransferReturns, ktVars,
              writer, kubeRequest, KubeTypeOK
<1>7. CASE Flush \/ Reset
  BY <1>3, <1>7 DEF Flush, Reset, Answer, kubeRequest, KubeTypeOK
<1>8. QED  BY <1>1, <1>2, <1>4, <1>5, <1>6, <1>7 DEF KTNext

LEMMA SameText ==
  ASSUME speech' = speech, NEW s \in Streams
  PROVE  /\ Newlines(s)' = Newlines(s) /\ LineCount(s)' = LineCount(s)
         /\ \A k : LineStart(s, k)' = LineStart(s, k) /\ LineOf(s, k)' = LineOf(s, k)
BY DEF Newlines, LineCount, LineStart, LineOf, LineEnd

(* The lines that have ended are all the terminated ones, when all of the   *)
(* text has been heard; the rest of it, if there is any, is the last line.  *)
LEMMA AtEnd ==
  ASSUME KubeTypeOK, NEW s \in Streams, StreamInv(s), at[s] = "between",
         heard[s] = speech[s].length
  PROVE  /\ partial = <<>> => Len(emitted) = LineCount(s)
         /\ partial # <<>> => /\ Len(emitted) + 1 = LineCount(s)
                              /\ partial = LineOf(s, Len(emitted) + 1)
<1> DEFINE n == Len(emitted)
           m == Len(Newlines(s))
<1>1. /\ n \in Nat /\ m \in Nat /\ used[s] = speech[s].length /\ speech[s].length \in Nat
      /\ DOMAIN Newlines(s) = 1 .. m
  BY SpeechLegal, WriterTypes DEF KubeTypeOK
<1>2. /\ n <= m /\ \A i \in 1 .. m : Newlines(s)[i] <= used[s] <=> i <= n
      /\ partial = Text(s, LineStart(s, n + 1), used[s])
  BY <1>1 DEF StreamInv, Passed
<1>3. n = m
  <2>1. \A i \in 1 .. m : i <= n  BY <1>1, <1>2, SpeechLegal
  <2>2. m # 0 => m \in 1 .. m  BY <1>1
  <2>3. QED  BY <1>1, <1>2, <2>1, <2>2
<1>4. n + 1 \in 1 .. m + 1 /\ n + 1 \notin DOMAIN Newlines(s)  BY <1>1, <1>3
<1>5. LineEnd(s, n + 1) = speech[s].length  BY <1>4 DEF LineEnd, Newlines
<1>6. LineStart(s, n + 1) \in Nat /\ LineStart(s, n + 1) <= speech[s].length
  BY <1>4, <1>5, LineBounds
<1>7. Len(partial) = speech[s].length - LineStart(s, n + 1)
  BY <1>1, <1>2, <1>6, TextIs
<1>8. partial \in Seq(Characters)  BY DEF KubeTypeOK
<1>9. LineCount(s) = IF LineStart(s, n + 1) < speech[s].length THEN n + 1 ELSE n
  BY <1>3, LineCountIs
<1>10. CASE partial = <<>>
  <2>1. Len(partial) = 0  BY <1>10
  <2>2. QED  BY <2>1, <1>1, <1>6, <1>7, <1>9, <1>10
<1>11. CASE partial # <<>>
  <2>1. Len(partial) \in Nat \ {0}  BY <1>8, <1>11, EmptySeq
  <2>2. LineStart(s, n + 1) < speech[s].length  BY <2>1, <1>1, <1>6, <1>7
  <2>3. QED  BY <2>2, <1>1, <1>2, <1>5, <1>9, <1>11 DEF LineOf
<1>12. QED  BY <1>10, <1>11

LEMMA GatherStep ==
  ASSUME KubeTypeOK, NEW s \in Streams, StreamInv(s), Gather(s)
  PROVE  StreamInv(s)'
<1> DEFINE n == Len(emitted)
           m == Len(Newlines(s))
           start == LineStart(s, n + 1)
<1>1. /\ n \in Nat /\ m \in Nat /\ DOMAIN Newlines(s) = 1 .. m
      /\ used[s] \in Nat /\ heard[s] \in Nat
      /\ UNCHANGED <<speech, emitted, heard>>
      /\ \A i \in 1 .. m : Newlines(s)[i] \in Nat /\ 0 < Newlines(s)[i]
      /\ \A i, j \in 1 .. m : i < j => Newlines(s)[i] < Newlines(s)[j]
  BY SpeechLegal, WriterTypes DEF Gather, kubeRequest
<1>2. /\ n <= m /\ \A i \in 1 .. m : Newlines(s)[i] <= used[s] <=> i <= n
      /\ partial = Text(s, start, used[s])
  BY <1>1 DEF StreamInv, Passed, Gather
<1>3. n + 1 \in 1 .. m + 1 /\ start \in Nat
  BY <1>1, <1>2, LineBounds
<1>4. start <= used[s]
  <2>1. CASE n = 0
    BY <2>1, <1>1 DEF LineStart
  <2>2. CASE n # 0
    <3>1. n \in 1 .. m /\ n + 1 # 1 /\ (n + 1) - 1 = n  BY <2>2, <1>1, <1>2
    <3>2. start = Newlines(s)[n]  BY <3>1 DEF LineStart, Newlines
    <3>3. QED  BY <3>1, <3>2, <1>2
  <2>3. QED  BY <2>1, <2>2
<1>5. used'[s] \in Nat /\ used[s] <= used'[s]  BY GatherReach
<1>6. partial' = Text(s, start, used'[s])
  <2>1. partial' = Text(s, start, used[s]) \o Text(s, used[s], used'[s])
    BY <1>2 DEF Gather
  <2> HIDE DEF start
  <2>2. \A w : w = Text(s, start, used[s]) \o Text(s, used[s], used'[s])
               => w = Text(s, start, used'[s])
    BY <1>1, <1>3, <1>4, <1>5, TextJoined
  <2>3. QED  BY <2>1, <2>2
<1>7. CASE at'[s] = "between"
  <2>1. used'[s] = heard[s] /\ NewlinesIn(s) = {}  BY <1>7, GatherReach
  <2>2. ASSUME NEW i \in 1 .. m PROVE Newlines(s)[i] <= used'[s] <=> i <= n
    <3>1. ~(used[s] < Newlines(s)[i] /\ Newlines(s)[i] <= heard[s])
      <4> SUFFICES ASSUME used[s] < Newlines(s)[i], Newlines(s)[i] <= heard[s]
                   PROVE  Newlines(s)[i] \in NewlinesIn(s)
        BY <2>1
      <4>1. Newlines(s)[i] \in (used[s] + 1) .. heard[s]  BY <1>1
      <4>2. QED  BY <4>1, <1>1 DEF NewlinesIn, Newlines
    <3>2. QED  BY <3>1, <2>1, <1>1, <1>2, <1>5
  <2>3. QED  BY <1>1, <1>2, <1>6, <1>7, <2>2, SameText DEF StreamInv, Passed
<1>8. CASE at'[s] # "between"
  <2> DEFINE end == Min(NewlinesIn(s))
  <2>1. /\ at'[s] = "emit" /\ NewlinesIn(s) # {} /\ used'[s] = end - 1
    BY <1>8, GatherReach
  <2>2. /\ end \in Nat /\ used[s] < end /\ end <= heard[s]
        /\ \A i \in 1 .. m : used[s] < Newlines(s)[i] /\ Newlines(s)[i] <= heard[s]
                             => end <= Newlines(s)[i]
    BY <2>1, NextNewline
  <2>3. PICK j \in 1 .. m : end = Newlines(s)[j]  BY <2>1, NextNewline
  <2> HIDE DEF end
  <2>4. ~(j <= n)  BY <1>1, <1>2, <2>2, <2>3
  <2>5. n + 1 \in 1 .. m /\ n + 1 <= j  BY <1>1, <2>4
  <2>6. Newlines(s)[n + 1] = end
    <3>1. n + 1 # j => Newlines(s)[n + 1] < end
      BY <1>1, <2>3, <2>5
    <3>2. used[s] < Newlines(s)[n + 1]
      <4>1. ~(n + 1 <= n)  BY <1>1
      <4>2. ~(Newlines(s)[n + 1] <= used[s])  BY <4>1, <2>5, <1>2
      <4>3. QED  BY <4>2, <2>5, <1>1
    <3>3. QED  BY <3>1, <3>2, <2>2, <2>3, <2>5, <1>1
  <2>7. n + 1 \in DOMAIN speech[s].newlines /\ speech[s].newlines[n + 1] = end
    BY <2>5, <2>6, <1>1 DEF Newlines
  <2>8. partial' = LineOf(s, n + 1)
    BY <1>6, <2>1, <2>7 DEF LineOf, LineEnd
  <2>9. QED  BY <2>1, <2>5, <2>6, <2>8, <1>1, SameText DEF StreamInv
<1>9. QED  BY <1>7, <1>8

LEMMA EmitStep ==
  ASSUME KubeTypeOK, NEW s \in Streams, StreamInv(s), Emit(s),
         \A k \in DOMAIN emitted : emitted[k] = LineOf(s, k)
  PROVE  /\ StreamInv(s)' /\ Len(emitted)' <= LineCount(s)
         /\ \A k \in DOMAIN emitted' : emitted'[k] = LineOf(s, k)
<1> DEFINE n == Len(emitted)
<1>1. /\ n \in Nat /\ DOMAIN emitted = 1 .. n
      /\ Len(Newlines(s)) \in Nat /\ DOMAIN Newlines(s) = 1 .. Len(Newlines(s))
      /\ emitted \in Seq(Seq(Characters)) /\ partial \in Seq(Characters)
      /\ at \in [Streams -> {"between", "gather", "emit", "clear"}]
  BY SpeechLegal, WriterTypes DEF KubeTypeOK
<1>2. /\ n + 1 \in DOMAIN Newlines(s)
      /\ used[s] = Newlines(s)[n + 1] - 1
      /\ partial = LineOf(s, n + 1)
  BY DEF StreamInv, Emit
<1>3. /\ emitted' = Append(emitted, partial) /\ at'[s] = "clear"
      /\ UNCHANGED <<speech, used>>
  BY <1>1 DEF Emit, kubeRequest
<1>4. /\ Len(emitted') = n + 1 /\ DOMAIN emitted' = 1 .. n + 1
      /\ \A k \in 1 .. n + 1 : emitted'[k] = IF k = n + 1 THEN partial ELSE emitted[k]
  BY <1>1, <1>3, AppendProperties
<1>5. \A k \in 1 .. n + 1 : emitted'[k] = LineOf(s, k)
  <2> TAKE k \in 1 .. n + 1
  <2>1. k # n + 1 => k \in 1 .. n  BY <1>1
  <2>2. QED  BY <2>1, <1>1, <1>2, <1>4
<1>6. StreamInv(s)'
  BY <1>2, <1>3, <1>4, SameText DEF StreamInv
<1>7. n + 1 <= LineCount(s)  BY <1>1, <1>2, LineCountIs
<1>8. QED  BY <1>4, <1>5, <1>6, <1>7

LEMMA ClearStep ==
  ASSUME KubeTypeOK, NEW s \in Streams, StreamInv(s), Clear(s)
  PROVE  StreamInv(s)'
<1> DEFINE n == Len(emitted)
           m == Len(Newlines(s))
<1>1. /\ n \in Nat /\ m \in Nat /\ DOMAIN Newlines(s) = 1 .. m
      /\ \A i \in 1 .. m : Newlines(s)[i] \in Nat
      /\ \A i, j \in 1 .. m : i < j => Newlines(s)[i] < Newlines(s)[j]
      /\ at \in [Streams -> {"between", "gather", "emit", "clear"}]
      /\ used \in [Streams -> Nat]
  BY SpeechLegal, WriterTypes DEF KubeTypeOK
<1>2. n \in 1 .. m /\ used[s] = Newlines(s)[n] - 1  BY <1>1 DEF StreamInv, Clear
<1>3. /\ at'[s] = "gather" /\ used'[s] = Newlines(s)[n] /\ partial' = <<>>
      /\ UNCHANGED <<speech, emitted>>
  BY <1>1, <1>2 DEF Clear, kubeRequest
<1>4. \A i \in 1 .. m : Newlines(s)[i] <= Newlines(s)[n] <=> i <= n
  <2> TAKE i \in 1 .. m
  <2>1. CASE i < n  BY <2>1, <1>1, <1>2
  <2>2. CASE i = n  BY <2>2, <1>1, <1>2
  <2>3. CASE n < i  BY <2>3, <1>1, <1>2
  <2>4. QED  BY <2>1, <2>2, <2>3, <1>1, <1>2
<1>5. LineStart(s, n + 1) = Newlines(s)[n]
  <2>1. n + 1 # 1 /\ (n + 1) - 1 = n  BY <1>1, <1>2
  <2>2. QED  BY <2>1 DEF LineStart, Newlines
<1>6. Text(s, Newlines(s)[n], Newlines(s)[n]) = <<>>
  <2> DEFINE end == Newlines(s)[n]
  <2>1. end \in Nat /\ end <= end /\ end - end = 0  BY <1>1, <1>2
  <2> HIDE DEF end
  <2>2. Text(s, end, end) \in Seq(Characters) /\ Len(Text(s, end, end)) = 0
    BY <2>1, TextIs
  <2>3. QED  BY <2>2, EmptySeq DEF end
<1>7. QED
  BY <1>1, <1>2, <1>3, <1>4, <1>5, <1>6, SameText DEF StreamInv, Passed

LEMMA WriterStep ==
  ASSUME KubeInv, [KTNext]_ktVars, KubeTypeOK', NEW s \in Streams,
         Alone(s), WriterInv(s), status' # "cancelled"
  PROVE  WriterInv(s)'
<1> DEFINE Early == {"search", "idle", "lookup", "stream", "flush"}
<1>1. KubeTypeOK /\ \A o \in Streams \ {s} : at[o] = "between" /\ speech[o].length = 0
  BY DEF KubeInv, WriterInv, Alone
<1>2. at \in [Streams -> {"between", "gather", "emit", "clear"}]  BY <1>1 DEF KubeTypeOK
<1>3. ASSUME NEW o \in Streams \ {s}, Receive(o) \/ Gather(o) \/ Emit(o) \/ Clear(o)
      PROVE  FALSE
  <2>1. heard[o] \in Nat /\ speech[o].length = 0  BY <1>1, WriterTypes
  <2>2. ~Receive(o)  BY <2>1 DEF Receive
  <2>3. QED  BY <2>2, <1>1, <1>3 DEF Gather, Emit, Clear
<1>4. CASE Receive(s)
  <2>1. /\ exec = "stream" /\ exec' = "stream" /\ at[s] = "between" /\ StreamInv(s)
        /\ UNCHANGED <<speech, used, partial, emitted>>
        /\ at' = [at EXCEPT ![s] = "gather"]
    BY <1>4 DEF Receive, WriterInv, kubeRequest
  <2>2. StreamInv(s)'
    BY <1>2, <2>1, SameText DEF StreamInv, Passed
  <2>3. QED  BY <1>1, <1>2, <2>1, <2>2, SameText DEF WriterInv
<1>5. CASE Gather(s)
  <2>1. exec = "stream" /\ StreamInv(s)
    BY <1>5 DEF WriterInv, Gather
  <2>2. /\ exec' = "stream" /\ UNCHANGED <<speech, emitted>>
        /\ \A o \in Streams \ {s} : at'[o] = at[o]
    BY <1>1, <1>5, <2>1, GatherReach DEF Gather, kubeRequest
  <2>3. StreamInv(s)'  BY <1>1, <1>5, <2>1, GatherStep
  <2>4. QED  BY <1>1, <2>1, <2>2, <2>3, SameText DEF WriterInv
<1>6. CASE Emit(s)
  <2>1. /\ exec = "stream" /\ StreamInv(s)
        /\ \A k \in DOMAIN emitted : emitted[k] = LineOf(s, k)
    BY <1>6 DEF WriterInv, Emit
  <2>2. exec' = "stream" /\ speech' = speech /\ at' = [at EXCEPT ![s] = "clear"]
    BY <1>6, <2>1 DEF Emit, kubeRequest
  <2>3. /\ StreamInv(s)' /\ Len(emitted)' <= LineCount(s)
        /\ \A k \in DOMAIN emitted' : emitted'[k] = LineOf(s, k)
    BY <1>1, <1>6, <2>1, EmitStep
  <2>4. QED  BY <1>1, <1>2, <2>2, <2>3, SameText DEF WriterInv
<1>7. CASE Clear(s)
  <2>1. exec = "stream" /\ StreamInv(s)  BY <1>7 DEF WriterInv, Clear
  <2>2. /\ exec' = "stream" /\ UNCHANGED <<speech, emitted>>
        /\ at' = [at EXCEPT ![s] = "gather"]
    BY <1>7, <2>1 DEF Clear, kubeRequest
  <2>3. StreamInv(s)'  BY <1>1, <1>7, <2>1, ClearStep
  <2>4. QED  BY <1>1, <1>2, <2>1, <2>2, <2>3, SameText DEF WriterInv
<1>8. CASE Search \/ Begin \/ Lookup \/ ArchiverEnds \/ UNCHANGED ktVars
  <2>1. UNCHANGED <<speech, heard, used, at, partial, emitted>>
    BY <1>8 DEF Search, Begin, Lookup, ArchiverEnds, ktVars, writer, kubeRequest
  <2>2. \/ exec' = exec
        \/ exec \in {"search", "idle", "lookup"} /\ exec' \in {"idle", "lookup", "stream", "error"}
    BY <1>8 DEF Search, Begin, Lookup, ArchiverEnds, ktVars
  <2>3. StreamInv(s)' <=> StreamInv(s)  BY <2>1, SameText DEF StreamInv, Passed
  <2>4. QED  BY <2>1, <2>2, <2>3, SameText DEF WriterInv
<1>9. CASE StreamReturns
  <2>1. /\ exec = "stream" /\ exec' = "flush" /\ StreamInv(s) /\ AllHeard
        /\ UNCHANGED <<speech, heard, used, at, partial, emitted>>
    BY <1>9 DEF StreamReturns, WriterInv, writer, kubeRequest
  <2>2. StreamInv(s)'  BY <2>1, SameText DEF StreamInv, Passed
  <2>3. QED  BY <2>1, <2>2, SameText DEF WriterInv, AllHeard
<1>10. CASE Flush
  <2>1. /\ exec = "flush" /\ StreamInv(s) /\ at[s] = "between" /\ heard[s] = speech[s].length
        /\ UNCHANGED <<speech, at>>
        /\ \A k \in DOMAIN emitted : emitted[k] = LineOf(s, k)
    BY <1>10 DEF Flush, WriterInv, kubeRequest
  <2>2. /\ partial = <<>> => Len(emitted) = LineCount(s)
        /\ partial # <<>> => /\ Len(emitted) + 1 = LineCount(s)
                             /\ partial = LineOf(s, Len(emitted) + 1)
    BY <1>1, <2>1, AtEnd
  <2>3. LineCount(s) \in Nat  BY <1>1, LineCountIs
  <2>4. CASE partial = <<>>
    <3>1. emitted' = emitted /\ exec' \in {"ok", "error"}  BY <1>10, <2>4 DEF Flush, Answer
    <3>2. QED  BY <1>1, <2>1, <2>2, <2>3, <2>4, <3>1, SameText DEF WriterInv
  <2>5. CASE partial # <<>>
    <3>1. emitted' = Append(emitted, partial) /\ exec' = "flushed"  BY <1>10, <2>5 DEF Flush
    <3>2. /\ emitted \in Seq(Seq(Characters)) /\ partial \in Seq(Characters)
          /\ Len(emitted) \in Nat /\ DOMAIN emitted = 1 .. Len(emitted)
      BY <1>1, WriterTypes DEF KubeTypeOK
    <3>3. /\ Len(emitted') = Len(emitted) + 1 /\ DOMAIN emitted' = 1 .. Len(emitted) + 1
          /\ \A k \in 1 .. Len(emitted) + 1 :
               emitted'[k] = IF k = Len(emitted) + 1 THEN partial ELSE emitted[k]
      BY <3>1, <3>2, AppendProperties
    <3>4. \A k \in 1 .. Len(emitted) + 1 : emitted'[k] = LineOf(s, k)
      <4> TAKE k \in 1 .. Len(emitted) + 1
      <4>1. k # Len(emitted) + 1 => k \in 1 .. Len(emitted)  BY <3>2
      <4>2. QED  BY <4>1, <2>1, <2>2, <2>5, <3>2, <3>3
    <3>5. QED  BY <1>1, <2>1, <2>2, <2>3, <2>5, <3>1, <3>3, <3>4, SameText DEF WriterInv
  <2>6. QED  BY <2>4, <2>5
<1>11. CASE Reset
  <2>1. /\ exec = "flushed" /\ exec' \in {"ok", "error"} /\ UNCHANGED <<speech, at, emitted>>
    BY <1>11 DEF Reset, Answer, kubeRequest
  <2>2. QED  BY <2>1, SameText DEF WriterInv
<1>12. CASE TransferReturns
  BY <1>12 DEF TransferReturns, Alone
<1>13. QED
  BY <1>3, <1>4, <1>5, <1>6, <1>7, <1>8, <1>9, <1>10, <1>11, <1>12 DEF KTNext

THEOREM KubeNext == KubeInv /\ [KTNext]_ktVars => KubeInv'
<1> SUFFICES ASSUME KubeInv, [KTNext]_ktVars PROVE KubeInv'  OBVIOUS
<1>1. KubeTypeOK'  BY KubeTypes DEF KubeInv
<1>2. op' = op /\ speech' = speech
  BY DEF KTNext, Search, Begin, Lookup, Receive, Gather, Emit, Clear, StreamReturns, Flush,
         Reset, ArchiverEnds, TransferReturns, ktVars, kubeRequest
<1>3. ASSUME NEW s \in Streams, Alone(s)', status' # "cancelled" PROVE WriterInv(s)'
  <2>1. Alone(s)  BY <1>2, <1>3 DEF Alone
  <2>2. status # "cancelled"
    BY <1>3, <2>1 DEF KubeInv, KubeTypeOK, KTNext, Search, Begin, Lookup, Receive, Gather, Emit,
                      Clear, StreamReturns, Flush, Reset, ArchiverEnds, TransferReturns, ktVars, Alone
  <2>3. WriterInv(s)  BY <2>1, <2>2 DEF KubeInv
  <2>4. QED  BY <1>1, <1>3, <2>1, <2>3, WriterStep
<1>4. QED  BY <1>1, <1>3 DEF KubeInv

(* Whatever the chunks, the handler of a command with one stream is given   *)
(* the lines of its text.                                                   *)
THEOREM LinesWholeAlways == KTSpec => []LinesWhole
<1>1. KubeInv => LinesWhole
  <2> SUFFICES ASSUME KubeInv, NEW s \in Streams, Alone(s), status # "cancelled"
               PROVE  /\ Len(emitted) <= LineCount(s)
                      /\ \A k \in DOMAIN emitted : emitted[k] = LineOf(s, k)
                      /\ exec = "ok" => Len(emitted) = LineCount(s)
    BY DEF LinesWhole, Alone
  <2>1. WriterInv(s)  BY DEF KubeInv
  <2>2. QED  BY <2>1 DEF WriterInv
<1>2. QED  BY <1>1, KubeStart, KubeNext, PTL DEF KTSpec
=============================================================================

------------------------- MODULE StreamFile_proofs --------------------------
(***************************************************************************)
(* Proofs about StreamFile for all lists of files and all arguments: what  *)
(* is reported as collected is whole, what is on disk is explained, and no *)
(* secret is among it, whichever way the attempts go.                      *)
(***************************************************************************)
EXTENDS StreamFile, TLAPS

Steps == {"select", "open", "header", "stream", "verify", "mask", "collect"}
Wires == {"none", "open"} \cup Endings
Contents == {"none", "partial", "whole", "short", "masked"}
Excuses == {"none", "path", "open", "copy", "flush", "mask"}
Entries == [of : 0..Len(files), content : Contents]

TypeOK ==
  /\ args \in Arguments
  /\ files \in FileLists
  /\ at \in 1..(Len(files) + 1)
  /\ step \in Steps
  /\ attempt \in 0..MaxRetries
  /\ wire \in Wires
  /\ fed \in Nat /\ cut \in Nat
  /\ disk \in [Bases -> Entries]
  /\ skipped \in SUBSET Indexes
  /\ collected \in SUBSET Indexes
  /\ excuse \in [Indexes -> Excuses]

(* A goroutine feeds the pipe exactly while the remote command of a         *)
(* compressed transfer runs.                                                *)
FedInv == fed = IF args.gzip /\ Reading /\ wire = "open" THEN 1 ELSE 0

(* What the files gone through have left on disk; an entry has the name of  *)
(* its file, which is none that comes later.                                *)
DiskInv ==
  \A b \in Bases : disk[b].of # 0 =>
    disk[b].of <= at /\ files[disk[b].of].base = b /\ ~files[disk[b].of].secret

ExplainedInv ==
  \A b \in Bases : disk[b].of # 0 /\ disk[b].of < at =>
    disk[b].of \in collected \/ excuse[disk[b].of] = "flush"

MaskedInv ==
  \A b \in Bases : disk[b].of # 0 /\ disk[b].of \in collected
                   /\ files[disk[b].of].kind = "config" =>
    disk[b].content = "masked" \/ excuse[disk[b].of] = "mask"

PastInv ==
  /\ \A i \in collected : i < at
  /\ DiskInv
  /\ ExplainedInv
  /\ MaskedInv
  /\ CollectedIsWhole

(* What the file in hand has on disk at each step, and how the reader of    *)
(* the transfer stands.                                                     *)
HandInv ==
  /\ step # "select" => Current /\ Selected(File)
  /\ step \in {"select", "open"} => wire = "none"
  /\ Reading => wire # "none"
  /\ step = "header" => args.gzip
  /\ step \in {"verify", "mask", "collect"} =>
       wire \in {"whole", "short"} /\ (args.gzip => wire = "whole")
  /\ step = "select" => \A b \in Bases : disk[b].of # at
  /\ step = "open" /\ disk[File.base].of = at => excuse[at] = "flush"
  /\ step \in {"verify", "mask"} => disk[File.base] = Holds(at, wire)
  /\ step = "mask" => File.kind = "config"
  /\ step = "collect" =>
       /\ disk[File.base].of = at
       /\ excuse[at] # "mask" => disk[File.base].content \in {wire, "masked"}
       /\ File.kind = "config" => disk[File.base].content = "masked" \/ excuse[at] = "mask"

(* Only the file in hand has a failed masking as its excuse before it is    *)
(* collected, and a file that comes later has none.                         *)
ExcuseInv ==
  /\ \A i \in Indexes : i > at => excuse[i] = "none"
  /\ Current /\ step = "select" => excuse[at] = "none"
  /\ Current /\ step # "collect" => excuse[at] # "mask"

IInv == TypeOK /\ FedInv /\ PastInv /\ HandInv /\ ExcuseInv

-----------------------------------------------------------------------------
LEMMA Lists == /\ files \in FileLists => Len(files) \in Nat
               /\ Indexes = 1..Len(files)
<1>1. files \in FileLists => files \in Seq(FileRecords) BY ListsLegal
<1> QED BY <1>1 DEF Indexes

LEMMA Hand ==
  ASSUME TypeOK, Current
  PROVE  /\ at \in Indexes /\ at \in Nat /\ File.base \in Bases /\ File = files[at]
         /\ Len(files) \in Nat /\ at \in 0..Len(files)
<1>1. Len(files) \in Nat BY Lists DEF TypeOK
<1>2. at \in 1..Len(files) BY <1>1 DEF TypeOK, Current
<1>3. at \in Indexes BY <1>2 DEF Indexes
<1>4. File.base \in Bases BY <1>3 DEF File, Bases
<1> QED BY <1>1, <1>2, <1>3, <1>4 DEF File

LEMMA EntryTypes ==
  ASSUME TypeOK
  PROVE  /\ \A b \in Bases : /\ disk[b].of \in 0..Len(files)
                             /\ disk[b].of # 0 => disk[b].of \in Indexes
         /\ Missing \in Entries /\ Missing.of = 0 /\ Missing.content = "none"
         /\ \A i \in 0..Len(files), c \in Contents : Holds(i, c) \in Entries
         /\ \A i, c : Holds(i, c).of = i /\ Holds(i, c).content = c
<1>1. Len(files) \in Nat BY Lists DEF TypeOK
<1>2. \A b \in Bases : disk[b] \in Entries BY DEF TypeOK
<1>3. \A b \in Bases : disk[b].of \in 0..Len(files) BY <1>2 DEF Entries
<1>4. \A b \in Bases : disk[b].of # 0 => disk[b].of \in Indexes
  BY <1>1, <1>3 DEF Indexes
<1>5. Missing \in Entries /\ Missing.of = 0 /\ Missing.content = "none"
  BY <1>1 DEF Missing, Entries, Contents
<1> QED BY <1>3, <1>4, <1>5 DEF Holds, Entries

(* The list and what is derived from it stay.                               *)
SameRun == args' = args /\ files' = files

LEMMA SameLists ==
  ASSUME SameRun
  PROVE  /\ Indexes' = Indexes /\ Bases' = Bases /\ Entries' = Entries
         /\ Len(files)' = Len(files)
         /\ \A i : LastOfItsName(i)' <=> LastOfItsName(i)
BY DEF SameRun, Indexes, Bases, Entries, LastOfItsName

-----------------------------------------------------------------------------
(* What a step may do to the file in hand without touching what the others  *)
(* left: another file keeps its excuse, another name its entry; and a file  *)
(* that is done with is collected whole, or has left nothing unexplained.   *)
OnlyHand ==
  /\ SameRun
  /\ at' \in {at, at + 1}
  /\ \A i \in Indexes : i # at => excuse'[i] = excuse[i]
  /\ \A b \in Bases : b # File.base => disk'[b] = disk[b]
  /\ disk'[File.base] = disk[File.base] \/ disk'[File.base].of \in {0, at}

Settled ==
  /\ disk'[File.base].of = at => ~File.secret
  /\ collected' \in SUBSET (collected \cup {at})
  /\ collected \subseteq collected'
  /\ at' = at + 1 /\ disk'[File.base].of = at => at \in collected' \/ excuse'[at] = "flush"
  /\ at \in collected' =>
       /\ at' = at + 1
       /\ disk'[File.base].of = at
       /\ File.kind = "config" =>
            disk'[File.base].content = "masked" \/ excuse'[at] = "mask"
       /\ args.gzip /\ excuse'[at] # "mask" => disk'[File.base].content \in Streamed

LEMMA PastKept ==
  ASSUME TypeOK, PastInv, Current, OnlyHand, Settled
  PROVE  PastInv'
<1>1. /\ at \in Indexes /\ at \in Nat /\ File.base \in Bases /\ File = files[at]
      /\ Len(files) \in Nat
  BY Hand
<1>2. /\ Indexes' = Indexes /\ Bases' = Bases /\ files' = files /\ args' = args
      /\ \A i : LastOfItsName(i)' <=> LastOfItsName(i)
  <2>1. SameRun BY DEF OnlyHand
  <2>2. files' = files /\ args' = args BY <2>1 DEF SameRun
  <2> QED BY <2>1, <2>2, SameLists
<1>3. /\ \A b \in Bases : disk[b].of # 0 => disk[b].of \in Indexes
      /\ Indexes \subseteq Nat
  BY <1>1, EntryTypes DEF Indexes
<1>4. (at' = at \/ at' = at + 1) /\ at' \in Nat /\ at <= at'
  BY <1>1 DEF OnlyHand
<1>5. \A i \in collected : i < at /\ i \in Indexes
  BY DEF PastInv, TypeOK
<1>6. \A b \in Bases : disk'[b] = disk[b] \/ (b = File.base /\ disk'[b].of \in {0, at})
  BY DEF OnlyHand
<1>7. \A i \in collected' : i \in collected \/ (i = at /\ at' = at + 1)
  BY DEF Settled
<1>8. \A i \in collected' : i < at'
  <2> TAKE i \in collected'
  <2>1. CASE i \in collected
    <3>1. i < at /\ i \in Nat BY <2>1, <1>3, <1>5
    <3> QED BY <3>1, <1>1, <1>4
  <2>2. CASE i = at /\ at' = at + 1 BY <2>2, <1>1
  <2> QED BY <2>1, <2>2, <1>7
<1>9. DiskInv'
  <2> SUFFICES ASSUME NEW b \in Bases, disk'[b].of # 0
               PROVE  /\ disk'[b].of <= at' /\ files[disk'[b].of].base = b
                      /\ ~files[disk'[b].of].secret
    BY <1>2 DEF DiskInv
  <2>1. CASE disk'[b] = disk[b]
    <3>1. disk[b].of <= at /\ files[disk[b].of].base = b /\ ~files[disk[b].of].secret
      BY <2>1 DEF PastInv, DiskInv
    <3>2. disk[b].of \in Nat BY <2>1, <1>3
    <3> QED BY <2>1, <3>1, <3>2, <1>1, <1>4
  <2>2. CASE b = File.base /\ disk'[b].of = at
    BY <2>2, <1>1, <1>4 DEF Settled
  <2> QED BY <2>1, <2>2, <1>6
<1>10. ASSUME NEW b \in Bases, disk'[b].of # 0, disk'[b].of < at'
       PROVE  \/ disk'[b].of = at /\ b = File.base /\ at' = at + 1
              \/ disk'[b] = disk[b] /\ disk[b].of < at
  <2>1. CASE disk'[b] = disk[b]
    <3>1. disk[b].of <= at /\ files[disk[b].of].base = b
      BY <2>1, <1>10 DEF PastInv, DiskInv
    <3>2. disk[b].of \in Nat BY <2>1, <1>3, <1>10
    <3> QED BY <2>1, <3>1, <3>2, <1>1, <1>4, <1>10
  <2>2. CASE b = File.base /\ disk'[b].of = at
    BY <2>2, <1>1, <1>4, <1>10
  <2> QED BY <2>1, <2>2, <1>6, <1>10
<1>11. ExplainedInv'
  <2> SUFFICES ASSUME NEW b \in Bases, disk'[b].of # 0, disk'[b].of < at'
               PROVE  disk'[b].of \in collected' \/ excuse'[disk'[b].of] = "flush"
    BY <1>2 DEF ExplainedInv
  <2>1. CASE disk'[b].of = at /\ b = File.base /\ at' = at + 1
    BY <2>1 DEF Settled
  <2>2. CASE disk'[b] = disk[b] /\ disk[b].of < at
    <3>1. disk[b].of \in collected \/ excuse[disk[b].of] = "flush"
      BY <2>2 DEF PastInv, ExplainedInv
    <3>2. disk[b].of \in Indexes /\ disk[b].of # at BY <2>2, <1>1, <1>3
    <3> QED BY <2>2, <3>1, <3>2 DEF Settled, OnlyHand
  <2> QED BY <2>1, <2>2, <1>10
<1>12. MaskedInv'
  <2> SUFFICES ASSUME NEW b \in Bases, disk'[b].of # 0, disk'[b].of \in collected',
                      files[disk'[b].of].kind = "config"
               PROVE  disk'[b].content = "masked" \/ excuse'[disk'[b].of] = "mask"
    BY <1>2 DEF MaskedInv
  <2>1. disk'[b].of < at' BY <1>8
  <2>2. CASE disk'[b].of = at /\ b = File.base /\ at' = at + 1
    BY <2>2, <1>1 DEF Settled
  <2>3. CASE disk'[b] = disk[b] /\ disk[b].of < at
    <3>1. disk[b].of \in Indexes /\ disk[b].of # at BY <2>3, <1>1, <1>3
    <3>2. disk[b].of \in collected BY <2>3, <3>1, <1>7
    <3>3. disk[b].content = "masked" \/ excuse[disk[b].of] = "mask"
      BY <2>3, <3>2 DEF PastInv, MaskedInv
    <3> QED BY <2>3, <3>1, <3>3 DEF OnlyHand
  <2> QED BY <2>1, <2>2, <2>3, <1>10
<1>13. CollectedIsWhole'
  <2> SUFFICES ASSUME NEW i \in collected', LastOfItsName(i), args.gzip, excuse'[i] # "mask"
               PROVE  /\ disk'[files[i].base].of = i
                      /\ disk'[files[i].base].content \in Streamed
    BY <1>2 DEF CollectedIsWhole
  <2>1. CASE i = at
    BY <2>1, <1>1 DEF Settled
  <2>2. CASE i # at
    <3>1. i \in collected /\ i < at /\ i \in Indexes BY <2>2, <1>5, <1>7
    <3>2. excuse[i] # "mask" BY <2>2, <3>1 DEF OnlyHand
    <3>3. files[at].base # files[i].base BY <1>1, <3>1 DEF LastOfItsName
    <3>4. files[i].base \in Bases BY <3>1 DEF Bases
    <3>5. disk'[files[i].base] = disk[files[i].base] BY <1>1, <3>3, <3>4 DEF OnlyHand
    <3>6. disk[files[i].base].of = i /\ disk[files[i].base].content \in Streamed
      BY <3>1, <3>2 DEF PastInv, CollectedIsWhole
    <3> QED BY <3>5, <3>6
  <2> QED BY <2>1, <2>2
<1> QED BY <1>8, <1>9, <1>11, <1>12, <1>13 DEF PastInv

-----------------------------------------------------------------------------
(* The types that every step on a file keeps alike.                         *)
LEMMA StepTypes ==
  ASSUME TypeOK, SameRun, at' \in {at, at + 1}, Current,
         step' \in Steps, attempt' \in 0..MaxRetries, wire' \in Wires,
         fed' \in Nat, cut' \in Nat, disk' \in [Bases -> Entries],
         skipped' \in SUBSET Indexes, collected' \in SUBSET Indexes,
         excuse' \in [Indexes -> Excuses]
  PROVE  TypeOK'
<1>1. at \in 1..Len(files) /\ Len(files) \in Nat BY Hand DEF Indexes
<1>2. at' \in 1..(Len(files) + 1) BY <1>1
<1>3. /\ Indexes' = Indexes /\ Bases' = Bases /\ Entries' = Entries
      /\ Len(files)' = Len(files) /\ args' = args /\ files' = files
  BY SameLists DEF SameRun
<1> QED BY <1>2, <1>3 DEF TypeOK

(* A file that is done with leaves the next one untouched.                  *)
LEMMA NextFileHand ==
  ASSUME IInv, Current, OnlyHand, NextFile, \A b \in Bases : disk'[b].of \in 0..at
  PROVE  HandInv' /\ ExcuseInv'
<1> USE DEF IInv
<1>1. /\ at \in Nat /\ Len(files) \in Nat /\ at \in Indexes
      /\ Indexes' = Indexes /\ Bases' = Bases /\ files' = files
  <2>1. SameRun /\ files' = files BY DEF OnlyHand, SameRun
  <2> QED BY <2>1, Hand, SameLists
<1>2. at' = at + 1 /\ step' = "select" /\ wire' = "none" BY DEF NextFile
<1>3. \A b \in Bases : disk'[b].of # at'
  BY <1>1, <1>2
<1>4. HandInv' BY <1>1, <1>2, <1>3 DEF HandInv, Reading
<1>5. \A i \in Indexes : i > at' \/ i = at' => excuse'[i] = "none"
  <2> TAKE i \in Indexes
  <2>1. HAVE i > at' \/ i = at'
  <2>2. i \in Nat /\ i > at /\ i # at BY <2>1, <1>1, <1>2 DEF Indexes
  <2> QED BY <2>2 DEF ExcuseInv, OnlyHand
<1>6. Current' => at' \in Indexes BY <1>1, <1>2 DEF Current, Indexes
<1>7. ExcuseInv'
  BY <1>1, <1>2, <1>5, <1>6 DEF ExcuseInv
<1> QED BY <1>4, <1>7

(* The entries of the disk after a step are of files up to the one in hand. *)
LEMMA EntriesUpToHand ==
  ASSUME TypeOK, PastInv, Current, OnlyHand
  PROVE  \A b \in Bases : disk'[b].of \in 0..at
<1> TAKE b \in Bases
<1>1. at \in Nat /\ Len(files) \in Nat /\ disk[b].of \in 0..Len(files)
  BY Hand, EntryTypes
<1>2. disk[b].of # 0 => disk[b].of <= at BY DEF PastInv, DiskInv
<1>3. CASE disk'[b] = disk[b] BY <1>1, <1>2, <1>3
<1>4. CASE b = File.base /\ disk'[b].of \in {0, at} BY <1>1, <1>4
<1> QED BY <1>3, <1>4 DEF OnlyHand

(* A failed attempt, whatever failed: its file is gone, or has the excuse   *)
(* of a failing flush.                                                      *)
LEMMA AttemptFailsStep ==
  ASSUME IInv, step \in {"open", "header", "stream"}, SameRun,
         NEW permanent, NEW why \in {"open", "copy", "flush"}, AttemptFails(permanent, why),
         disk' \in {disk, Removed}, disk'[File.base].of = at => why = "flush",
         fed' = 0, cut' \in Nat, collected' = collected
  PROVE  IInv'
<1> USE DEF IInv
<1>1. Current /\ Selected(File) BY DEF HandInv
<1>2. /\ at \in Indexes /\ at \in Nat /\ File.base \in Bases /\ File = files[at]
      /\ Len(files) \in Nat /\ Indexes' = Indexes /\ Bases' = Bases
      /\ files' = files /\ args' = args
  BY <1>1, Hand, SameLists DEF SameRun
<1>3. /\ excuse' = [excuse EXCEPT ![at] = why] /\ excuse'[at] = why
      /\ excuse' \in [Indexes -> Excuses]
      /\ \A i \in Indexes : i # at => excuse'[i] = excuse[i]
  <2>1. excuse \in [Indexes -> Excuses] /\ why \in Excuses BY DEF TypeOK, Excuses
  <2>2. excuse' = [excuse EXCEPT ![at] = why] BY DEF AttemptFails
  <2> QED BY <2>1, <2>2, <1>2
<1>4. /\ disk' \in [Bases -> Entries]
      /\ disk'[File.base] = disk[File.base] \/ disk'[File.base].of \in {0, at}
      /\ \A b \in Bases : b # File.base => disk'[b] = disk[b]
  <2>1. disk \in [Bases -> Entries] /\ Missing \in Entries /\ Missing.of = 0
    BY EntryTypes DEF TypeOK
  <2> QED BY <2>1, <1>2 DEF Removed
<1>5. \/ NextFile /\ skipped' = skipped \cup {at}
      \/ /\ ~GiveUp(permanent) /\ attempt' = attempt + 1 /\ step' = "open"
         /\ wire' = "none" /\ at' = at /\ skipped' = skipped
  BY DEF AttemptFails
<1>6. at' \in {at, at + 1} /\ wire' = "none" /\ step' \in {"select", "open"}
  BY <1>5 DEF NextFile
<1>7. TypeOK'
  <2>1. attempt' \in 0..MaxRetries
    BY <1>5 DEF NextFile, GiveUp, MaxRetries, TypeOK
  <2>2. step' \in Steps /\ wire' \in Wires BY <1>6 DEF Steps, Wires
  <2>3. skipped' \in SUBSET Indexes /\ collected' \in SUBSET Indexes
    BY <1>2, <1>5 DEF TypeOK
  <2>4. fed' \in Nat OBVIOUS
  <2> QED BY <1>1, <1>3, <1>4, <1>6, <2>1, <2>2, <2>3, <2>4, StepTypes
<1>8. OnlyHand
  BY <1>2, <1>3, <1>4, <1>6 DEF OnlyHand
<1>9. FedInv' BY <1>6 DEF FedInv, Reading
<1>10. PastInv'
  <2>1. at \notin collected BY <1>2 DEF PastInv
  <2>2. ~File.secret BY <1>1 DEF Selected, IsAlwaysExcluded
  <2>3. Settled BY <1>3, <2>1, <2>2 DEF Settled
  <2> QED BY <1>1, <1>8, <2>3, PastKept
<1>11. CASE NextFile
  BY <1>1, <1>7, <1>8, <1>9, <1>10, <1>11, NextFileHand, EntriesUpToHand
<1>12. CASE at' = at /\ step' = "open"
  <2>1. File' = File /\ Current' /\ Selected(File)'
    BY <1>1, <1>2, <1>12 DEF File, Current, Selected, IsAlwaysExcluded, IsLogTypeEnabled,
       IsWithinDateRange, LogDayLimit
  <2>2. HandInv' BY <1>3, <1>6, <1>12, <2>1 DEF HandInv, Reading
  <2>3. \A i \in Indexes : i > at => i # at BY <1>2 DEF Indexes
  <2>4. excuse'[at] # "mask" BY <1>3
  <2>5. ExcuseInv' BY <1>2, <1>3, <1>12, <2>3, <2>4 DEF ExcuseInv
  <2> QED BY <2>5, <1>7, <1>9, <1>10, <2>2, <2>3
<1> QED BY <1>5, <1>11, <1>12

LEMMA OpenFailsStep == IInv /\ OpenFails => IInv'
<1> SUFFICES ASSUME IInv, OpenFails PROVE IInv' OBVIOUS
<1>1. PICK permanent \in BOOLEAN :
        AttemptFails(permanent, IF excuse[at] = "flush" THEN "flush" ELSE "open")
  BY DEF OpenFails
<1> DEFINE why == IF excuse[at] = "flush" THEN "flush" ELSE "open"
<1>2. step = "open" /\ SameRun /\ disk' = disk /\ collected' = collected /\ fed' = fed /\ cut' = cut
  BY DEF OpenFails, SameRun, pipes
<1>3. fed = 0 BY <1>2 DEF IInv, FedInv, Reading
<1>4. cut' \in Nat BY <1>2 DEF IInv, TypeOK
<1>5. disk'[File.base].of = at => why = "flush"
  BY <1>2 DEF IInv, HandInv
<1>6. AttemptFails(permanent, why) /\ why \in {"open", "copy", "flush"} BY <1>1
<1> HIDE DEF why
<1> QED BY <1>2, <1>3, <1>4, <1>5, <1>6, AttemptFailsStep

(* The copy that fails removes its file.                                    *)
LEMMA CopyFailsStep ==
  ASSUME IInv, step \in {"header", "stream"}, SameRun, NEW permanent, CopyFails(permanent),
         fed' = 0, cut' \in Nat, collected' = collected
  PROVE  IInv'
<1>1. Current BY DEF IInv, HandInv
<1>2. at \in Nat /\ at # 0 /\ File.base \in Bases
  BY <1>1, Hand DEF IInv, Indexes
<1>3. disk' = Removed /\ AttemptFails(permanent, "copy") BY DEF CopyFails
<1>4. disk'[File.base].of # at
  <2>1. disk \in [Bases -> Entries] /\ Missing.of = 0 BY EntryTypes DEF IInv, TypeOK
  <2> QED BY <1>2, <1>3, <2>1 DEF Removed
<1> QED BY <1>3, <1>4, AttemptFailsStep

LEMMA CopyFailuresStep == IInv /\ (HeaderFails \/ CopyBreaks \/ CopyEndsBadly) => IInv'
<1> SUFFICES ASSUME IInv, HeaderFails \/ CopyBreaks \/ CopyEndsBadly PROVE IInv' OBVIOUS
<1>1. /\ step \in {"header", "stream"} /\ SameRun /\ collected' = collected
      /\ \E permanent : CopyFails(permanent)
  BY DEF HeaderFails, CopyBreaks, CopyEndsBadly, SameRun
<1>2. fed' = 0 /\ cut' \in Nat
  <2>1. fed \in Nat /\ cut \in Nat BY DEF IInv, TypeOK
  <2>2. CASE HeaderFails \/ CopyBreaks
    <3>1. ClosePipe BY <2>2 DEF HeaderFails, CopyBreaks
    <3> QED BY <2>1, <3>1 DEF ClosePipe
  <2>3. CASE CopyEndsBadly BY <2>1, <2>3 DEF CopyEndsBadly, pipes, IInv, FedInv
  <2> QED BY <2>2, <2>3
<1> QED BY <1>1, <1>2, CopyFailsStep

(* A file that is skipped before it was opened has left nothing.            *)
LEMMA SkipStep ==
  ASSUME IInv, Current, step = "select", SameRun, NextFile,
         disk' = disk, collected' = collected, fed' = fed, cut' = cut,
         skipped' \in {skipped, skipped \cup {at}},
         excuse' \in {excuse, [excuse EXCEPT ![at] = "path"]}
  PROVE  IInv'
<1> USE DEF IInv
<1>1. at \in Indexes /\ at \in Nat /\ File.base \in Bases /\ File = files[at]
  BY Hand
<1>2. /\ excuse' \in [Indexes -> Excuses]
      /\ \A i \in Indexes : i # at => excuse'[i] = excuse[i]
  <2>1. excuse \in [Indexes -> Excuses] /\ "path" \in Excuses BY DEF TypeOK, Excuses
  <2> QED BY <2>1, <1>1
<1>3. at' = at + 1 /\ step' = "select" /\ attempt' = 0 /\ wire' = "none"
  BY DEF NextFile
<1>4. OnlyHand BY <1>2, <1>3 DEF OnlyHand
<1>5. TypeOK'
  <2>1. step' \in Steps /\ wire' \in Wires /\ attempt' \in 0..MaxRetries
    BY <1>3 DEF Steps, Wires, MaxRetries
  <2>2. /\ skipped' \in SUBSET Indexes /\ collected' \in SUBSET Indexes
        /\ disk' \in [Bases -> Entries] /\ fed' \in Nat /\ cut' \in Nat
    BY <1>1 DEF TypeOK
  <2>3. at' \in {at, at + 1} BY <1>3
  <2> QED BY <1>2, <2>1, <2>2, <2>3, StepTypes
<1>6. FedInv' BY <1>3 DEF FedInv, Reading
<1>7. disk[File.base].of # at BY <1>1 DEF HandInv
<1>8. PastInv'
  <2>1. at \notin collected BY <1>1 DEF PastInv
  <2>2. Settled BY <1>7, <2>1 DEF Settled
  <2> QED BY <1>4, <2>2, PastKept
<1>9. HandInv' /\ ExcuseInv'
  BY <1>4, NextFileHand, EntriesUpToHand
<1> QED BY <1>5, <1>6, <1>8, <1>9

LEMMA ExcludeStep == IInv /\ Exclude => IInv'
BY SkipStep DEF Exclude, SameRun, pipes

(* A step that stays on the file in hand, and what it owes to the rest.     *)
LEMMA StayStep ==
  ASSUME IInv, Current, Selected(File), SameRun, at' = at, skipped' = skipped,
         collected' = collected,
         step' \in Steps \ {"select"}, attempt' \in 0..MaxRetries, wire' \in Wires,
         fed' \in Nat, cut' \in Nat, disk' \in [Bases -> Entries],
         excuse' \in [Indexes -> Excuses],
         \A i \in Indexes : i # at => excuse'[i] = excuse[i],
         \A b \in Bases : b # File.base => disk'[b] = disk[b],
         disk'[File.base] = disk[File.base] \/ disk'[File.base].of = at,
         step' # "collect" => excuse'[at] # "mask",
         FedInv'
  PROVE  /\ TypeOK' /\ PastInv' /\ ExcuseInv' /\ FedInv'
         /\ Current' /\ Selected(File)' /\ File' = File /\ Bases' = Bases
         /\ HandInv' => IInv'
<1> USE DEF IInv
<1>1. /\ at \in Indexes /\ at \in Nat /\ File.base \in Bases /\ File = files[at]
      /\ Len(files) \in Nat /\ Indexes' = Indexes /\ Bases' = Bases
      /\ files' = files /\ args' = args
  BY Hand, SameLists DEF SameRun
<1>2. TypeOK'
  <2>1. skipped' \in SUBSET Indexes /\ collected' \in SUBSET Indexes BY DEF TypeOK
  <2> QED BY <2>1, StepTypes
<1>3. PastInv'
  <2>1. OnlyHand BY <1>1 DEF OnlyHand
  <2>2. at \notin collected BY <1>1 DEF PastInv
  <2>3. ~File.secret BY DEF Selected, IsAlwaysExcluded
  <2>4. at' # at + 1 BY <1>1
  <2>5. Settled BY <2>2, <2>3, <2>4 DEF Settled
  <2> QED BY <2>1, <2>5, PastKept
<1>4. ExcuseInv'
  <2>1. \A i \in Indexes : i > at => i # at BY <1>1 DEF Indexes
  <2> QED BY <1>1, <2>1 DEF ExcuseInv
<1>5. File' = File /\ Current' /\ Selected(File)'
  BY <1>1 DEF File, Current, Selected, IsAlwaysExcluded, IsLogTypeEnabled,
     IsWithinDateRange, LogDayLimit
<1> QED BY <1>1, <1>2, <1>3, <1>4, <1>5

LEMMA CreatePathStep == IInv /\ CreatePath => IInv'
<1> SUFFICES ASSUME IInv, CreatePath PROVE IInv' OBVIOUS
<1> USE DEF IInv
<1>1. /\ Current /\ step = "select" /\ Selected(File) /\ SameRun
      /\ fed' = fed /\ cut' = cut /\ disk' = disk /\ collected' = collected
  BY DEF CreatePath, SameRun, pipes
<1>2. CASE skipped' = skipped \cup {at} /\ excuse' = [excuse EXCEPT ![at] = "path"] /\ NextFile
  BY <1>1, <1>2, SkipStep
<1>3. CASE /\ step' = "open" /\ attempt' = 1
           /\ at' = at /\ wire' = wire /\ skipped' = skipped /\ excuse' = excuse
  <2>1. wire = "none" BY <1>1 DEF HandInv
  <2>2. FedInv' BY <1>1, <1>3, <2>1 DEF FedInv, Reading
  <2>3. at \in Indexes /\ File.base \in Bases BY <1>1, Hand
  <2>4. /\ step' \in Steps \ {"select"} /\ attempt' \in 0..MaxRetries
        /\ excuse' \in [Indexes -> Excuses] /\ disk' \in [Bases -> Entries]
        /\ wire' \in Wires /\ fed' \in Nat /\ cut' \in Nat
    BY <1>1, <1>3 DEF TypeOK, Steps, MaxRetries
  <2>5. excuse'[at] # "mask" BY <1>1, <1>3 DEF ExcuseInv
  <2>6. Current' /\ Selected(File)' /\ File' = File /\ (HandInv' => IInv')
    BY <1>1, <1>3, <2>2, <2>4, <2>5, StayStep
  <2>7. disk[File.base].of # at BY <1>1, <2>3 DEF HandInv
  <2>8. HandInv' BY <1>1, <1>3, <2>1, <2>6, <2>7 DEF HandInv, Reading
  <2> QED BY <2>6, <2>8
<1> QED BY <1>2, <1>3 DEF CreatePath

LEMMA OpenStep == IInv /\ Open => IInv'
<1> SUFFICES ASSUME IInv, Open PROVE IInv' OBVIOUS
<1> USE DEF IInv
<1>1. /\ step = "open" /\ SameRun /\ disk' = [disk EXCEPT ![File.base] = Holds(at, "partial")]
      /\ wire' = "open" /\ step' = (IF args.gzip THEN "header" ELSE "stream")
      /\ fed' = (IF args.gzip THEN fed + 1 ELSE fed) /\ at' = at /\ attempt' = attempt
      /\ cut' = cut /\ skipped' = skipped /\ collected' = collected /\ excuse' = excuse
      /\ args' = args
  BY DEF Open, SameRun
<1>2. Current /\ Selected(File) BY <1>1 DEF HandInv
<1>3. at \in Indexes /\ File.base \in Bases /\ at \in 0..Len(files) BY <1>2, Hand
<1>4. fed = 0 BY <1>1 DEF FedInv, Reading
<1>5. FedInv' BY <1>1, <1>4 DEF FedInv, Reading
<1>6. Holds(at, "partial") \in Entries /\ Holds(at, "partial").of = at
  BY <1>3, EntryTypes DEF Contents
<1>7. /\ disk' \in [Bases -> Entries] /\ disk'[File.base].of = at
      /\ \A b \in Bases : b # File.base => disk'[b] = disk[b]
  BY <1>1, <1>3, <1>6 DEF TypeOK
<1>8. /\ step' \in Steps \ {"select"} /\ step' \in {"header", "stream"}
      /\ attempt' \in 0..MaxRetries /\ excuse' \in [Indexes -> Excuses]
      /\ wire' \in Wires /\ fed' \in Nat /\ cut' \in Nat
  BY <1>1, <1>4 DEF TypeOK, Steps, Wires
<1>9. excuse'[at] # "mask" BY <1>1, <1>2 DEF ExcuseInv
<1>10. Current' /\ Selected(File)' /\ (HandInv' => IInv')
  BY <1>1, <1>2, <1>5, <1>7, <1>8, <1>9, StayStep
<1>11. HandInv' BY <1>1, <1>8, <1>10 DEF HandInv, Reading
<1> QED BY <1>10, <1>11

(* The steps that move only the transfer, not what is on disk.              *)
LEMMA TransferStep == IInv /\ (RemoteEnds \/ ProducerStops \/ Header) => IInv'
<1> SUFFICES ASSUME IInv, RemoteEnds \/ ProducerStops \/ Header PROVE IInv' OBVIOUS
<1> USE DEF IInv
<1>1. /\ SameRun /\ args' = args /\ files' = files /\ at' = at /\ attempt' = attempt
      /\ disk' = disk /\ skipped' = skipped /\ collected' = collected /\ excuse' = excuse
  BY DEF RemoteEnds, ProducerStops, Header, SameRun
<1>2. CASE ProducerStops
  <2>1. /\ step' = step /\ wire' = wire /\ fed' = fed /\ cut > 0 /\ cut' = cut - 1
    BY <1>2 DEF ProducerStops
  <2>2. cut \in Nat /\ cut' \in Nat BY <2>1 DEF TypeOK
  <2>3. Indexes' = Indexes /\ Bases' = Bases /\ Entries' = Entries /\ Len(files)' = Len(files)
    BY <1>1, SameLists
  <2>4. TypeOK' BY <1>1, <2>1, <2>2, <2>3 DEF TypeOK
  <2>5. FedInv' BY <1>1, <2>1 DEF FedInv, Reading
  <2>6. PastInv'
    BY <1>1, <2>3, SameLists
       DEF PastInv, DiskInv, ExplainedInv, MaskedInv, CollectedIsWhole
  <2>7. Selected(File)' <=> Selected(File)
    BY <1>1 DEF File, Selected, IsAlwaysExcluded, IsLogTypeEnabled,
       IsWithinDateRange, LogDayLimit
  <2>8. HandInv' BY <1>1, <2>1, <2>3, <2>7 DEF HandInv, Reading, Current, File
  <2>9. ExcuseInv' BY <1>1, <2>1, <2>3 DEF ExcuseInv, Current
  <2> QED BY <2>4, <2>5, <2>6, <2>8, <2>9
<1>3. CASE RemoteEnds \/ Header
  <2>1. step \in {"header", "stream"} /\ step' \in {"header", "stream"}
        /\ (step' = "header" => step = "header") /\ cut' = cut
    BY <1>3 DEF RemoteEnds, Header, Reading, pipes
  <2>2. Current /\ Selected(File) BY <2>1 DEF HandInv
  <2>3. wire' \in Wires /\ wire' # "none"
    BY <1>3, <2>1 DEF RemoteEnds, Header, HandInv, Reading, TypeOK, Wires, Endings
  <2>4. fed' \in Nat /\ FedInv'
    <3>1. CASE Header
      BY <1>1, <3>1, <2>1 DEF Header, pipes, FedInv, Reading, TypeOK
    <3>2. CASE RemoteEnds
      <4>1. /\ wire = "open" /\ wire' # "open" /\ fed' = IF args.gzip THEN fed - 1 ELSE fed
        BY <3>2 DEF RemoteEnds, Endings
      <4>2. fed = IF args.gzip THEN 1 ELSE 0 BY <2>1, <4>1 DEF FedInv, Reading
      <4> QED BY <1>1, <4>1, <4>2 DEF FedInv
    <3> QED BY <1>3, <3>1, <3>2
  <2>5. /\ step' \in Steps \ {"select"} /\ attempt' \in 0..MaxRetries
        /\ excuse' \in [Indexes -> Excuses] /\ disk' \in [Bases -> Entries] /\ cut' \in Nat
    BY <1>1, <2>1 DEF TypeOK, Steps
  <2>6. excuse'[at] # "mask" BY <1>1, <2>1, <2>2 DEF ExcuseInv
  <2>7. Current' /\ Selected(File)' /\ (HandInv' => IInv')
    BY <1>1, <2>2, <2>3, <2>4, <2>5, <2>6, StayStep
  <2>8. HandInv' BY <1>1, <2>1, <2>3, <2>7 DEF HandInv, Reading
  <2> QED BY <2>7, <2>8
<1> QED BY <1>2, <1>3

LEMMA CopyEndsStep == IInv /\ CopyEnds => IInv'
<1> SUFFICES ASSUME IInv, CopyEnds PROVE IInv' OBVIOUS
<1> USE DEF IInv
<1>1. /\ step = "stream" /\ wire # "open" /\ ~EndIsError /\ SameRun /\ args' = args
      /\ fed' = fed /\ cut' = cut /\ collected' = collected
  BY DEF CopyEnds, SameRun, pipes
<1>2. wire \in {"whole", "short"} /\ (args.gzip => wire = "whole")
  <2>1. wire \in Wires /\ wire # "none" BY <1>1 DEF TypeOK, HandInv, Reading
  <2> QED BY <1>1, <2>1 DEF EndIsError, StreamErrorOnly, Wires, Endings
<1>3. fed = 0 BY <1>1 DEF FedInv
<1>4. Current /\ Selected(File) BY <1>1 DEF HandInv
<1>5. CASE AttemptFails(FALSE, "flush") /\ disk' = disk
  BY <1>1, <1>3, <1>5, AttemptFailsStep DEF TypeOK
<1>6. CASE /\ disk' = [disk EXCEPT ![File.base] = Holds(at, wire)]
           /\ step' = "verify" /\ at' = at /\ attempt' = attempt /\ wire' = wire
           /\ skipped' = skipped /\ excuse' = excuse
  <2>1. at \in Indexes /\ File.base \in Bases /\ at \in 0..Len(files) BY <1>4, Hand
  <2>2. Holds(at, wire) \in Entries /\ Holds(at, wire).of = at
    BY <1>2, <2>1, EntryTypes DEF Contents
  <2>3. /\ disk' \in [Bases -> Entries] /\ disk'[File.base] = Holds(at, wire)
        /\ \A b \in Bases : b # File.base => disk'[b] = disk[b]
    BY <1>6, <2>1, <2>2 DEF TypeOK
  <2>4. FedInv' BY <1>1, <1>3, <1>6 DEF FedInv, Reading
  <2>5. /\ step' \in Steps \ {"select"} /\ attempt' \in 0..MaxRetries
        /\ excuse' \in [Indexes -> Excuses] /\ wire' \in Wires /\ fed' \in Nat /\ cut' \in Nat
    BY <1>1, <1>6 DEF TypeOK, Steps
  <2>6. excuse'[at] # "mask" BY <1>1, <1>4, <1>6 DEF ExcuseInv
  <2>7. Current' /\ Selected(File)' /\ File' = File /\ (HandInv' => IInv')
    BY <1>1, <1>4, <1>6, <2>2, <2>3, <2>4, <2>5, <2>6, StayStep
  <2>8. HandInv' BY <1>1, <1>2, <1>6, <2>3, <2>7 DEF HandInv, Reading
  <2> QED BY <2>7, <2>8
<1> QED BY <1>5, <1>6 DEF CopyEnds

LEMMA VerifyStep == IInv /\ Verify => IInv'
<1> SUFFICES ASSUME IInv, Verify PROVE IInv' OBVIOUS
<1> USE DEF IInv
<1>1. /\ step = "verify" /\ SameRun /\ args' = args /\ fed' = fed /\ cut' = cut
      /\ step' = (IF File.kind = "config" THEN "mask" ELSE "collect")
      /\ at' = at /\ attempt' = attempt /\ wire' = wire /\ disk' = disk
      /\ skipped' = skipped /\ collected' = collected /\ excuse' = excuse
  BY DEF Verify, SameRun, pipes
<1>2. Current /\ Selected(File) BY <1>1 DEF HandInv
<1>3. FedInv' BY <1>1 DEF FedInv, Reading
<1>4. /\ step' \in Steps \ {"select"} /\ attempt' \in 0..MaxRetries
      /\ excuse' \in [Indexes -> Excuses] /\ wire' \in Wires /\ fed' \in Nat /\ cut' \in Nat
      /\ disk' \in [Bases -> Entries]
  BY <1>1 DEF TypeOK, Steps
<1>5. excuse'[at] # "mask" BY <1>1, <1>2 DEF ExcuseInv
<1>6. Current' /\ Selected(File)' /\ File' = File /\ (HandInv' => IInv')
  BY <1>1, <1>2, <1>3, <1>4, <1>5, StayStep
<1>7. /\ wire \in {"whole", "short"} /\ (args.gzip => wire = "whole")
      /\ disk[File.base] = Holds(at, wire)
  BY <1>1 DEF HandInv
<1>8. Holds(at, wire).of = at /\ Holds(at, wire).content = wire BY EntryTypes
<1>9. HandInv' BY <1>1, <1>6, <1>7, <1>8 DEF HandInv, Reading
<1> QED BY <1>6, <1>9

LEMMA MaskStep == IInv /\ Mask => IInv'
<1> SUFFICES ASSUME IInv, Mask PROVE IInv' OBVIOUS
<1> USE DEF IInv
<1>1. /\ step = "mask" /\ step' = "collect" /\ SameRun /\ args' = args
      /\ fed' = fed /\ cut' = cut /\ at' = at /\ attempt' = attempt /\ wire' = wire
      /\ skipped' = skipped /\ collected' = collected
  BY DEF Mask, SameRun, pipes
<1>2. PICK c \in {"masked", wire, "partial"} :
        /\ disk' = [disk EXCEPT ![File.base] = Holds(at, c)]
        /\ excuse' = [excuse EXCEPT ![at] = IF c = "masked" THEN "none" ELSE "mask"]
  BY DEF Mask
<1>3. Current /\ Selected(File) BY <1>1 DEF HandInv
<1>4. at \in Indexes /\ File.base \in Bases /\ at \in 0..Len(files) BY <1>3, Hand
<1>5. wire \in {"whole", "short"} /\ (args.gzip => wire = "whole") BY <1>1 DEF HandInv
<1>6. Holds(at, c) \in Entries /\ Holds(at, c).of = at /\ Holds(at, c).content = c
  BY <1>2, <1>4, <1>5, EntryTypes DEF Contents
<1>7. /\ disk' \in [Bases -> Entries] /\ disk'[File.base] = Holds(at, c)
      /\ \A b \in Bases : b # File.base => disk'[b] = disk[b]
  BY <1>2, <1>4, <1>6 DEF TypeOK
<1>8. /\ excuse'[at] = IF c = "masked" THEN "none" ELSE "mask"
      /\ \A i \in Indexes : i # at => excuse'[i] = excuse[i]
      /\ excuse' \in [Indexes -> Excuses]
  <2>1. excuse \in [Indexes -> Excuses] /\ "none" \in Excuses /\ "mask" \in Excuses
    BY DEF TypeOK, Excuses
  <2> QED BY <1>2, <1>4, <2>1
<1>9. FedInv' BY <1>1 DEF FedInv, Reading
<1>10. /\ step' \in Steps \ {"select"} /\ attempt' \in 0..MaxRetries
       /\ wire' \in Wires /\ fed' \in Nat /\ cut' \in Nat
  BY <1>1 DEF TypeOK, Steps
<1>11. Current' /\ Selected(File)' /\ File' = File /\ (HandInv' => IInv')
  BY <1>1, <1>3, <1>6, <1>7, <1>8, <1>9, <1>10, StayStep
<1>12. HandInv' BY <1>1, <1>5, <1>6, <1>7, <1>8, <1>11 DEF HandInv, Reading
<1> QED BY <1>11, <1>12

LEMMA CollectStep == IInv /\ Collect => IInv'
<1> SUFFICES ASSUME IInv, Collect PROVE IInv' OBVIOUS
<1> USE DEF IInv
<1>1. /\ step = "collect" /\ SameRun /\ NextFile /\ collected' = collected \cup {at}
      /\ fed' = fed /\ cut' = cut /\ disk' = disk /\ skipped' = skipped
      /\ excuse' = [excuse EXCEPT ![at] = IF excuse[at] = "mask" THEN excuse[at] ELSE "none"]
  BY DEF Collect, SameRun, pipes
<1>2. Current /\ Selected(File) BY <1>1 DEF HandInv
<1>3. at \in Indexes /\ at \in Nat /\ File.base \in Bases BY <1>2, Hand
<1>4. at' = at + 1 /\ step' = "select" /\ attempt' = 0 /\ wire' = "none"
  BY <1>1 DEF NextFile
<1>5. /\ excuse'[at] = "mask" <=> excuse[at] = "mask"
      /\ \A i \in Indexes : i # at => excuse'[i] = excuse[i]
      /\ excuse' \in [Indexes -> Excuses]
  <2>1. excuse \in [Indexes -> Excuses] /\ "none" \in Excuses /\ "mask" \in Excuses
    BY DEF TypeOK, Excuses
  <2> QED BY <1>1, <1>3, <2>1
<1>6. OnlyHand BY <1>1, <1>4, <1>5 DEF OnlyHand
<1>7. TypeOK'
  <2>1. step' \in Steps /\ wire' \in Wires /\ attempt' \in 0..MaxRetries
    BY <1>4 DEF Steps, Wires, MaxRetries
  <2>2. /\ skipped' \in SUBSET Indexes /\ collected' \in SUBSET Indexes
        /\ disk' \in [Bases -> Entries] /\ fed' \in Nat /\ cut' \in Nat
    BY <1>1, <1>3 DEF TypeOK
  <2>3. at' \in {at, at + 1} BY <1>4
  <2> QED BY <1>1, <1>2, <1>5, <2>1, <2>2, <2>3, StepTypes
<1>8. FedInv' BY <1>1, <1>4 DEF FedInv, Reading
<1>9. Settled
  <2>1. /\ wire \in {"whole", "short"} /\ (args.gzip => wire = "whole")
        /\ disk[File.base].of = at
        /\ excuse[at] # "mask" => disk[File.base].content \in {wire, "masked"}
        /\ File.kind = "config" => disk[File.base].content = "masked" \/ excuse[at] = "mask"
    BY <1>1 DEF HandInv
  <2>2. ~File.secret BY <1>2 DEF Selected, IsAlwaysExcluded
  <2>3. args.gzip /\ excuse'[at] # "mask" => disk'[File.base].content \in Streamed
    BY <1>1, <1>5, <2>1 DEF Streamed
  <2>4. File.kind = "config" =>
          disk'[File.base].content = "masked" \/ excuse'[at] = "mask"
    BY <1>1, <1>5, <2>1
  <2> QED BY <1>1, <1>4, <2>1, <2>2, <2>3, <2>4 DEF Settled
<1>10. PastInv' BY <1>2, <1>6, <1>9, PastKept
<1>11. HandInv' /\ ExcuseInv'
  BY <1>1, <1>2, <1>6, NextFileHand, EntriesUpToHand
<1> QED BY <1>7, <1>8, <1>10, <1>11

-----------------------------------------------------------------------------
LEMMA InitIInv == SFInit => IInv
<1> SUFFICES ASSUME SFInit PROVE IInv OBVIOUS
<1>1. /\ args \in Arguments /\ files \in FileLists /\ at = 1 /\ step = "select"
      /\ attempt = 0 /\ wire = "none" /\ fed = 0 /\ cut = 0 /\ skipped = {} /\ collected = {}
      /\ disk = [b \in Bases |-> Missing] /\ excuse = [i \in Indexes |-> "none"]
  BY DEF SFInit
<1>2. Len(files) \in Nat BY <1>1, Lists
<1>3. Missing \in Entries /\ Missing.of = 0
  BY <1>2 DEF Missing, Entries, Contents
<1>4. TypeOK
  <2>1. at \in 1..(Len(files) + 1) BY <1>1, <1>2
  <2>2. step \in Steps /\ wire \in Wires /\ attempt \in 0..MaxRetries /\ "none" \in Excuses
    BY <1>1 DEF Steps, Wires, MaxRetries, Excuses
  <2> QED BY <1>1, <1>3, <2>1, <2>2 DEF TypeOK
<1>5. FedInv BY <1>1 DEF FedInv, Reading
<1>6. \A b \in Bases : disk[b].of = 0 BY <1>1, <1>3
<1>7. PastInv
  BY <1>1, <1>6 DEF PastInv, DiskInv, ExplainedInv, MaskedInv, CollectedIsWhole
<1>8. HandInv BY <1>1, <1>6 DEF HandInv, Reading
<1>9. ExcuseInv
  <2>1. Current => at \in Indexes BY <1>1, <1>2 DEF Current, Indexes
  <2> QED BY <1>1, <2>1 DEF ExcuseInv
<1> QED BY <1>4, <1>5, <1>7, <1>8, <1>9 DEF IInv

LEMMA StutterStep == IInv /\ UNCHANGED sfVars => IInv'
<1> SUFFICES ASSUME IInv, UNCHANGED sfVars PROVE IInv' OBVIOUS
<1>1. /\ args' = args /\ files' = files /\ at' = at /\ step' = step /\ attempt' = attempt
      /\ wire' = wire /\ fed' = fed /\ cut' = cut /\ disk' = disk /\ skipped' = skipped
      /\ collected' = collected /\ excuse' = excuse /\ SameRun
  BY DEF sfVars, pipes, SameRun
<1>2. /\ Indexes' = Indexes /\ Bases' = Bases /\ Entries' = Entries /\ Len(files)' = Len(files)
      /\ \A i : LastOfItsName(i)' <=> LastOfItsName(i)
  BY <1>1, SameLists
<1>3. TypeOK' BY <1>1, <1>2 DEF IInv, TypeOK
<1>4. FedInv' BY <1>1 DEF IInv, FedInv, Reading
<1>5. PastInv'
  BY <1>1, <1>2 DEF IInv, PastInv, DiskInv, ExplainedInv, MaskedInv, CollectedIsWhole
<1>6. File' = File /\ Current' = Current /\ (Selected(File)' <=> Selected(File))
  BY <1>1 DEF File, Current, Selected, IsAlwaysExcluded, IsLogTypeEnabled,
     IsWithinDateRange, LogDayLimit
<1>7. HandInv' BY <1>1, <1>2, <1>6 DEF IInv, HandInv, Reading
<1>8. ExcuseInv' BY <1>1, <1>2, <1>6 DEF IInv, ExcuseInv
<1> QED BY <1>3, <1>4, <1>5, <1>7, <1>8 DEF IInv

LEMMA NextIInv == IInv /\ [SFNext]_sfVars => IInv'
BY ExcludeStep, CreatePathStep, OpenFailsStep, OpenStep, CopyFailuresStep, CopyEndsStep,
   VerifyStep, MaskStep, CollectStep, TransferStep, StutterStep
   DEF SFNext, SFMain, Producer

(* The invariant holds of every transfer of a list of files.                *)
THEOREM SpecIInv == SFSpec => []IInv
BY InitIInv, NextIInv, PTL DEF SFSpec

-----------------------------------------------------------------------------
(* A file that is reported as collected is on disk and complete, whichever  *)
(* way the attempts before went, unless a later one has its name.           *)
THEOREM CollectedWhole == SFSpec => []CollectedIsWhole
<1>1. IInv => CollectedIsWhole BY DEF IInv, PastInv
<1> QED BY <1>1, SpecIInv, PTL

(* Nothing else than collected files is left on disk, except by a flush or  *)
(* a close that failed.                                                     *)
THEOREM DiskExplained == SFSpec => []NoUnexplainedFile
<1>1. IInv => NoUnexplainedFile
  <2> SUFFICES ASSUME IInv, NEW b \in DOMAIN disk, disk[b].of # 0, disk[b].of < at
               PROVE  disk[b].of \in collected \/ excuse[disk[b].of] = "flush"
    BY DEF NoUnexplainedFile
  <2>1. b \in Bases BY DEF IInv, TypeOK
  <2> QED BY <2>1 DEF IInv, PastInv, ExplainedInv
<1> QED BY <1>1, SpecIInv, PTL

(* No keystore or key is ever on disk, at no moment of a transfer, and a    *)
(* collected configuration file is masked unless masking it failed.         *)
THEOREM SecretsAway == SFSpec => []SecretsStayAway
<1>1. IInv => SecretsStayAway
  <2> SUFFICES ASSUME IInv, NEW b \in DOMAIN disk, disk[b].of # 0
               PROVE  /\ ~files[disk[b].of].secret
                      /\ files[disk[b].of].kind = "config" /\ disk[b].of < at
                         /\ disk[b].of \in collected =>
                           disk[b].content = "masked" \/ excuse[disk[b].of] = "mask"
    BY DEF SecretsStayAway
  <2>1. b \in Bases BY DEF IInv, TypeOK
  <2> QED BY <2>1 DEF IInv, PastInv, DiskInv, MaskedInv
<1> QED BY <1>1, SpecIInv, PTL

=============================================================================

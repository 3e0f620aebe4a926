--------------------------- MODULE InferRun_proofs ---------------------------
(***************************************************************************)
(* Proofs about InferRun, for any manifest, models, selections, settings   *)
(* and concurrency, and any number of errors, stops and tears.             *)
(***************************************************************************)
EXTENDS InferRun, FiniteSetTheorems, SequenceTheorems, TLAPS

Line == Row \cup {Broken}

(* What the run's own variables are in each phase. *)
PhaseFits ==
  /\ pc = "down" => names = <<>> /\ turn = 1
  /\ pc # "down" => using \in Settings
  /\ pc = "pages" => turn \in DOMAIN names
  /\ pc # "pages" => todo = {} /\ flying = {}
  /\ midline => lines # <<>>
  /\ IsFiniteSet(flying)

(* During a model's turn each page has a row of it, or will get one. *)
NoPageForgotten ==
  pc = "pages" /\ Readable =>
    \A pg \in Pages : \/ Rows(<<pg, Model>>) # {}
                      \/ pg \in flying
                      \/ \E n \in todo : Manifest[n] = pg

(* Latest is defined for every key that has a row. *)
LatestExists ==
  Readable => \A k \in Keys : Rows(k) # {} => \E i \in Rows(k) : \A j \in Rows(k) : j <= i

(* As long as no file was torn: the file is whole, the models of the run   *)
(* are on record, and what is asked, or is about to be, lacks an answer    *)
(* and is asked once.                                                      *)
Untorn ==
  tears = 0 =>
    /\ ~midline /\ Readable
    /\ \A i \in DOMAIN names : config[names[i]] # None
    /\ \A pg \in flying : ~Done(<<pg, Model>>)
    /\ \A n \in todo : ~Done(<<Manifest[n], Model>>) /\ Manifest[n] \notin flying

(* The inductive invariant. *)
IInv ==
  /\ TypeOK /\ PhaseFits /\ NoPageForgotten /\ LatestExists /\ Untorn
  /\ NoPageDropped /\ RowsAreOfRecordedModels

-----------------------------------------------------------------------------
(* The list of pages, and the keys a run asks for.                         *)
LEMMA PagesAreListed == Pages = {Manifest[n] : n \in DOMAIN Manifest}
  BY DEF Pages, ToSet

LEMMA ModelIsOne == TypeOK /\ PhaseFits /\ pc = "pages" => Model \in Models
<1>1. SUFFICES ASSUME TypeOK, turn \in DOMAIN names PROVE Model \in Models
  BY DEF PhaseFits
<1>2. PICK s \in Seq(Models) : s = names
  <2>1. names \in Seq(Models)
    BY <1>1, ConstantsAssumption DEF TypeOK
  <2>2. QED  BY <2>1
<1>3. s[turn] \in Models
  BY <1>1, <1>2, ElementOfSeq
<1>4. QED  BY <1>2, <1>3 DEF Model

LEMMA KeyIsOne ==
  ASSUME TypeOK, PhaseFits, pc = "pages", NEW pg \in Pages
  PROVE  <<pg, Model>> \in Keys
BY ModelIsOne DEF Keys

(* What appending a line does to the file.                                 *)
LEMMA AppendedFile ==
  ASSUME TypeOK, NEW line \in Line, lines' = Append(lines, line)
  PROVE  /\ lines' \in Seq(Line) /\ lines' # <<>>
         /\ Len(lines) \in Nat /\ DOMAIN lines = 1..Len(lines)
         /\ DOMAIN lines' = 1..(Len(lines) + 1)
         /\ \A i \in 1..Len(lines) : lines'[i] = lines[i]
         /\ lines'[Len(lines) + 1] = line
<1>1. PICK s \in Seq(Line) : s = lines
  BY DEF TypeOK, Line
<1>2. /\ Append(s, line) \in Seq(Line) /\ Append(s, line) # <<>>
      /\ Len(Append(s, line)) = Len(s) + 1
      /\ \A i \in 1..Len(s) : Append(s, line)[i] = s[i]
      /\ Append(s, line)[Len(s) + 1] = line
  BY AppendProperties
<1>3. Len(s) \in Nat /\ DOMAIN s = 1..Len(s)
  OBVIOUS
<1>4. DOMAIN Append(s, line) = 1..(Len(s) + 1)
  BY <1>2
<1>5. QED  BY <1>1, <1>2, <1>3, <1>4

LEMMA AppendedReadable ==
  ASSUME TypeOK, NEW line \in Line, lines' = Append(lines, line)
  PROVE  Readable' <=> Readable /\ line # Broken
<1>1. ASSUME Readable, line # Broken PROVE Readable'
  <2>1. ASSUME NEW i \in DOMAIN lines' PROVE lines'[i] # Broken
    <3>1. CASE i = Len(lines) + 1
      BY <1>1, <3>1, AppendedFile
    <3>2. CASE i # Len(lines) + 1
      <4>1. i \in 1..Len(lines)
        BY <2>1, <3>2, AppendedFile
      <4>2. QED  BY <1>1, <4>1, AppendedFile DEF Readable, ToSet
    <3>3. QED  BY <3>1, <3>2
  <2>2. QED  BY <2>1 DEF Readable, ToSet
<1>2. ASSUME Readable', ~Readable PROVE FALSE
  <2>1. PICK i \in DOMAIN lines : lines[i] = Broken
    BY <1>2 DEF Readable, ToSet
  <2>2. i \in DOMAIN lines' /\ lines'[i] = Broken
    BY <2>1, AppendedFile
  <2>3. QED  BY <1>2, <2>2 DEF Readable, ToSet
<1>3. ASSUME Readable', line = Broken PROVE FALSE
  <2>1. Len(lines) + 1 \in DOMAIN lines' /\ lines'[Len(lines) + 1] = Broken
    BY <1>3, AppendedFile
  <2>2. QED  BY <1>3, <2>1 DEF Readable, ToSet
<1>4. QED  BY <1>1, <1>2, <1>3

LEMMA AppendedRows ==
  ASSUME TypeOK, NEW row \in Row, lines' = Append(lines, row), NEW k \in Keys
  PROVE  /\ <<row.page, row.model>> = k => Rows(k)' = Rows(k) \cup {Len(lines) + 1}
         /\ <<row.page, row.model>> # k => Rows(k)' = Rows(k)
         /\ Rows(k) \subseteq 1..Len(lines) /\ Len(lines) \in Nat
<1>1. row \in Line /\ row # Broken
  BY ConstantsAssumption DEF Line
<1>2. /\ Len(lines) \in Nat /\ DOMAIN lines = 1..Len(lines)
      /\ DOMAIN lines' = 1..(Len(lines) + 1)
      /\ \A i \in 1..Len(lines) : lines'[i] = lines[i]
      /\ lines'[Len(lines) + 1] = row
  BY <1>1, AppendedFile
<1>3. 1..(Len(lines) + 1) = 1..Len(lines) \cup {Len(lines) + 1}
  BY <1>2
<1>4. Rows(k)' = {i \in 1..Len(lines) \cup {Len(lines) + 1} :
                    lines'[i] # Broken /\ <<lines'[i].page, lines'[i].model>> = k}
  BY <1>2, <1>3 DEF Rows
<1>5. Rows(k) = {i \in 1..Len(lines) : lines[i] # Broken /\ <<lines[i].page, lines[i].model>> = k}
  BY <1>2 DEF Rows
<1>6. QED  BY <1>1, <1>2, <1>4, <1>5

LEMMA LatestIs ==
  ASSUME NEW k \in Keys, Rows(k) \subseteq Nat,
         NEW i \in Rows(k), \A j \in Rows(k) : j <= i
  PROVE  Latest(k) = lines[i]
<1>1. DEFINE C == CHOOSE n \in Rows(k) : \A j \in Rows(k) : j <= n
<1>2. C \in Rows(k) /\ \A j \in Rows(k) : j <= C
  OBVIOUS
<1>3. C = i
  <2>1. C <= i /\ i <= C
    BY <1>2
  <2>2. C \in Nat /\ i \in Nat
    BY <1>2
  <2>3. QED  BY <2>1, <2>2
<1>4. QED  BY <1>3 DEF Latest

(* The same of the file after the step.                                    *)
LEMMA LatestBecomes ==
  ASSUME NEW k \in Keys, Rows(k)' \subseteq Nat,
         NEW i \in Rows(k)', \A j \in Rows(k)' : j <= i
  PROVE  Latest(k)' = lines'[i]
<1>1. DEFINE C == CHOOSE n \in Rows(k)' : \A j \in Rows(k)' : j <= n
<1>2. C \in Rows(k)' /\ \A j \in Rows(k)' : j <= C
  OBVIOUS
<1>3. C = i
  <2>1. C <= i /\ i <= C
    BY <1>2
  <2>2. C \in Nat /\ i \in Nat
    BY <1>2
  <2>3. QED  BY <2>1, <2>2
<1>4. QED  BY <1>3 DEF Latest

(* A row that is appended decides about its key, and about no other.       *)
LEMMA AppendedDone ==
  ASSUME TypeOK, LatestExists, Readable,
         NEW row \in Row, lines' = Append(lines, row), NEW k \in Keys
  PROVE  /\ <<row.page, row.model>> = k => (Done(k)' <=> row.ok)
         /\ <<row.page, row.model>> # k => (Done(k)' <=> Done(k))
         /\ Rows(k)' # {} => \E i \in Rows(k)' : \A j \in Rows(k)' : j <= i
<1>1. row \in Line /\ row # Broken
  BY ConstantsAssumption DEF Line
<1>2. Readable'
  BY <1>1, AppendedReadable
<1>3. Len(lines) \in Nat /\ Rows(k) \subseteq 1..Len(lines)
  BY AppendedRows
<1>4. CASE <<row.page, row.model>> = k
  <2>1. Rows(k)' = Rows(k) \cup {Len(lines) + 1}
    BY <1>4, AppendedRows
  <2>2. \A j \in Rows(k)' : j \in Nat /\ j <= Len(lines) + 1
    BY <1>3, <2>1
  <2>3. Latest(k)' = lines'[Len(lines) + 1]
    <3>1. PICK i \in Nat : i = Len(lines) + 1
      BY <1>3
    <3>2. i \in Rows(k)' /\ \A j \in Rows(k)' : j <= i
      BY <2>1, <2>2, <3>1
    <3>3. Rows(k)' \subseteq Nat
      BY <2>2
    <3>4. QED  BY <3>1, <3>2, <3>3, LatestBecomes
  <2>4. lines'[Len(lines) + 1] = row
    BY <1>1, AppendedFile
  <2>5. Done(k)' <=> row.ok
    BY <1>2, <2>1, <2>3, <2>4 DEF Done
  <2>6. QED  BY <1>4, <2>1, <2>2, <2>5
<1>5. CASE <<row.page, row.model>> # k
  <2>1. Rows(k)' = Rows(k)
    BY <1>5, AppendedRows
  <2>2. CASE Rows(k) = {}
    <3>1. ~Done(k)
      BY <2>2 DEF Done
    <3>2. ~Done(k)'
      BY <2>1, <2>2 DEF Done
    <3>3. QED  BY <1>5, <2>1, <2>2, <3>1, <3>2
  <2>3. CASE Rows(k) # {}
    <3>1. PICK i \in Rows(k) : \A j \in Rows(k) : j <= i
      BY <2>3 DEF LatestExists
    <3>2. Latest(k) = lines[i]
      BY <1>3, <3>1, LatestIs
    <3>3. Latest(k)' = lines'[i]
      BY <1>3, <2>1, <3>1, LatestBecomes
    <3>4. lines'[i] = lines[i]
      BY <1>1, <1>3, AppendedFile
    <3>5. Done(k)' <=> Done(k)
      BY <1>2, <2>1, <3>2, <3>3, <3>4 DEF Done
    <3>6. QED  BY <1>5, <2>1, <3>1, <3>5
  <2>4. QED  BY <2>2, <2>3
<1>6. QED  BY <1>4, <1>5

(* An append that meets a line without newline spoils the file.            *)
LEMMA Spoiled ==
  ASSUME TypeOK, lines # <<>>, lines' = Append(Front(lines), Broken)
  PROVE  lines' \in Seq(Line) /\ lines' # <<>> /\ ~Readable'
<1>1. PICK s \in Seq(Line) : s = lines
  BY DEF TypeOK, Line
<1>2. PICK f \in Seq(Line) : f = SubSeq(s, 1, Len(s) - 1)
  <2>0. Len(s) \in Nat
    OBVIOUS
  <2>1. PICK n \in Int : n = Len(s) - 1 /\ Len(s) \in Nat
    BY <2>0
  <2>2. \A i \in 1..n : s[i] \in Line
    BY <2>1, ElementOfSeq
  <2>3. SubSeq(s, 1, n) \in Seq(Line)
    BY <2>2, SubSeqProperties
  <2>4. QED  BY <2>1, <2>3
<1>3. Broken \in Line
  BY DEF Line
<1>4. /\ Append(f, Broken) \in Seq(Line) /\ Append(f, Broken) # <<>>
      /\ Len(Append(f, Broken)) = Len(f) + 1
      /\ Append(f, Broken)[Len(f) + 1] = Broken
  BY <1>3, AppendProperties
<1>5. lines' = Append(f, Broken)
  BY <1>1, <1>2 DEF Front
<1>6. Len(f) + 1 \in DOMAIN Append(f, Broken)
  BY <1>4
<1>7. Broken \in ToSet(lines')
  BY <1>4, <1>5, <1>6 DEF ToSet
<1>8. QED  BY <1>4, <1>5, <1>7 DEF Readable

(* What the end of a page does to the file.                                *)
Written(pg, ok) == [page |-> pg, model |-> Model, ok |-> ok, settings |-> using]

LEMMA FinishIs ==
  ASSUME TypeOK, PhaseFits, NEW pg \in flying, NEW ok \in BOOLEAN, Finish(pg, ok)
  PROVE  /\ pc = "pages" /\ pg \in Pages /\ Written(pg, ok) \in Row /\ Model' = Model
         /\ \/ ~midline /\ lines' = Append(lines, Written(pg, ok))
            \/ midline /\ lines # <<>> /\ lines' = Append(Front(lines), Broken)
<1>1. pc = "pages" /\ pg \in Pages /\ using \in Settings
  BY DEF PhaseFits, TypeOK
<1>2. Written(pg, ok) \in Row
  BY <1>1, ModelIsOne DEF Written, Row
<1>3. QED  BY <1>1, <1>2 DEF Finish, AppendRow, Written, PhaseFits, Model, run

LEMMA TornIs ==
  ASSUME TypeOK, PhaseFits, NEW pg \in flying, StopInAppend(pg)
  PROVE  \/ \E line \in Line : lines' = Append(lines, line)
         \/ lines # <<>> /\ lines' = Append(Front(lines), Broken)
<1>1. pg \in Pages /\ using \in Settings /\ Model \in Models
  BY ModelIsOne DEF PhaseFits, TypeOK
<1>2. PICK line \in {Broken} \cup [page : {pg}, model : {Model}, ok : BOOLEAN, settings : {using}] :
        lines' = IF midline THEN Append(Front(lines), Broken) ELSE Append(lines, line)
  BY DEF StopInAppend
<1>3. line \in Line
  BY <1>1, <1>2 DEF Line, Row
<1>4. QED  BY <1>2, <1>3 DEF PhaseFits

(* A step that leaves the file alone leaves what it says alone.            *)
LEMMA SameFile ==
  ASSUME lines' = lines
  PROVE  /\ Readable' <=> Readable
         /\ \A k \in Keys : Rows(k)' = Rows(k) /\ (Done(k)' <=> Done(k)) /\ (Pending(k)' <=> Pending(k))
<1>1. Readable' <=> Readable
  BY DEF Readable
<1>2. ASSUME NEW k \in Keys
      PROVE  Rows(k)' = Rows(k) /\ (Done(k)' <=> Done(k)) /\ (Pending(k)' <=> Pending(k))
  <2>1. Rows(k)' = Rows(k)
    BY DEF Rows
  <2>2. Latest(k)' = Latest(k)
    BY <2>1 DEF Latest
  <2>3. QED  BY <1>1, <2>1, <2>2 DEF Done, Pending
<1>3. QED  BY <1>1, <1>2

LEMMA NamesTyped == TypeOK => names \in Seq(Models) /\ Len(names) \in Nat /\ DOMAIN names = 1..Len(names)
<1>1. SUFFICES ASSUME TypeOK
      PROVE  names \in Seq(Models) /\ Len(names) \in Nat /\ DOMAIN names = 1..Len(names)
  OBVIOUS
<1>2. <<>> \in Seq(Models)
  OBVIOUS
<1>3. names \in Seq(Models)
  BY <1>1, <1>2, ConstantsAssumption DEF TypeOK
<1>4. QED  BY <1>3

-----------------------------------------------------------------------------
LEMMA InitIInv == Init => IInv
<1>1. SUFFICES ASSUME Init PROVE IInv
  OBVIOUS
<1>2. lines = <<>> /\ ToSet(lines) = {} /\ DOMAIN lines = {}
  BY <1>1 DEF Init, ToSet
<1>3. \A k \in Keys : Rows(k) = {} /\ ~Done(k)
  BY <1>2 DEF Rows, Done
<1>4. TypeOK
  <2>1. <<>> \in Seq(Row \cup {Broken}) /\ Len(<<>>) = 0
    OBVIOUS
  <2>2. turn \in 1..(Len(names) + 1) /\ names \in Selections \cup {<<>>}
    BY <1>1, <2>1 DEF Init
  <2>3. QED  BY <1>1, <2>1, <2>2 DEF Init, TypeOK
<1>5. PhaseFits /\ NoPageForgotten /\ LatestExists
  BY <1>1, <1>3, FS_EmptySet DEF Init, PhaseFits, NoPageForgotten, LatestExists
<1>6. Untorn /\ NoPageDropped /\ RowsAreOfRecordedModels
  BY <1>1, <1>2 DEF Init, Untorn, NoPageDropped, RowsAreOfRecordedModels,
       Readable
<1>7. QED  BY <1>4, <1>5, <1>6 DEF IInv

(* Every step keeps the types. *)
LEMMA TypesStep == TypeOK /\ PhaseFits /\ [Next]_vars => TypeOK'
<1>1. SUFFICES ASSUME TypeOK, PhaseFits, [Next]_vars PROVE TypeOK'
  OBVIOUS
<1> USE ConstantsAssumption DEF TypeOK
<1>2. CASE Start
  BY <1>1, <1>2 DEF Start, Snapshot, file, bounds
<1>3. CASE BeginModel
  BY <1>1, <1>3 DEF BeginModel, file, run, bounds
<1>4. CASE Unreadable
  BY <1>1, <1>4 DEF Unreadable, Exit, file, bounds
<1>5. CASE Acquire
  BY <1>1, <1>5 DEF Acquire, file, run, bounds
<1>6. ASSUME NEW pg \in flying, NEW ok \in BOOLEAN, Finish(pg, ok) PROVE TypeOK'
  <2>1. /\ pc = "pages" /\ pg \in Pages /\ Written(pg, ok) \in Row /\ Model' = Model
        /\ \/ ~midline /\ lines' = Append(lines, Written(pg, ok))
           \/ midline /\ lines # <<>> /\ lines' = Append(Front(lines), Broken)
    BY <1>1, <1>6, FinishIs
  <2>2. Written(pg, ok) \in Line
    BY <2>1 DEF Line
  <2>3. lines' \in Seq(Row \cup {Broken})
    BY <1>1, <2>1, <2>2, AppendedFile, Spoiled DEF Line
  <2>4. errors' \in Nat /\ flying' \in SUBSET Pages /\ midline' \in BOOLEAN
    <3>1. errors' = errors \/ errors' = errors + 1
      BY <1>6 DEF Finish
    <3>2. flying' = flying \ {pg} /\ midline' = FALSE
      BY <1>6 DEF Finish, AppendRow
    <3>3. errors' \in Nat
      BY <1>1, <3>1
    <3>4. flying' \in SUBSET Pages
      BY <1>1, <3>2
    <3>5. QED  BY <3>2, <3>3, <3>4
  <2>5. QED  BY <1>1, <1>6, <2>3, <2>4 DEF Finish, run
<1>7. CASE EndModel
  <2>1. turn' \in 1..(Len(names) + 1)
    BY <1>1, <1>7, NamesTyped DEF EndModel, PhaseFits
  <2>2. QED  BY <1>1, <1>7, <2>1 DEF EndModel, file, bounds
<1>8. CASE Summarize
  BY <1>1, <1>8 DEF Summarize, Exit, file, bounds
<1>9. CASE Stop
  BY <1>1, <1>9 DEF Stop, Exit, file
<1>10. CASE StopInSnapshot
  BY <1>1, <1>10 DEF StopInSnapshot, file, run
<1>11. ASSUME NEW pg \in flying, StopInAppend(pg) PROVE TypeOK'
  <2>1. lines' \in Seq(Row \cup {Broken})
    BY <1>1, <1>11, TornIs, AppendedFile, Spoiled DEF Line
  <2>2. turn' \in 1..(Len(names') + 1) /\ names' \in Selections \cup {<<>>} /\ using' \in Settings \cup {None}
    BY <1>11 DEF StopInAppend, Exit
  <2>3. stops' \in Nat /\ tears' \in Nat /\ midline' \in BOOLEAN /\ pc' = "down"
        /\ todo' = {} /\ flying' = {} /\ UNCHANGED <<config, errors>>
    BY <1>1, <1>11 DEF StopInAppend, Exit
  <2>4. QED  BY <1>1, <2>1, <2>2, <2>3
<1>12. CASE UNCHANGED vars
  BY <1>1, <1>12 DEF vars
<1>13. QED  BY <1>1, <1>2, <1>3, <1>4, <1>5, <1>6, <1>7, <1>8, <1>9, <1>10,
     <1>11, <1>12 DEF Next

(* Every step keeps to the phases. *)
LEMMA PhaseStep == TypeOK /\ PhaseFits /\ [Next]_vars => PhaseFits'
<1>1. SUFFICES ASSUME TypeOK, PhaseFits, [Next]_vars PROVE PhaseFits'
  OBVIOUS
<1> USE ConstantsAssumption DEF TypeOK, PhaseFits
<1>2. CASE Start
  BY <1>1, <1>2 DEF Start, Snapshot, file, bounds
<1>3. CASE BeginModel
  BY <1>1, <1>3 DEF BeginModel, file, run, bounds
<1>4. CASE Unreadable
  BY <1>1, <1>4 DEF Unreadable, Exit, file, bounds
<1>5. CASE Acquire
  <2>1. IsFiniteSet(flying')
    <3>1. PICK first \in todo : flying' = flying \cup {Manifest[first]}
      BY <1>5 DEF Acquire
    <3>2. QED  BY <1>1, <3>1, FS_AddElement
  <2>2. QED  BY <1>1, <1>5, <2>1 DEF Acquire, file, run, bounds
<1>6. ASSUME NEW pg \in flying, NEW ok \in BOOLEAN, Finish(pg, ok) PROVE PhaseFits'
  <2>1. /\ pc = "pages" /\ pg \in Pages /\ Written(pg, ok) \in Row /\ Model' = Model
        /\ \/ ~midline /\ lines' = Append(lines, Written(pg, ok))
           \/ midline /\ lines # <<>> /\ lines' = Append(Front(lines), Broken)
    BY <1>1, <1>6, FinishIs
  <2>2. IsFiniteSet(flying')
    BY <1>1, <1>6, FS_RemoveElement DEF Finish
  <2>3. ~midline'
    BY <1>6 DEF Finish, AppendRow
  <2>4. QED  BY <1>1, <1>6, <2>1, <2>2, <2>3 DEF Finish, run
<1>7. CASE EndModel
  BY <1>1, <1>7 DEF EndModel, AllDone, file, bounds
<1>8. CASE Summarize
  BY <1>1, <1>8 DEF Summarize, Exit, file, bounds
<1>9. CASE Stop
  BY <1>1, <1>9, FS_EmptySet DEF Stop, Exit, file
<1>10. CASE StopInSnapshot
  BY <1>1, <1>10 DEF StopInSnapshot, file, run
<1>11. ASSUME NEW pg \in flying, StopInAppend(pg) PROVE PhaseFits'
  <2>1. lines' # <<>>
    BY <1>1, <1>11, TornIs, AppendedFile, Spoiled
  <2>2. pc' = "down" /\ names' = <<>> /\ turn' = 1 /\ todo' = {} /\ flying' = {}
    BY <1>11 DEF StopInAppend, Exit
  <2>3. QED  BY <2>1, <2>2, FS_EmptySet
<1>12. CASE UNCHANGED vars
  BY <1>1, <1>12 DEF vars
<1>13. QED  BY <1>1, <1>2, <1>3, <1>4, <1>5, <1>6, <1>7, <1>8, <1>9, <1>10,
     <1>11, <1>12 DEF Next

(* The rows of a key keep a last one. *)
LEMMA LatestStep == TypeOK /\ PhaseFits /\ LatestExists /\ [Next]_vars => LatestExists'
<1>1. SUFFICES ASSUME TypeOK, PhaseFits, LatestExists, [Next]_vars PROVE LatestExists'
  OBVIOUS
<1> USE ConstantsAssumption DEF LatestExists
<1>2. CASE Start
  BY <1>1, <1>2 DEF Start, Snapshot, file, bounds, Readable, Rows, Latest
<1>3. CASE BeginModel
  BY <1>1, <1>3 DEF BeginModel, file, run, bounds, Readable, Rows, Latest
<1>4. CASE Unreadable
  BY <1>1, <1>4 DEF Unreadable, Exit, file, bounds, Readable, Rows, Latest
<1>5. CASE Acquire
  BY <1>1, <1>5 DEF Acquire, file, run, bounds, Readable, Rows, Latest
<1>6. ASSUME NEW pg \in flying, NEW ok \in BOOLEAN, Finish(pg, ok) PROVE LatestExists'
  <2>1. /\ pc = "pages" /\ pg \in Pages /\ Written(pg, ok) \in Row /\ Model' = Model
        /\ \/ ~midline /\ lines' = Append(lines, Written(pg, ok))
           \/ midline /\ lines # <<>> /\ lines' = Append(Front(lines), Broken)
    BY <1>1, <1>6, FinishIs
  <2>2. ASSUME Readable', NEW k \in Keys, Rows(k)' # {}
        PROVE  \E i \in Rows(k)' : \A j \in Rows(k)' : j <= i
    <3>1. PICK row \in Row : lines' = Append(lines, row)
      BY <1>1, <2>1, <2>2, Spoiled
    <3>2. Readable
      BY <1>1, <2>2, <3>1, AppendedReadable DEF Line
    <3>3. QED  BY <1>1, <2>2, <3>1, <3>2, AppendedDone
  <2>3. QED  BY <2>2 DEF LatestExists
<1>7. CASE EndModel
  BY <1>1, <1>7 DEF EndModel, AllDone, file, bounds, Readable, Rows, Latest
<1>8. CASE Summarize
  BY <1>1, <1>8 DEF Summarize, Exit, file, bounds, Readable, Rows, Latest
<1>9. CASE Stop
  BY <1>1, <1>9 DEF Stop, Exit, file, Readable, Rows, Latest
<1>10. CASE StopInSnapshot
  BY <1>1, <1>10 DEF StopInSnapshot, file, run, Readable, Rows, Latest
<1>11. ASSUME NEW pg \in flying, StopInAppend(pg) PROVE LatestExists'
  <2>1. TypeOK /\ PhaseFits
    BY <1>1
  <2>2. ASSUME Readable', NEW k \in Keys, Rows(k)' # {}
        PROVE  \E i \in Rows(k)' : \A j \in Rows(k)' : j <= i
    <3>1. PICK row \in Row : lines' = Append(lines, row)
      <4>1. PICK line \in Line : lines' = Append(lines, line)
        BY <2>1, <2>2, <1>11, TornIs, Spoiled
      <4>2. line # Broken
        BY <2>1, <2>2, <4>1, AppendedReadable
      <4>3. QED  BY <4>1, <4>2 DEF Line
    <3>2. Readable
      BY <1>1, <2>2, <3>1, AppendedReadable DEF Line
    <3>3. QED  BY <1>1, <2>2, <3>1, <3>2, AppendedDone
  <2>3. QED  BY <2>2 DEF LatestExists
<1>12. CASE UNCHANGED vars
  BY <1>1, <1>12 DEF vars, Readable, Rows, Latest
<1>13. QED  BY <1>1, <1>2, <1>3, <1>4, <1>5, <1>6, <1>7, <1>8, <1>9, <1>10,
     <1>11, <1>12 DEF Next

(* A page of the turn at hand keeps its row, or its place in the queue or in flight. *)
LEMMA FateStep == TypeOK /\ PhaseFits /\ NoPageForgotten /\ [Next]_vars => NoPageForgotten'
<1>1. SUFFICES ASSUME TypeOK, PhaseFits, NoPageForgotten, [Next]_vars PROVE NoPageForgotten'
  OBVIOUS
<1> USE ConstantsAssumption DEF NoPageForgotten
<1>2. CASE Start
  BY <1>1, <1>2 DEF Start, Snapshot, file, bounds, PhaseFits, Readable, Rows,
       Model
<1>3. CASE BeginModel
  <2>1. ASSUME Readable', NEW pg \in Pages
        PROVE  \/ Rows(<<pg, Model>>)' # {} \/ pg \in flying'
               \/ \E n \in todo' : Manifest[n] = pg
    <3>1. PICK n \in DOMAIN Manifest : Manifest[n] = pg
      BY PagesAreListed
    <3>2. CASE Pending(<<Manifest[n], Model>>)
      BY <1>3, <3>1, <3>2 DEF BeginModel
    <3>3. CASE ~Pending(<<Manifest[n], Model>>)
      <4>1. Rows(<<pg, Model>>) # {}
        BY <3>1, <3>3 DEF Pending
      <4>2. lines' = lines /\ Model' = Model
        BY <1>3 DEF BeginModel, file, run, Model
      <4>3. QED  BY <4>1, <4>2 DEF Rows
    <3>4. QED  BY <3>2, <3>3
  <2>2. QED  BY <2>1
<1>4. CASE Unreadable
  BY <1>1, <1>4 DEF Unreadable, Exit, file, bounds, PhaseFits, Readable, Rows,
       Model
<1>5. CASE Acquire
  BY <1>1, <1>5 DEF Acquire, file, run, bounds, PhaseFits, Readable, Rows, Model
<1>6. ASSUME NEW pg \in flying, NEW ok \in BOOLEAN, Finish(pg, ok) PROVE NoPageForgotten'
  <2>1. /\ pc = "pages" /\ pg \in Pages /\ Written(pg, ok) \in Row /\ Model' = Model
        /\ \/ ~midline /\ lines' = Append(lines, Written(pg, ok))
           \/ midline /\ lines # <<>> /\ lines' = Append(Front(lines), Broken)
    BY <1>1, <1>6, FinishIs
  <2>2. SUFFICES ASSUME Readable' PROVE NoPageForgotten'
    BY DEF NoPageForgotten
  <2>3. lines' = Append(lines, Written(pg, ok))
    BY <1>1, <2>1, <2>2, Spoiled
  <2>4. Readable
    BY <1>1, <2>1, <2>2, <2>3, AppendedReadable DEF Line
  <2>5. \A k \in Keys : /\ Rows(k) \subseteq Rows(k)'
                        /\ <<pg, Written(pg, ok).model>> = k => Rows(k)' # {}
    <3>1. PICK row \in Row : row = Written(pg, ok) /\ row.page = pg
      BY <2>1 DEF Written
    <3>2. QED  BY <1>1, <2>3, <3>1, AppendedRows
  <2>6. PICK m \in Models : m = Model /\ m = Model' /\ m = Written(pg, ok).model
    BY <1>1, <2>1, ModelIsOne DEF Written
  <2>7. ASSUME NEW q \in Pages
        PROVE  Rows(<<q, m>>)' # {} \/ q \in flying' \/ \E n \in todo' : Manifest[n] = q
    <3>1. <<q, m>> \in Keys
      BY DEF Keys
    <3>2. CASE q = pg
      BY <2>5, <2>6, <3>1, <3>2
    <3>3. CASE q # pg
      <4>1. Rows(<<q, m>>) # {} \/ q \in flying \/ \E n \in todo : Manifest[n] = q
        BY <1>1, <2>1, <2>4, <2>6 DEF NoPageForgotten
      <4>2. flying' = flying \ {pg} /\ todo' = todo
        BY <1>6 DEF Finish
      <4>3. QED  BY <2>5, <3>1, <3>3, <4>1, <4>2
    <3>4. QED  BY <3>2, <3>3
  <2>8. ASSUME NEW q \in Pages
        PROVE  Rows(<<q, Model>>)' # {} \/ q \in flying' \/ \E n \in todo' : Manifest[n] = q
    <3>1. Rows(<<q, Model>>)' = Rows(<<q, m>>)'
      BY <2>6
    <3>2. QED  BY <2>7, <3>1
  <2>9. QED  BY <2>8
<1>7. CASE EndModel
  BY <1>1, <1>7 DEF EndModel, AllDone, file, bounds, PhaseFits, Readable, Rows,
       Model
<1>8. CASE Summarize
  BY <1>1, <1>8 DEF Summarize, Exit, file, bounds, PhaseFits, Readable, Rows,
       Model
<1>9. CASE Stop
  BY <1>1, <1>9 DEF Stop, Exit, file, PhaseFits, Readable, Rows, Model
<1>10. CASE StopInSnapshot
  BY <1>1, <1>10 DEF StopInSnapshot, file, run, PhaseFits, Readable, Rows, Model
<1>11. ASSUME NEW pg \in flying, StopInAppend(pg) PROVE NoPageForgotten'
  BY <1>1, <1>11 DEF StopInAppend, Exit, PhaseFits, Readable, Rows, Model
<1>12. CASE UNCHANGED vars
  BY <1>1, <1>12 DEF vars, PhaseFits, Readable, Rows, Model
<1>13. QED  BY <1>1, <1>2, <1>3, <1>4, <1>5, <1>6, <1>7, <1>8, <1>9, <1>10,
     <1>11, <1>12 DEF Next

(* A turn ends when all of its pages have rows, and rows stay. *)
LEMMA DroppedStep == TypeOK /\ PhaseFits /\ NoPageForgotten /\ NoPageDropped /\ [Next]_vars => NoPageDropped'
<1>1. SUFFICES ASSUME TypeOK, PhaseFits, NoPageForgotten, NoPageDropped, [Next]_vars PROVE NoPageDropped'
  OBVIOUS
<1> USE ConstantsAssumption DEF NoPageDropped
<1>2. CASE Start
  BY <1>1, <1>2 DEF Start, Snapshot, file, bounds, PhaseFits, Readable, Rows,
       Model
<1>3. CASE BeginModel
  BY <1>1, <1>3 DEF BeginModel, file, run, bounds, PhaseFits, Readable, Rows,
       Model
<1>4. CASE Unreadable
  BY <1>1, <1>4 DEF Unreadable, Exit, file, bounds, PhaseFits, Readable, Rows,
       Model
<1>5. CASE Acquire
  BY <1>1, <1>5 DEF Acquire, file, run, bounds, PhaseFits, Readable, Rows, Model
<1>6. ASSUME NEW pg \in flying, NEW ok \in BOOLEAN, Finish(pg, ok) PROVE NoPageDropped'
  <2>1. /\ pc = "pages" /\ pg \in Pages /\ Written(pg, ok) \in Row /\ Model' = Model
        /\ \/ ~midline /\ lines' = Append(lines, Written(pg, ok))
           \/ midline /\ lines # <<>> /\ lines' = Append(Front(lines), Broken)
    BY <1>1, <1>6, FinishIs
  <2>2. SUFFICES ASSUME Readable' PROVE NoPageDropped'
    BY DEF NoPageDropped
  <2>3. lines' = Append(lines, Written(pg, ok))
    BY <1>1, <2>1, <2>2, Spoiled
  <2>4. Readable
    BY <1>1, <2>1, <2>2, <2>3, AppendedReadable DEF Line
  <2>5. \A k \in Keys : /\ Rows(k) \subseteq Rows(k)'
                        /\ <<pg, Written(pg, ok).model>> = k => Rows(k)' # {}
    <3>1. PICK row \in Row : row = Written(pg, ok) /\ row.page = pg
      BY <2>1 DEF Written
    <3>2. QED  BY <1>1, <2>3, <3>1, AppendedRows
  <2>6. names' = names /\ turn' = turn
    BY <1>6 DEF Finish, run
  <2>7. ASSUME NEW i \in 1..(turn - 1), NEW q \in Pages PROVE Rows(<<q, names[i]>>)' # {}
    <3>1. PICK m \in Models : m = names[i] /\ m = names'[i]
      <4>1. i \in DOMAIN names
        BY <1>1, <2>7, NamesTyped DEF TypeOK
      <4>2. QED  BY <1>1, <2>6, <4>1, NamesTyped
    <3>2. Rows(<<q, m>>) # {} /\ <<q, m>> \in Keys
      BY <1>1, <2>4, <2>7, <3>1 DEF NoPageDropped, Keys
    <3>3. Rows(<<q, m>>)' # {}
      BY <2>5, <3>2
    <3>4. Rows(<<q, names[i]>>)' = Rows(<<q, m>>)'
      BY <3>1
    <3>5. QED  BY <3>3, <3>4
  <2>8. QED  BY <2>6, <2>7
<1>7. CASE EndModel
  <2>1. lines' = lines /\ names' = names /\ turn' = turn + 1 /\ turn \in Nat /\ pc = "pages"
    BY <1>1, <1>7 DEF EndModel, file, TypeOK
  <2>2. SUFFICES ASSUME Readable, NEW i \in 1..turn, NEW q \in Pages PROVE Rows(<<q, names[i]>>) # {}
    BY <2>1 DEF Readable, Rows
  <2>3. CASE i = turn
    BY <1>1, <1>7, <2>1, <2>2, <2>3 DEF NoPageForgotten, EndModel, AllDone,
         Model
  <2>4. CASE i # turn
    <3>1. i \in 1..(turn - 1)
      BY <2>1, <2>2, <2>4
    <3>2. QED  BY <1>1, <2>2, <3>1
  <2>5. QED  BY <2>3, <2>4
<1>8. CASE Summarize
  BY <1>1, <1>8 DEF Summarize, Exit, file, bounds, PhaseFits, Readable, Rows,
       Model
<1>9. CASE Stop
  BY <1>1, <1>9 DEF Stop, Exit, file, PhaseFits, Readable, Rows, Model
<1>10. CASE StopInSnapshot
  BY <1>1, <1>10 DEF StopInSnapshot, file, run, PhaseFits, Readable, Rows, Model
<1>11. ASSUME NEW pg \in flying, StopInAppend(pg) PROVE NoPageDropped'
  BY <1>1, <1>11 DEF StopInAppend, Exit, PhaseFits, Readable, Rows, Model
<1>12. CASE UNCHANGED vars
  BY <1>1, <1>12 DEF vars, PhaseFits, Readable, Rows, Model
<1>13. QED  BY <1>1, <1>2, <1>3, <1>4, <1>5, <1>6, <1>7, <1>8, <1>9, <1>10,
     <1>11, <1>12 DEF Next

(* Settings are recorded before the rows they made. *)
LEMMA RecordedStep == TypeOK /\ PhaseFits /\ Untorn /\ RowsAreOfRecordedModels /\ [Next]_vars => RowsAreOfRecordedModels'
<1>1. SUFFICES ASSUME TypeOK, PhaseFits, Untorn, RowsAreOfRecordedModels, [Next]_vars PROVE RowsAreOfRecordedModels'
  OBVIOUS
<1> USE ConstantsAssumption DEF RowsAreOfRecordedModels
<1>2. CASE Start
  <2>1. PICK selected \in Selections, s \in Settings : config' = Snapshot(selected, s)
    BY <1>2 DEF Start
  <2>2. s # None
    BY <2>1, ConstantsAssumption
  <2>3. \A m \in Models : config[m] # None => config'[m] # None
    BY <2>1, <2>2 DEF Snapshot
  <2>4. \A i \in DOMAIN lines : lines[i] # Broken => lines[i].model \in Models
    <3>1. PICK f \in Seq(Line) : f = lines
      BY <1>1 DEF TypeOK, Line
    <3>2. \A i \in DOMAIN f : f[i] \in Line
      BY ElementOfSeq
    <3>3. QED  BY <3>1, <3>2 DEF Line, Row
  <2>5. lines' = lines /\ tears' = tears
    BY <1>2 DEF Start, file, bounds
  <2>6. QED  BY <1>1, <2>3, <2>4, <2>5
<1>3. CASE BeginModel
  BY <1>1, <1>3 DEF BeginModel, file, run, bounds, TypeOK
<1>4. CASE Unreadable
  BY <1>1, <1>4 DEF Unreadable, Exit, file, bounds, TypeOK
<1>5. CASE Acquire
  BY <1>1, <1>5 DEF Acquire, file, run, bounds, TypeOK
<1>6. ASSUME NEW pg \in flying, NEW ok \in BOOLEAN, Finish(pg, ok) PROVE RowsAreOfRecordedModels'
  <2>1. /\ pc = "pages" /\ pg \in Pages /\ Written(pg, ok) \in Row /\ Model' = Model
        /\ \/ ~midline /\ lines' = Append(lines, Written(pg, ok))
           \/ midline /\ lines # <<>> /\ lines' = Append(Front(lines), Broken)
    BY <1>1, <1>6, FinishIs
  <2>2. SUFFICES ASSUME tears = 0, NEW i \in DOMAIN lines', lines'[i] # Broken
                 PROVE  config[lines'[i].model] # None
    BY <1>6 DEF Finish
  <2>3. lines' = Append(lines, Written(pg, ok)) /\ Written(pg, ok) \in Line
    BY <1>1, <2>1, <2>2 DEF Untorn, Line
  <2>4. CASE i \in DOMAIN lines
    BY <1>1, <2>2, <2>3, <2>4, AppendedFile
  <2>5. CASE i \notin DOMAIN lines
    <3>1. lines'[i] = Written(pg, ok)
      BY <1>1, <2>2, <2>3, <2>5, AppendedFile
    <3>2. Written(pg, ok).model = names[turn] /\ turn \in DOMAIN names
      BY <1>1, <2>1 DEF Written, Model, PhaseFits
    <3>3. QED  BY <1>1, <2>2, <3>1, <3>2 DEF Untorn
  <2>6. QED  BY <2>4, <2>5
<1>7. CASE EndModel
  BY <1>1, <1>7 DEF EndModel, AllDone, file, bounds, TypeOK
<1>8. CASE Summarize
  BY <1>1, <1>8 DEF Summarize, Exit, file, bounds, TypeOK
<1>9. CASE Stop
  BY <1>1, <1>9 DEF Stop, Exit, file, TypeOK
<1>10. CASE StopInSnapshot
  BY <1>1, <1>10 DEF StopInSnapshot, file, run, TypeOK
<1>11. ASSUME NEW pg \in flying, StopInAppend(pg) PROVE RowsAreOfRecordedModels'
  BY <1>1, <1>11 DEF StopInAppend, Exit, TypeOK
<1>12. CASE UNCHANGED vars
  BY <1>1, <1>12 DEF vars, TypeOK
<1>13. QED  BY <1>1, <1>2, <1>3, <1>4, <1>5, <1>6, <1>7, <1>8, <1>9, <1>10,
     <1>11, <1>12 DEF Next

(* Without a tear the file stays whole, and what is asked lacks an answer. *)
LEMMA UntornStep == TypeOK /\ PhaseFits /\ LatestExists /\ Untorn /\ [Next]_vars => Untorn'
<1>1. SUFFICES ASSUME TypeOK, PhaseFits, LatestExists, Untorn, [Next]_vars PROVE Untorn'
  OBVIOUS
<1> USE ConstantsAssumption DEF Untorn
<1>2. CASE Start
  <2>1. SUFFICES ASSUME tears = 0 PROVE Untorn'
    BY <1>2 DEF Start, bounds
  <2>2. PICK selected \in Selections, s \in Settings : config' = Snapshot(selected, s) /\ names' = selected
    BY <1>2 DEF Start
  <2>3. s # None /\ selected \in Seq(Models)
    BY <2>2, ConstantsAssumption
  <2>4. \A i \in DOMAIN selected : selected[i] \in Models /\ selected[i] \in ToSet(selected)
    BY <2>3 DEF ToSet
  <2>5. \A i \in DOMAIN names' : config'[names'[i]] # None
    BY <2>2, <2>3, <2>4 DEF Snapshot
  <2>6. flying' = {} /\ todo' = {} /\ ~midline' /\ Readable'
    BY <1>1, <1>2, <2>1 DEF Start, PhaseFits, file, Readable
  <2>7. QED  BY <2>5, <2>6
<1>3. CASE BeginModel
  <2>1. SUFFICES ASSUME tears = 0 PROVE Untorn'
    BY <1>3 DEF BeginModel, bounds
  <2>2. flying' = {} /\ ~midline' /\ Readable' /\ lines' = lines /\ Model' = Model
        /\ UNCHANGED <<config, names>> /\ Readable
    BY <1>1, <1>3, <2>1 DEF BeginModel, PhaseFits, file, run, Readable, Model
  <2>3. ASSUME NEW n \in todo' PROVE ~Done(<<Manifest[n], Model>>)'
    <3>1. ~Done(<<Manifest[n], Model>>)
      BY <1>3, <2>3 DEF BeginModel, Pending, Done
    <3>2. QED  BY <2>2, <3>1 DEF Done, Latest, Rows, Readable
  <2>4. QED  BY <1>1, <2>1, <2>2, <2>3
<1>4. CASE Unreadable
  BY <1>1, <1>4 DEF Unreadable, Exit, file, bounds, TypeOK, PhaseFits, Readable,
       Rows, Latest, Done, Model
<1>5. CASE Acquire
  <2>1. SUFFICES ASSUME tears = 0 PROVE Untorn'
    BY <1>5 DEF Acquire, bounds
  <2>2. lines' = lines /\ midline' = midline /\ Model' = Model /\ UNCHANGED <<config, names>>
        /\ pc = "pages"
    BY <1>5 DEF Acquire, file, run, Model
  <2>3. PICK first \in todo : flying' = flying \cup {Manifest[first]} /\ todo' = todo \ {first}
    BY <1>5 DEF Acquire
  <2>4. PICK m \in Models : m = Model /\ m = Model'
    BY <1>1, <2>2, ModelIsOne
  <2>5. \A k \in Keys : Done(k)' <=> Done(k)
    BY <2>2, SameFile
  <2>6. \A q \in Pages : <<q, m>> \in Keys
    BY DEF Keys
  <2>7. \A n \in todo : Manifest[n] \in Pages /\ n \in DOMAIN Manifest
    BY <1>1, PagesAreListed DEF TypeOK
  <2>8. ASSUME NEW q \in flying' PROVE ~Done(<<q, Model>>)'
    <3>1. q \in Pages /\ ~Done(<<q, m>>)
      BY <1>1, <2>1, <2>3, <2>4, <2>7, <2>8 DEF TypeOK
    <3>2. ~Done(<<q, m>>)'
      BY <2>5, <2>6, <3>1
    <3>3. QED  BY <2>4, <3>2
  <2>9. ASSUME NEW n \in todo' PROVE ~Done(<<Manifest[n], Model>>)' /\ Manifest[n] \notin flying'
    <3>1. n \in todo /\ n # first /\ Manifest[n] \in Pages /\ Manifest[n] # Manifest[first]
      BY <2>3, <2>7, <2>9, ConstantsAssumption
    <3>2. ~Done(<<Manifest[n], m>>) /\ Manifest[n] \notin flying
      BY <1>1, <2>1, <2>4, <3>1
    <3>3. PICK k \in Keys : k = <<Manifest[n], m>>
      BY <2>6, <3>1
    <3>4. ~Done(k)'
      BY <2>5, <3>2, <3>3
    <3>5. QED  BY <2>3, <2>4, <3>1, <3>2, <3>3, <3>4
  <2>10. Readable'
    BY <1>1, <2>1, <2>2 DEF Readable
  <2>11. QED  BY <1>1, <2>1, <2>2, <2>8, <2>9, <2>10
<1>6. ASSUME NEW pg \in flying, NEW ok \in BOOLEAN, Finish(pg, ok) PROVE Untorn'
  <2>1. /\ pc = "pages" /\ pg \in Pages /\ Written(pg, ok) \in Row /\ Model' = Model
        /\ \/ ~midline /\ lines' = Append(lines, Written(pg, ok))
           \/ midline /\ lines # <<>> /\ lines' = Append(Front(lines), Broken)
    BY <1>1, <1>6, FinishIs
  <2>2. SUFFICES ASSUME tears = 0 PROVE Untorn'
    BY <1>6 DEF Finish
  <2>3. lines' = Append(lines, Written(pg, ok)) /\ Readable /\ ~midline'
    BY <1>1, <1>6, <2>1, <2>2, Spoiled DEF Finish, AppendRow
  <2>4. PICK row \in Row : row = Written(pg, ok) /\ row.page = pg /\ row.model = Model
    BY <2>1 DEF Written
  <2>5. Readable'
    <3>1. row \in Line /\ row # Broken
      BY ConstantsAssumption DEF Line
    <3>2. QED  BY <1>1, <2>3, <2>4, <3>1, AppendedReadable
  <2>6. PICK m \in Models : m = Model /\ m = Model'
    BY <1>1, <2>1, ModelIsOne
  <2>7. ASSUME NEW q \in Pages, q # pg, ~Done(<<q, m>>) PROVE ~Done(<<q, m>>)'
    <3>1. PICK k \in Keys : k = <<q, m>>
      BY DEF Keys
    <3>2. ~Done(k)' 
      BY <1>1, <2>3, <2>4, <2>6, <2>7, <3>1, AppendedDone
    <3>3. QED  BY <3>1, <3>2
  <2>8. flying' = flying \ {pg} /\ todo' = todo /\ config' = config /\ names' = names
    BY <1>6 DEF Finish, run
  <2>9. ASSUME NEW q \in flying' PROVE ~Done(<<q, Model>>)'
    <3>1. q \in Pages /\ q # pg /\ ~Done(<<q, m>>)
      BY <1>1, <2>2, <2>6, <2>8, <2>9 DEF TypeOK
    <3>2. QED  BY <2>6, <2>7, <3>1
  <2>10. ASSUME NEW n \in todo' PROVE ~Done(<<Manifest[n], Model>>)' /\ Manifest[n] \notin flying'
    <3>1. PICK q \in Pages : q = Manifest[n]
      BY <1>1, <2>8, <2>10, PagesAreListed DEF TypeOK
    <3>2. q # pg /\ q \notin flying /\ ~Done(<<q, m>>)
      BY <1>1, <2>2, <2>6, <2>8, <2>10, <3>1
    <3>3. ~Done(<<q, m>>)'
      BY <2>7, <3>2
    <3>4. QED  BY <2>6, <2>8, <3>1, <3>2, <3>3
  <2>11. QED  BY <1>1, <2>2, <2>3, <2>5, <2>8, <2>9, <2>10
<1>7. CASE EndModel
  BY <1>1, <1>7 DEF EndModel, AllDone, file, bounds, TypeOK, PhaseFits,
       Readable, Rows, Latest, Done, Model
<1>8. CASE Summarize
  BY <1>1, <1>8 DEF Summarize, Exit, file, bounds, TypeOK, PhaseFits, Readable,
       Rows, Latest, Done, Model
<1>9. CASE Stop
  BY <1>1, <1>9 DEF Stop, Exit, file, TypeOK, PhaseFits, Readable, Rows, Latest,
       Done, Model
<1>10. CASE StopInSnapshot
  BY <1>1, <1>10 DEF StopInSnapshot, file, run, TypeOK, PhaseFits, Readable,
       Rows, Latest, Done, Model
<1>11. ASSUME NEW pg \in flying, StopInAppend(pg) PROVE Untorn'
  BY <1>1, <1>11 DEF StopInAppend, Exit, TypeOK, PhaseFits, Readable, Rows,
       Latest, Done, Model
<1>12. CASE UNCHANGED vars
  <2>1. UNCHANGED <<lines, midline, config, names, turn, todo, flying, tears>>
    BY <1>12 DEF vars
  <2>2. \A q : Done(<<q, Model>>)' <=> Done(<<q, Model>>)
    BY <2>1, Zenon DEF Done, Latest, Rows, Readable, Model
  <2>3. Readable' <=> Readable
    BY <2>1 DEF Readable
  <2>4. QED  BY <1>1, <2>1, <2>2, <2>3
<1>13. QED  BY <1>1, <1>2, <1>3, <1>4, <1>5, <1>6, <1>7, <1>8, <1>9, <1>10,
     <1>11, <1>12 DEF Next

LEMMA Invariance == Spec => []IInv
<1>1. IInv /\ [Next]_vars => IInv'
  BY TypesStep, PhaseStep, LatestStep, FateStep, DroppedStep, RecordedStep,
       UntornStep DEF IInv
<1>2. QED  BY <1>1, InitIInv, PTL DEF Spec

-----------------------------------------------------------------------------
(* Every variable keeps its type. *)
THEOREM TypeCorrect == Spec => []TypeOK
<1>1. IInv => TypeOK
  BY DEF IInv
<1>2. QED  BY <1>1, Invariance, PTL

(* However often a run is interrupted, started again or torn: a turn that  *)
(* is over leaves no page of the manifest without a row, and, unless a     *)
(* file was torn, no row is of a model whose settings are not on file.     *)
THEOREM RunIsOnRecordHolds == Spec => []RunIsOnRecord
<1>1. IInv => RunIsOnRecord
  BY DEF IInv, RunIsOnRecord
<1>2. QED  BY <1>1, Invariance, PTL

-----------------------------------------------------------------------------
(* The refinement of PagePromise: what InferRun makes of its variables.    *)
Answered == {k \in Keys : Done(k)}
Out      == {<<pg, Model>> : pg \in flying}

LEMMA OutIsFinite ==
  ASSUME PhaseFits
  PROVE  IsFiniteSet(flying) /\ Cardinality(flying) \in Nat
         /\ Cardinality(Out) \in Nat /\ Cardinality(Out) <= Cardinality(flying)
<1>1. IsFiniteSet(flying)
  BY DEF PhaseFits
<1>2. DEFINE f == [pg \in flying |-> <<pg, Model>>]
<1>3. f \in Surjection(flying, Out)
  BY DEF Out, Surjection
<1>4. IsFiniteSet(Out) /\ Cardinality(Out) <= Cardinality(flying)
  <2>. HIDE DEF f
  <2>1. QED  BY <1>1, <1>3, FS_Surjection
<1>5. QED  BY <1>1, <1>4, FS_CardinalityType

(* PagePromise has its own Cardinality, which is the same operator.         *)
LEMMA SameCardinality == \A S : Promise!Cardinality(S) = Cardinality(S)
  BY Zenon DEF Promise!Cardinality, Cardinality

LEMMA SameAnswers == lines' = lines => Answered' = Answered
  BY SameFile DEF Answered

(* A page that gets through the semaphore is asked.                        *)
LEMMA AcquireAsks ==
  ASSUME IInv, tears = 0, Acquire
  PROVE  \E k \in Keys : /\ k \notin Answered \cup Out /\ Cardinality(Out) < Concurrency
                         /\ Out' = Out \cup {k} /\ Answered' = Answered
<1>1. PICK first \in todo : flying' = flying \cup {Manifest[first]}
  BY DEF Acquire
<1>2. pc = "pages" /\ lines' = lines /\ Model' = Model
  BY DEF Acquire, file, run, Model
<1>3. PICK m \in Models : m = Model /\ m = Model'
  BY <1>2, ModelIsOne DEF IInv
<1>4. PICK pg \in Pages : pg = Manifest[first]
  BY <1>1, PagesAreListed DEF IInv, TypeOK
<1>5. PICK k \in Keys : k = <<pg, m>>
  BY DEF Keys
<1>6. k \notin Answered
  BY <1>1, <1>3, <1>4, <1>5 DEF IInv, Untorn, Answered
<1>7. k \notin Out
  BY <1>1, <1>3, <1>4, <1>5 DEF IInv, Untorn, Out
<1>8. Out' = Out \cup {k}
  BY <1>1, <1>3, <1>4, <1>5 DEF Out
<1>9. Cardinality(Out) < Concurrency
  BY OutIsFinite, ConstantsAssumption DEF IInv, Acquire
<1>10. QED  BY <1>2, <1>6, <1>7, <1>8, <1>9, SameAnswers

(* A page that ends is answered, if it is without an error.                *)
LEMMA FinishAnswers ==
  ASSUME IInv, tears = 0, NEW pg \in flying, NEW ok \in BOOLEAN, Finish(pg, ok)
  PROVE  \E k \in Keys : /\ k \in Out /\ Out' = Out \ {k}
                         /\ Answered' \in {Answered, Answered \cup {k}}
<1>1. /\ pc = "pages" /\ pg \in Pages /\ Written(pg, ok) \in Row /\ Model' = Model
      /\ lines' = Append(lines, Written(pg, ok))
  BY FinishIs DEF IInv, Untorn
<1>2. PICK m \in Models : m = Model /\ m = Model'
  BY <1>1, ModelIsOne DEF IInv
<1>3. PICK k \in Keys : k = <<pg, m>>
  BY <1>1 DEF Keys
<1>4. PICK row \in Row : row = Written(pg, ok) /\ <<row.page, row.model>> = k
  BY <1>1, <1>2, <1>3 DEF Written
<1>5. flying' = flying \ {pg} /\ Readable
  BY DEF Finish, IInv, Untorn
<1>6. k \in Out /\ Out' = Out \ {k}
  BY <1>2, <1>3, <1>5 DEF Out
<1>7. ASSUME NEW j \in Keys, j # k PROVE Done(j)' <=> Done(j)
  BY <1>1, <1>4, <1>5, <1>7, AppendedDone DEF IInv
<1>8. k \notin Answered
  BY <1>2, <1>3 DEF Answered, IInv, Untorn
<1>9. CASE Done(k)'
  <2>1. Answered' = Answered \cup {k}
    BY <1>7, <1>9 DEF Answered
  <2>2. QED  BY <1>6, <2>1
<1>10. CASE ~Done(k)'
  <2>1. Answered' = Answered
    BY <1>7, <1>8, <1>10 DEF Answered
  <2>2. QED  BY <1>6, <2>1
<1>11. QED  BY <1>9, <1>10

LEMMA TearsGrow == TypeOK /\ [Next]_vars => tears' = tears \/ tears' = tears + 1
  BY DEF Next, vars, Start, BeginModel, Unreadable, Acquire, Finish, EndModel,
       Summarize, Stop,
     StopInSnapshot, StopInAppend, bounds

LEMMA PromiseStep == IInv /\ [Next]_vars => [Promise!Next]_(Promise!vars)
<1>1. SUFFICES ASSUME IInv, [Next]_vars PROVE [Promise!Next]_(Promise!vars)
  OBVIOUS
<1>2. CASE tears' > 0
  BY <1>2 DEF Promise!Next
<1>3. CASE ~(tears' > 0)
  <2>1. tears = 0 /\ tears' = 0
    BY <1>1, <1>3, TearsGrow DEF IInv, TypeOK
  <2>2. \/ Answered' = Answered /\ Out' = Out
        \/ Answered' = Answered /\ Out' = {}
        \/ \E k \in Keys : /\ k \notin Answered \cup Out /\ Cardinality(Out) < Concurrency
                           /\ Out' = Out \cup {k} /\ Answered' = Answered
        \/ \E k \in Keys : /\ k \in Out /\ Out' = Out \ {k}
                           /\ Answered' \in {Answered, Answered \cup {k}}
    <3>1. CASE Start \/ BeginModel \/ EndModel
      <4>1. lines' = lines /\ flying' = {}
        BY <1>1, <3>1 DEF IInv, PhaseFits, Start, BeginModel, EndModel, file
      <4>2. QED  BY <4>1, SameAnswers DEF Out
    <3>2. CASE Unreadable \/ Summarize \/ Stop
      <4>1. lines' = lines /\ flying' = {}
        BY <3>2 DEF Unreadable, Summarize, Stop, Exit, file
      <4>2. QED  BY <4>1, SameAnswers DEF Out
    <3>3. CASE Acquire
      BY <1>1, <2>1, <3>3, AcquireAsks
    <3>4. ASSUME NEW pg \in flying, NEW ok \in BOOLEAN, Finish(pg, ok)
          PROVE  \E k \in Keys : /\ k \in Out /\ Out' = Out \ {k}
                                 /\ Answered' \in {Answered, Answered \cup {k}}
      BY <1>1, <2>1, <3>4, FinishAnswers
    <3>5. CASE StopInSnapshot \/ \E pg \in flying : StopInAppend(pg)
      BY <2>1, <3>5 DEF StopInSnapshot, StopInAppend
    <3>6. CASE UNCHANGED vars
      BY <3>6, SameAnswers DEF vars, Out, Model
    <3>7. QED  BY <1>1, <3>1, <3>2, <3>3, <3>4, <3>5, <3>6 DEF Next
  <2>3. CASE Answered' = Answered /\ Out' = Out
    BY <2>1, <2>3 DEF Promise!vars, Answered, Out
  <2>4. CASE Answered' = Answered /\ Out' = {}
    BY <1>3, <2>4 DEF Promise!Next, Promise!Keep, Promise!Interrupt, Answered,
         Out
  <2>5. ASSUME NEW k \in Keys, k \notin Answered \cup Out, Cardinality(Out) < Concurrency,
               Out' = Out \cup {k}, Answered' = Answered
        PROVE  Promise!Next
    <3>1. Promise!Ask(k)
      <4>1. Cardinality({<<pg, Model>> : pg \in flying}) < Concurrency
        BY <2>5, Zenon DEF Out
      <4>2. k \notin {j \in Keys : Done(j)} \cup {<<pg, Model>> : pg \in flying}
        BY <2>5, Zenon DEF Answered, Out
      <4>3. /\ {<<pg, Model>> : pg \in flying}' = {<<pg, Model>> : pg \in flying} \cup {k}
            /\ UNCHANGED {j \in Keys : Done(j)}
        BY <2>5, Zenon DEF Answered, Out
      <4>4. QED  BY <4>1, <4>2, <4>3, SameCardinality DEF Promise!Ask
    <3>2. QED  BY <1>3, <3>1 DEF Promise!Next, Promise!Keep
  <2>6. ASSUME NEW k \in Keys, k \in Out, Out' = Out \ {k},
               Answered' \in {Answered, Answered \cup {k}}
        PROVE  Promise!Next
    <3>1. Promise!Answer(k)
      BY <2>6 DEF Promise!Answer, Answered, Out
    <3>2. QED  BY <1>3, <3>1 DEF Promise!Next, Promise!Keep
  <2>7. QED  BY <2>2, <2>3, <2>4, <2>5, <2>6
<1>4. QED  BY <1>2, <1>3

(* However a run is stopped, as long as no kill tears a file: a page is    *)
(* asked of a model once at a time and only while it lacks an answer, at   *)
(* most Concurrency pages are out, and an answer once on file is kept.     *)
THEOREM PromiseIsKept == Spec => KeepsPromise
<1>1. Init => Promise!Init
  <2>1. SUFFICES ASSUME Init PROVE Promise!Init
    OBVIOUS
  <2>2. DOMAIN lines = {}
    BY <2>1 DEF Init
  <2>3. \A k \in Keys : ~Done(k)
    BY <2>2 DEF Done, Rows
  <2>4. QED  BY <2>1, <2>3 DEF Init, Promise!Init
<1>2. QED  BY <1>1, Invariance, PromiseStep, PTL DEF Spec, KeepsPromise,
     Promise!Spec
==============================================================================

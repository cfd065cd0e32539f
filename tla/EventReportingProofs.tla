----------------------- MODULE EventReportingProofs -----------------------
(***************************************************************************)
(* Theorems about the event table and its reporter, for every batch size,  *)
(* either replay policy and all bounds; and about the reporter with its    *)
(* connections, which is still that reporter, and of which what the broker *)
(* says has a ground.                                                      *)
(***************************************************************************)
EXTENDS ReporterPresence, FiniteSets, FiniteSetTheorems, TLAPS

-----------------------------------------------------------------------------
(* The inductive invariant.                                                *)

\* Every event that was noticed is stored, lost or on its way.
WriterCounts ==
  /\ stored \in Nat /\ noticed \in 0..MaxEvents /\ lost \in Nat
  /\ writer \in {"down", "idle", "commit"} /\ open \in BOOLEAN
  /\ lock \in {"none", "reserved", "pending"}
  /\ noticed = stored + lost + (IF writer = "commit" THEN 1 ELSE 0)

\* A position that the reporter may hold: all that it passed is delivered.
Reached(position) ==
  /\ base # -1 /\ position \in base..stored
  /\ \A id \in (base + 1)..position : id \in received

ReporterTypes ==
  /\ pc \in {"down", "top", "send", "save"} /\ connected \in BOOLEAN
  /\ cursor \in Int /\ cursor_ready \in BOOLEAN /\ file \in Int
  /\ last \in Int /\ base \in Int

\* The cursor in memory and the cursor on disk are such positions, and a cursor
\* can be missing in memory only when it is missing on disk.
CursorsReached ==
  /\ base \in -1..stored /\ cursor \in 0..stored /\ last \in 0..stored
  /\ received \subseteq 1..stored
  /\ file \in -1..stored /\ (file # -1 => Reached(file))
  /\ pc # "down" /\ cursor_ready => Reached(cursor) /\ file <= cursor
  /\ pc # "down" /\ ~cursor_ready => file = -1 /\ ~ReplayHistory
  /\ pc \in {"send", "save"} => cursor_ready /\ cursor < last
  /\ pc = "save" => cursor + 1 \in received
  /\ ReplayHistory => base \in {-1, 0}

OtherTypes ==
  /\ broker \in {"up", "down"} /\ repeats \in Nat
  /\ failures \in [Kind -> 0..MaxFailures]

Inductive == WriterCounts /\ ReporterTypes /\ CursorsReached /\ OtherTypes

\* What has been received but would be sent again after a crash.
Unsaved == {id \in received : id > file}
Causes == failures["ack"] + failures["save"] + failures["crash"]
InFlight == IF pc = "save" THEN 1 ELSE 0

\* Every repetition that happened or may yet happen is paid for by a failure.
RepeatsPaid == repeats + Cardinality(Unsaved) <= Causes + InFlight

-----------------------------------------------------------------------------
(* Lemmas.                                                                 *)

\* A failure of a kind stays within its bound and is counted once.
LEMMA FailEffect ==
  ASSUME OtherTypes, NEW kind \in Kind, Fail(kind)
  PROVE  /\ failures' \in [Kind -> 0..MaxFailures]
         /\ failures'[kind] = failures[kind] + 1
         /\ \A other \in Kind \ {kind} : failures'[other] = failures[other]
BY ReportingAssumption DEF OtherTypes, Fail

\* save_cursor.
LEMMA SaveEffect ==
  ASSUME OtherTypes, NEW id, SaveCursor(id)
  PROVE  /\ failures' \in [Kind -> 0..MaxFailures]
         /\ file' \in {id, file}
BY FailEffect DEF SaveCursor, Kind, OtherTypes

\* The initial state satisfies the invariant.
LEMMA InitInductive == Init => Inductive
<1> SUFFICES ASSUME Init PROVE Inductive
  OBVIOUS
<1>start. /\ writer = "idle" /\ lock = "none" /\ stored = 0 /\ noticed = 0 /\ lost = 0
      /\ pc = "down" /\ cursor = 0 /\ last = 0 /\ received = {}
  BY DEF Init
<1>flags. open \in BOOLEAN /\ connected \in BOOLEAN /\ cursor_ready \in BOOLEAN
  BY Zenon DEF Init
<1>none. file = -1 /\ base = -1
  BY DEF Init
<1>1. WriterCounts
  BY <1>start, <1>flags, ReportingAssumption DEF WriterCounts
<1>2. ReporterTypes
  BY <1>start, <1>flags, <1>none DEF ReporterTypes
<1>3. CursorsReached
  BY <1>start, <1>none DEF CursorsReached
<1>4. OtherTypes
  BY ReportingAssumption DEF Init, OtherTypes
<1>5. QED
  BY <1>1, <1>2, <1>3, <1>4 DEF Inductive

\* The actions of the writer, the broker and the clock leave the reporter alone;
\* the table only grows.
LEMMA GrowthKeepsCursors ==
  ASSUME Inductive, UNCHANGED <<reporterVars, brokerVars>>, stored' \in Nat,
         stored' >= stored
  PROVE  ReporterTypes' /\ CursorsReached'
<1>1. ReporterTypes'
  BY DEF Inductive, ReporterTypes, reporterVars
<1>2. stored \in Nat
  BY DEF Inductive, WriterCounts
<1>3. \A position : Reached(position) => Reached(position)'
  BY <1>2 DEF Reached, reporterVars, brokerVars, Inductive, ReporterTypes
<1>4. received' \subseteq 1..stored'
  BY <1>2 DEF Inductive, CursorsReached, brokerVars
<1>5. CursorsReached'
  BY <1>2, <1>3, <1>4
  DEF Inductive, CursorsReached, ReporterTypes, reporterVars, brokerVars
<1>6. QED
  BY <1>1, <1>5

\* A step of the reporter that leaves the writer alone keeps its part.
LEMMA WriterKept ==
  ASSUME Inductive, UNCHANGED writerVars
  PROVE  WriterCounts' /\ stored' = stored
BY DEF Inductive, WriterCounts, writerVars

\* The writer's actions.
LEMMA WriterStep ==
  ASSUME Inductive, Writer
  PROVE  Inductive'
<1>1. UNCHANGED <<reporterVars, brokerVars>>
  BY DEF Writer, Record, InsertFails, Commit, CommitWaits, CommitTimesOut,
     WriterCrash, WriterStart
<1>2. WriterCounts' /\ stored' >= stored /\ stored' \in Nat
  <2> USE ReportingAssumption DEF Inductive, WriterCounts
  <2>1. CASE Record
    BY <2>1 DEF Record
  <2>2. CASE InsertFails
    BY <2>2 DEF InsertFails
  <2>3. CASE Commit
    BY <2>3 DEF Commit
  <2>4. CASE CommitWaits
    BY <2>4 DEF CommitWaits
  <2>5. CASE CommitTimesOut
    BY <2>5 DEF CommitTimesOut
  <2>6. CASE WriterCrash
    <3>1. /\ writer' = "down" /\ lock' = "none" /\ stored' = stored
          /\ noticed' = noticed /\ lost' = IF writer = "commit" THEN lost + 1 ELSE lost
      BY <2>6 DEF WriterCrash
    <3>2. open' \in BOOLEAN
      BY <2>6, Zenon DEF WriterCrash
    <3>3. QED
      BY <3>1, <3>2
  <2>7. CASE WriterStart
    BY <2>7 DEF WriterStart
  <2>8. QED
    BY <2>1, <2>2, <2>3, <2>4, <2>5, <2>6, <2>7 DEF Writer
<1>3. failures' \in [Kind -> 0..MaxFailures]
  <2>1. UNCHANGED failures \/ Fail("insert") \/ Fail("slow") \/ Fail("restart")
    BY DEF Writer, Record, InsertFails, Commit, CommitWaits, CommitTimesOut,
       WriterCrash, WriterStart
  <2>2. QED
    BY <2>1, FailEffect DEF Inductive, OtherTypes, Kind
<1>4. OtherTypes'
  BY <1>1, <1>3 DEF Inductive, OtherTypes, brokerVars
<1>5. QED
  BY <1>1, <1>2, <1>4, GrowthKeepsCursors DEF Inductive

\* The reporter's actions.
LEMMA ReporterStep ==
  ASSUME Inductive, Reporter
  PROVE  Inductive'
<1>1. WriterCounts' /\ stored' = stored
  BY WriterKept DEF Reporter, Start, Connect, ConnectFails, StatusFails, InitializeCursor, Query,
     Publish, PublishFails, Abandon, Advance, Crash
<1>2. stored \in Nat /\ OtherTypes /\ ReporterTypes /\ CursorsReached
  BY DEF Inductive, WriterCounts
<1>3. ASSUME UNCHANGED <<base, received>>
      PROVE  \A position : Reached(position) => Reached(position)'
  BY <1>1, <1>3 DEF Reached
<1>4. CASE Start
  <2>flags. connected' \in BOOLEAN /\ cursor_ready' \in BOOLEAN
    BY <1>4, Zenon DEF Start
  <2>others. /\ pc' = "top" /\ cursor' = Loaded
        /\ base' = (IF file = -1 /\ ReplayHistory THEN 0 ELSE base)
        /\ file' = file /\ last' = last
        /\ UNCHANGED <<broker, received, repeats, failures>>
    BY <1>4 DEF Start, brokerVars
  <2>1. ReporterTypes' /\ OtherTypes'
    <3>1. ReporterTypes'
      BY <1>2, <2>flags, <2>others DEF ReporterTypes, Loaded
    <3>2. OtherTypes'
      BY <1>2, <2>others DEF OtherTypes
    <3>3. QED
      BY <3>1, <3>2
  <2>2. CASE file # -1
    <3>1. base' = base /\ cursor' = file
      BY <2>others, <2>2 DEF Loaded
    <3>2. cursor_ready'
      BY <1>4, <2>2 DEF Start
    <3>3. Reached(file)' /\ file \in 0..stored
      BY <1>2, <1>3, <2>others, <2>2, <3>1 DEF CursorsReached, ReporterTypes
    <3>4. CursorsReached'
      BY <1>1, <1>2, <2>others, <3>1, <3>2, <3>3 DEF CursorsReached
    <3>5. QED
      BY <1>1, <2>1, <3>4 DEF Inductive
  <2>3. CASE file = -1 /\ ReplayHistory
    <3>1. base' = 0 /\ cursor' = 0 /\ cursor_ready' /\ file' = -1 /\ pc' = "top"
          /\ last' = last /\ received' = received
      BY <1>4, <2>3 DEF Start, Loaded, brokerVars
    <3>2. QED
      BY <1>1, <1>2, <2>1, <2>3, <3>1 DEF CursorsReached, Reached, Inductive
  <2>4. CASE file = -1 /\ ~ReplayHistory
    <3>1. base' = base /\ cursor' = 0 /\ ~cursor_ready' /\ file' = -1 /\ pc' = "top"
          /\ last' = last /\ received' = received
      BY <1>4, <2>4 DEF Start, Loaded, brokerVars
    <3>2. QED
      BY <1>1, <1>2, <2>1, <2>4, <3>1 DEF CursorsReached, Inductive
  <2>5. QED
    BY <1>1, <2>1, <2>2, <2>3, <2>4, ReportingAssumption DEF Inductive
<1>5. CASE Connect \/ ConnectFails \/ StatusFails
  <2>1. connected' \in BOOLEAN
    <3>1. connected \in BOOLEAN
      BY <1>2 DEF ReporterTypes
    <3>2. connected' \in {TRUE, FALSE, connected}
      BY <1>5, Zenon DEF Connect, ConnectFails, StatusFails, reporterVars
    <3>3. QED
      BY <3>1, <3>2, Zenon
  <2>2. UNCHANGED <<pc, cursor, cursor_ready, file, last, base, broker, received, repeats>>
    BY <1>5 DEF Connect, ConnectFails, StatusFails, reporterVars, brokerVars
  <2>failed. failures' \in [Kind -> 0..MaxFailures]
    BY <1>2, <1>5, FailEffect DEF Connect, ConnectFails, StatusFails, Kind, OtherTypes
  <2>3. ReporterTypes' /\ OtherTypes'
    BY <1>2, <2>1, <2>2, <2>failed DEF ReporterTypes, OtherTypes
  <2>4. CursorsReached'
    BY <1>1, <1>2, <1>3, <2>2 DEF CursorsReached
  <2>5. QED
    BY <1>1, <2>3, <2>4 DEF Inductive
<1>6. CASE InitializeCursor
  <2>1. failures' \in [Kind -> 0..MaxFailures] /\ file' \in {stored, file}
    BY <1>2, <1>6, SaveEffect DEF InitializeCursor
  <2>2. file = -1 /\ ~ReplayHistory
    BY <1>2, <1>6 DEF InitializeCursor, CursorsReached
  <2>3. ReporterTypes' /\ OtherTypes'
    BY <1>2, <1>6, <2>1 DEF InitializeCursor, ReporterTypes, OtherTypes, brokerVars
  <2>4. /\ base' = stored /\ cursor' = stored /\ received' = received
        /\ pc' = "top" /\ last' = last /\ cursor_ready'
    BY <1>6 DEF InitializeCursor, brokerVars
  <2>5. Reached(stored)'
    BY <1>1, <1>2, <2>4 DEF Reached
  <2>6. CursorsReached'
    BY <1>1, <1>2, <2>1, <2>2, <2>4, <2>5 DEF CursorsReached
  <2>7. QED
    BY <1>1, <2>3, <2>6 DEF Inductive
<1>7. CASE Query
  <2>1. /\ last' \in 0..stored /\ cursor < last' /\ pc' = "send" /\ cursor_ready
        /\ UNCHANGED <<cursor, cursor_ready, file, base, received>>
    BY <1>2, <1>7, ReportingAssumption DEF Query, CursorsReached, brokerVars
  <2>2. ReporterTypes' /\ OtherTypes'
    BY <1>2, <1>7, <2>1 DEF Query, ReporterTypes, OtherTypes, brokerVars
  <2>3. pc # "down"
    BY <1>7 DEF Query
  <2>4. CursorsReached'
    BY <1>1, <1>2, <1>3, <2>1, <2>3 DEF CursorsReached
  <2>5. QED
    BY <1>1, <2>2, <2>4 DEF Inductive
<1>8. ASSUME pc = "send", Receive(cursor + 1)
      PROVE  /\ received' \subseteq 1..stored /\ received \subseteq received'
             /\ cursor + 1 \in received' /\ repeats' \in Nat
  BY <1>2, <1>8 DEF Receive, CursorsReached, OtherTypes
<1>9. CASE Publish
  <2>1. /\ received' \subseteq 1..stored /\ received \subseteq received'
        /\ cursor + 1 \in received' /\ repeats' \in Nat
    BY <1>8, <1>9 DEF Publish
  <2>2. /\ pc = "send" /\ pc' = "save"
        /\ UNCHANGED <<connected, cursor, cursor_ready, file, last, base, broker, failures>>
    BY <1>9 DEF Publish, Receive
  <2>3. ReporterTypes' /\ OtherTypes'
    BY <1>2, <2>1, <2>2 DEF ReporterTypes, OtherTypes
  <2>4. \A position : Reached(position) => Reached(position)'
    BY <1>1, <2>1, <2>2 DEF Reached
  <2>5. CursorsReached'
    BY <1>1, <1>2, <2>1, <2>2, <2>4 DEF CursorsReached
  <2>6. QED
    BY <1>1, <2>3, <2>5 DEF Inductive
<1>10. CASE PublishFails
  <2>1. /\ pc = "send" /\ pc' = "top" /\ connected' = FALSE
        /\ UNCHANGED <<cursor, cursor_ready, file, last, base>>
    BY <1>10 DEF PublishFails, Abandon
  <2>2. /\ received' \subseteq 1..stored /\ received \subseteq received'
        /\ repeats' \in Nat /\ broker' = broker
    BY <1>2, <1>8, <1>10, <2>1
    DEF PublishFails, Receive, brokerVars, CursorsReached, OtherTypes
  <2>3. failures' \in [Kind -> 0..MaxFailures]
    BY <1>2, <1>10, FailEffect DEF PublishFails, Kind, OtherTypes
  <2>4. ReporterTypes' /\ OtherTypes'
    BY <1>2, <2>1, <2>2, <2>3 DEF ReporterTypes, OtherTypes
  <2>5. \A position : Reached(position) => Reached(position)'
    BY <1>1, <2>1, <2>2 DEF Reached
  <2>6. CursorsReached'
    BY <1>1, <1>2, <2>1, <2>2, <2>5 DEF CursorsReached
  <2>7. QED
    BY <1>1, <2>4, <2>6 DEF Inductive
<1>11. CASE Advance
  <2>1. /\ pc = "save" /\ cursor' = cursor + 1
        /\ pc' = IF cursor + 1 < last THEN "send" ELSE "top"
        /\ UNCHANGED <<connected, cursor_ready, last, base, broker, received, repeats>>
    BY <1>11 DEF Advance, brokerVars
  <2>2. failures' \in [Kind -> 0..MaxFailures] /\ file' \in {cursor + 1, file}
    BY <1>2, <1>11, SaveEffect DEF Advance
  <2>3. ReporterTypes' /\ OtherTypes'
    BY <1>2, <2>1, <2>2 DEF ReporterTypes, OtherTypes
  <2>4. Reached(cursor + 1) /\ cursor + 1 \in 0..stored /\ file < cursor + 1
    BY <1>2, <2>1 DEF CursorsReached, Reached, ReporterTypes
  <2>5. \A position : Reached(position) => Reached(position)'
    BY <1>3, <2>1
  <2>6. CursorsReached'
    BY <1>1, <1>2, <2>1, <2>2, <2>4, <2>5 DEF CursorsReached, ReporterTypes
  <2>7. QED
    BY <1>1, <2>3, <2>6 DEF Inductive
<1>12. CASE Crash
  <2>1. failures' \in [Kind -> 0..MaxFailures]
    BY <1>2, <1>12, FailEffect DEF Crash, Kind
  <2>2. QED
    BY <1>1, <1>2, <1>3, <1>12, <2>1
    DEF Crash, Inductive, CursorsReached, ReporterTypes, OtherTypes, brokerVars
<1>13. QED
  BY <1>4, <1>5, <1>6, <1>7, <1>9, <1>10, <1>11, <1>12 DEF Reporter

\* The invariant is inductive.
LEMMA NextInductive == Inductive /\ [Next]_vars => Inductive'
<1> SUFFICES ASSUME Inductive, [Next]_vars PROVE Inductive'
  OBVIOUS
<1>1. CASE Writer
  BY <1>1, WriterStep
<1>2. CASE Reporter
  BY <1>2, ReporterStep
<1>3. CASE Outage \/ Recovery
  <2>1. UNCHANGED <<writerVars, reporterVars, received, repeats>> /\ broker' \in {"up", "down"}
    BY <1>3 DEF Outage, Recovery
  <2>2. failures' \in [Kind -> 0..MaxFailures]
    BY <1>3, FailEffect DEF Outage, Recovery, Kind, Inductive, OtherTypes
  <2>3. OtherTypes'
    BY <2>1, <2>2 DEF Inductive, OtherTypes
  <2>4. WriterCounts' /\ stored' = stored
    BY <2>1, WriterKept
  <2>5. \A position : Reached(position) => Reached(position)'
    BY <2>1, <2>4 DEF Reached, reporterVars
  <2>6. ReporterTypes' /\ CursorsReached'
    BY <2>1, <2>4, <2>5 DEF Inductive, ReporterTypes, CursorsReached, reporterVars
  <2>7. QED
    BY <2>3, <2>4, <2>6 DEF Inductive
<1>4. CASE UNCHANGED vars
  <2>1. UNCHANGED <<writerVars, reporterVars, brokerVars, failures>>
    BY <1>4 DEF vars
  <2>2. WriterCounts' /\ stored' = stored /\ stored \in Nat
    BY <2>1, WriterKept DEF Inductive, WriterCounts
  <2>3. QED
    BY <2>1, <2>2, GrowthKeepsCursors DEF Inductive, OtherTypes, brokerVars
<1>5. QED
  BY <1>1, <1>2, <1>3, <1>4 DEF Next

\* The invariant holds.
LEMMA InductiveHolds == Spec => []Inductive
<1>1. QED
  BY InitInductive, NextInductive, PTL DEF Spec

-----------------------------------------------------------------------------
(* Theorems.                                                               *)

\* Every variable keeps its type: no cursor runs ahead of the table.
THEOREM TypeCorrect == Spec => []TypeOK
<1>1. Inductive => TypeOK
  <2> SUFFICES ASSUME Inductive PROVE TypeOK
    OBVIOUS
  <2>1. stored \in Rows /\ lost \in Rows /\ noticed \in Rows
    BY ReportingAssumption DEF Inductive, WriterCounts, Rows
  <2>2. WriterTypeOK
    BY <2>1 DEF Inductive, WriterCounts, WriterTypeOK
  <2>3. 0..stored \subseteq Rows
    BY <2>1, ReportingAssumption DEF Rows
  <2>4. ReporterTypeOK
    BY <2>1, <2>3 DEF Inductive, ReporterTypes, CursorsReached, ReporterTypeOK, Rows
  <2>5. received \subseteq 1..MaxEvents
    BY <2>1, ReportingAssumption DEF Inductive, CursorsReached, Rows
  <2>6. BrokerTypeOK /\ FailuresTypeOK
    BY <2>5 DEF Inductive, OtherTypes, BrokerTypeOK, FailuresTypeOK
  <2>7. QED
    BY <2>2, <2>4, <2>6 DEF TypeOK
<1>2. QED
  BY <1>1, InductiveHolds, PTL

-----------------------------------------------------------------------------
(* Repetitions.                                                            *)

\* A failure of one of the three kinds adds one cause; any other adds none.
LEMMA CauseCounted ==
  ASSUME OtherTypes, NEW kind \in Kind, Fail(kind)
  PROVE  /\ Causes \in Nat /\ Causes' \in Nat
         /\ kind \in {"ack", "save", "crash"} => Causes' = Causes + 1
         /\ kind \notin {"ack", "save", "crash"} => Causes' = Causes
<1> DEFINE Other == Kind \ {kind}
<1>1. /\ failures' \in [Kind -> 0..MaxFailures]
      /\ failures'[kind] = failures[kind] + 1
      /\ \A other \in Other : failures'[other] = failures[other]
  BY FailEffect
<1>2. "ack" \in Kind /\ "save" \in Kind /\ "crash" \in Kind
  BY DEF Kind
<1>3. \A other \in Kind : failures[other] \in Nat /\ failures'[other] \in Nat
  BY <1>1, ReportingAssumption DEF OtherTypes
<1>4. QED
  BY <1>1, <1>2, <1>3 DEF Causes

\* Causes are a number, and change only with the failures.
LEMMA CausesAreNat == OtherTypes => Causes \in Nat
<1> SUFFICES ASSUME OtherTypes PROVE Causes \in Nat
  OBVIOUS
<1>1. "ack" \in Kind /\ "save" \in Kind /\ "crash" \in Kind
  BY DEF Kind
<1>2. QED
  BY <1>1, ReportingAssumption DEF OtherTypes, Causes

\* The rows that a crash would send again are finitely many.
LEMMA UnsavedFinite == Inductive => IsFiniteSet(Unsaved) /\ Cardinality(Unsaved) \in Nat
<1> SUFFICES ASSUME Inductive PROVE IsFiniteSet(Unsaved) /\ Cardinality(Unsaved) \in Nat
  OBVIOUS
<1>1. IsFiniteSet(1..stored)
  BY FS_Interval DEF Inductive, WriterCounts
<1>2. Unsaved \in SUBSET (1..stored)
  BY DEF Unsaved, Inductive, CursorsReached
<1>3. IsFiniteSet(Unsaved)
  BY <1>1, <1>2, FS_Subset
<1>4. QED
  BY <1>3, FS_CardinalityType

\* One more row received: either it is a repetition or one more is unsaved.
LEMMA ReceiveEffect ==
  ASSUME Inductive, NEW id \in Nat, id > file, Receive(id), file' = file
  PROVE  repeats' + Cardinality(Unsaved)' = repeats + Cardinality(Unsaved) + 1
<1>1. Unsaved' = Unsaved \union {id}
  BY DEF Unsaved, Receive
<1>2. id \in Unsaved <=> id \in received
  BY DEF Unsaved
<1>3. /\ IsFiniteSet(Unsaved) /\ Cardinality(Unsaved) \in Nat
  BY UnsavedFinite
<1>4. Cardinality(Unsaved \union {id})
        = IF id \in Unsaved THEN Cardinality(Unsaved) ELSE Cardinality(Unsaved) + 1
  BY <1>3, FS_AddElement
<1>5. repeats \in Nat
  BY DEF Inductive, OtherTypes
<1>6. repeats' = IF id \in received THEN repeats + 1 ELSE repeats
  BY DEF Receive
<1>7. Cardinality(Unsaved)' = Cardinality(Unsaved \union {id})
  BY <1>1
<1>8. QED
  BY <1>2, <1>3, <1>4, <1>5, <1>6, <1>7

\* A step of the writer or of the network pays and owes nothing.
LEMMA QuietStep ==
  ASSUME Inductive, RepeatsPaid, UNCHANGED <<received, file, repeats>>,
         Causes' \in Nat, Causes' >= Causes, InFlight' = InFlight
  PROVE  RepeatsPaid'
<1>1. Unsaved' = Unsaved
  BY DEF Unsaved
<1>2. Cardinality(Unsaved)' = Cardinality(Unsaved)
  BY <1>1
<1>3. Causes \in Nat /\ repeats \in Nat /\ Cardinality(Unsaved) \in Nat
  BY CausesAreNat, UnsavedFinite DEF Inductive, OtherTypes
<1>4. InFlight \in Nat
  BY DEF InFlight
<1>5. QED
  BY <1>2, <1>3, <1>4 DEF RepeatsPaid

\* Every step keeps the balance.
LEMMA PaidStep == Inductive /\ RepeatsPaid /\ [Next]_vars => RepeatsPaid'
<1> SUFFICES ASSUME Inductive, RepeatsPaid, [Next]_vars PROVE RepeatsPaid'
  OBVIOUS
<1>1. OtherTypes /\ Causes \in Nat /\ Cardinality(Unsaved) \in Nat /\ repeats \in Nat
  BY CausesAreNat, UnsavedFinite DEF Inductive, OtherTypes
<1>2. file \in Int /\ cursor \in Nat /\ stored \in Nat
  BY DEF Inductive, WriterCounts, ReporterTypes, CursorsReached
<1>3. ASSUME UNCHANGED failures PROVE Causes' = Causes
  BY <1>3 DEF Causes
<1>rows. received \subseteq Nat
  BY <1>2 DEF Inductive, CursorsReached
<1>4. CASE Writer \/ Outage \/ Recovery
  <2>1. UNCHANGED <<received, file, repeats, pc>>
    BY <1>4 DEF Writer, Record, InsertFails, Commit, CommitWaits, CommitTimesOut,
       WriterCrash, WriterStart, Outage, Recovery, reporterVars, brokerVars
  <2>2. UNCHANGED failures \/ \E kind \in Kind : Fail(kind)
    <3>1. "insert" \in Kind /\ "slow" \in Kind /\ "restart" \in Kind /\ "outage" \in Kind
      BY DEF Kind
    <3>2. QED
      BY <1>4, <3>1 DEF Writer, Record, InsertFails, Commit, CommitWaits,
         CommitTimesOut, WriterCrash, WriterStart, Outage, Recovery
  <2>3. Causes' \in Nat /\ Causes' >= Causes
    BY <1>1, <1>3, <2>2, CauseCounted
  <2>4. QED
    BY <2>1, <2>3, QuietStep DEF InFlight
<1>5. CASE Start \/ Connect \/ ConnectFails \/ StatusFails \/ Query
  <2>1. UNCHANGED <<received, file, repeats>>
    BY <1>5 DEF Start, Connect, ConnectFails, StatusFails, Query, reporterVars, brokerVars
  <2>2. InFlight' = InFlight
    BY <1>5 DEF Start, Connect, ConnectFails, StatusFails, Query, InFlight, reporterVars
  <2>3. UNCHANGED failures \/ Fail("ack")
    BY <1>5 DEF Start, Connect, ConnectFails, StatusFails, Query
  <2>4. Causes' \in Nat /\ Causes' >= Causes
    BY <1>1, <1>3, <2>3, CauseCounted DEF Kind
  <2>5. QED
    BY <2>1, <2>2, <2>4, QuietStep
<1>6. CASE InitializeCursor
  <2>1. file = -1 /\ file' \in {stored, file}
    BY <1>1, <1>6, SaveEffect DEF InitializeCursor, Inductive, CursorsReached
  <2>2. /\ UNCHANGED <<received, repeats, pc>>
        /\ UNCHANGED failures \/ Fail("save")
    BY <1>6 DEF InitializeCursor, SaveCursor, brokerVars
  <2>3. Unsaved' \in SUBSET Unsaved
    <3>1. received' = received /\ file' >= file /\ file' \in Int
      BY <1>2, <2>1, <2>2
    <3>2. \A id \in received : id > file' => id > file
      BY <1>2, <1>rows, <3>1
    <3>3. QED
      BY <3>1, <3>2 DEF Unsaved
  <2>4. Cardinality(Unsaved)' <= Cardinality(Unsaved) /\ Cardinality(Unsaved)' \in Nat
    BY <2>3, UnsavedFinite, FS_Subset, FS_CardinalityType
  <2>5. Causes' \in Nat /\ Causes' >= Causes
    BY <1>1, <1>3, <2>2, CauseCounted DEF Kind
  <2>6. InFlight' = InFlight /\ InFlight \in Nat
    BY <2>2 DEF InFlight
  <2>7. QED
    BY <1>1, <2>2, <2>4, <2>5, <2>6 DEF RepeatsPaid
<1>7. ASSUME pc = "send" PROVE cursor + 1 \in Nat /\ cursor + 1 > file
  BY <1>2, <1>7 DEF Inductive, CursorsReached
<1>8. CASE Publish
  <2>1. /\ pc = "send" /\ pc' = "save" /\ Receive(cursor + 1)
        /\ UNCHANGED <<file, failures>>
    BY <1>8 DEF Publish
  <2>2. repeats' + Cardinality(Unsaved)' = repeats + Cardinality(Unsaved) + 1
    BY <1>7, <2>1, ReceiveEffect
  <2>3. InFlight = 0 /\ InFlight' = 1
    BY <2>1 DEF InFlight
  <2>4. QED
    BY <1>1, <1>3, <2>1, <2>2, <2>3 DEF RepeatsPaid
<1>9. CASE PublishFails
  <2>1. pc = "send" /\ pc' = "top" /\ file' = file
    BY <1>9 DEF PublishFails, Abandon
  <2>2. InFlight = 0 /\ InFlight' = 0
    BY <2>1 DEF InFlight
  <2>3. CASE broker = "down" \/ UNCHANGED brokerVars
    <3>1. UNCHANGED <<received, repeats>>
      BY <1>9, <2>3 DEF PublishFails, brokerVars
    <3>2. Causes' \in Nat /\ Causes' >= Causes
      BY <1>1, <1>3, <1>9, CauseCounted DEF PublishFails, Kind
    <3>3. QED
      BY <2>1, <2>2, <3>1, <3>2, QuietStep
  <2>4. CASE Fail("ack") /\ Receive(cursor + 1)
    <3>1. Causes' = Causes + 1
      BY <1>1, <2>4, CauseCounted DEF Kind
    <3>2. repeats' + Cardinality(Unsaved)' = repeats + Cardinality(Unsaved) + 1
      BY <1>7, <2>1, <2>4, ReceiveEffect
    <3>3. QED
      BY <1>1, <2>2, <3>1, <3>2 DEF RepeatsPaid
  <2>5. QED
    BY <1>9, <2>3, <2>4 DEF PublishFails
<1>10. CASE Advance
  <2>1. /\ pc = "save" /\ pc' # "save" /\ UNCHANGED <<received, repeats>>
        /\ cursor + 1 \in received /\ cursor + 1 > file
    BY <1>2, <1>10 DEF Advance, brokerVars, Inductive, CursorsReached
  <2>2. InFlight = 1 /\ InFlight' = 0
    BY <2>1 DEF InFlight
  <2>3. CASE file' = cursor + 1 /\ UNCHANGED failures
    <3>1. cursor + 1 \in Unsaved
      BY <2>1 DEF Unsaved
    <3>2. Unsaved' \in SUBSET (Unsaved \ {cursor + 1})
      <4>1. received' = received /\ file' = cursor + 1 /\ file < cursor + 1
        BY <1>2, <2>1, <2>3
      <4>2. \A id \in received : id > file' => id > file /\ id # cursor + 1
        BY <1>2, <1>rows, <4>1
      <4>3. QED
        BY <4>1, <4>2 DEF Unsaved
    <3>3. /\ IsFiniteSet(Unsaved \ {cursor + 1})
          /\ Cardinality(Unsaved \ {cursor + 1}) = Cardinality(Unsaved) - 1
      BY <3>1, UnsavedFinite, FS_RemoveElement
    <3>4. Cardinality(Unsaved)' <= Cardinality(Unsaved) - 1 /\ Cardinality(Unsaved)' \in Nat
      BY <3>2, <3>3, FS_Subset, FS_CardinalityType
    <3>5. QED
      BY <1>1, <1>3, <2>1, <2>2, <2>3, <3>4 DEF RepeatsPaid
  <2>4. CASE file' = file /\ Fail("save")
    <3>1. Causes' = Causes + 1
      BY <1>1, <2>4, CauseCounted DEF Kind
    <3>2. Unsaved' = Unsaved
      BY <2>1, <2>4 DEF Unsaved
    <3>3. Cardinality(Unsaved)' = Cardinality(Unsaved)
      BY <3>2
    <3>4. QED
      BY <1>1, <2>1, <2>2, <3>1, <3>3 DEF RepeatsPaid
  <2>5. QED
    BY <1>10, <2>3, <2>4 DEF Advance, SaveCursor
<1>11. CASE Crash
  <2>1. UNCHANGED <<received, file, repeats>> /\ Fail("crash")
    BY <1>11 DEF Crash, reporterVars, brokerVars
  <2>2. Causes' = Causes + 1
    BY <1>1, <2>1, CauseCounted DEF Kind
  <2>3. Unsaved' = Unsaved
    BY <2>1 DEF Unsaved
  <2>4. Cardinality(Unsaved)' = Cardinality(Unsaved)
    BY <2>3
  <2>5. InFlight \in {0, 1} /\ InFlight' \in {0, 1}
    BY DEF InFlight
  <2>6. QED
    BY <1>1, <2>1, <2>2, <2>4, <2>5 DEF RepeatsPaid
<1>12. CASE UNCHANGED vars
  <2>1. UNCHANGED <<received, file, repeats, pc, failures>>
    BY <1>12 DEF vars, reporterVars, brokerVars
  <2>2. QED
    BY <1>1, <1>3, <2>1, QuietStep DEF InFlight
<1>13. QED
  BY <1>4, <1>5, <1>6, <1>8, <1>9, <1>10, <1>11, <1>12 DEF Next, Reporter

\* A row is reported again only for a failure that explains it, however long
\* the reporter runs (mqtt_reporterd, publish_events and save_cursor).
THEOREM RepeatsCaused == Spec => []RepeatsHaveCause
<1>1. Init => RepeatsPaid
  <2> SUFFICES ASSUME Init PROVE RepeatsPaid
    OBVIOUS
  <2>1. repeats = 0 /\ received = {} /\ pc = "down"
    BY DEF Init
  <2>2. Unsaved = {}
    BY <2>1 DEF Unsaved
  <2>3. Cardinality(Unsaved) = 0
    BY <2>2, FS_EmptySet
  <2>4. Causes \in Nat
    BY InitInductive, CausesAreNat DEF Inductive
  <2>5. QED
    BY <2>1, <2>3, <2>4 DEF RepeatsPaid, InFlight
<1>2. Inductive /\ RepeatsPaid => RepeatsHaveCause
  <2> SUFFICES ASSUME Inductive, RepeatsPaid PROVE RepeatsHaveCause
    OBVIOUS
  <2>1. Causes \in Nat /\ Cardinality(Unsaved) \in Nat /\ repeats \in Nat
    BY CausesAreNat, UnsavedFinite DEF Inductive, OtherTypes
  <2>2. CASE pc # "save"
    BY <2>1, <2>2 DEF RepeatsPaid, RepeatsHaveCause, InFlight, Causes
  <2>3. CASE pc = "save"
    <3>1. cursor + 1 \in Unsaved
      BY <2>3 DEF Inductive, CursorsReached, ReporterTypes, Unsaved
    <3>2. Cardinality(Unsaved) # 0
      BY <3>1, UnsavedFinite, FS_EmptySet
    <3>3. QED
      BY <2>1, <2>3, <3>2 DEF RepeatsPaid, RepeatsHaveCause, InFlight, Causes
  <2>4. QED
    BY <2>2, <2>3
<1>3. QED
  BY <1>1, <1>2, PaidStep, InductiveHolds, PTL DEF Spec

-----------------------------------------------------------------------------
(* Refinement.                                                             *)

\* Every step of the processes is a step of the outbox or changes nothing of it.
LEMMA StepImplementsOutbox ==
  Inductive /\ [Next]_vars => [Outbox!Next]_(Outbox!vars)
<1> SUFFICES ASSUME Inductive, [Next]_vars PROVE [Outbox!Next]_(Outbox!vars)
  OBVIOUS
<1>1. stored \in Nat /\ cursor \in Nat /\ base \in -1..stored /\ file \in Int
  BY DEF Inductive, WriterCounts, ReporterTypes, CursorsReached
<1>2. ASSUME UNCHANGED <<stored, received, base, file>> PROVE UNCHANGED Outbox!vars
  BY <1>2 DEF Outbox!vars
<1>3. CASE Commit
  <2>1. Outbox!Store
    BY <1>3 DEF Commit, Outbox!Store, reporterVars, brokerVars
  <2>2. QED
    BY <2>1 DEF Outbox!Next
<1>4. CASE \/ Record \/ InsertFails \/ CommitWaits \/ CommitTimesOut \/ WriterCrash
           \/ WriterStart \/ Outage \/ Recovery \/ Connect \/ ConnectFails
           \/ StatusFails \/ Query \/ Crash \/ UNCHANGED vars
  <2>1. UNCHANGED <<stored, received, base, file>>
    BY <1>4 DEF Record, InsertFails, CommitWaits, CommitTimesOut, WriterCrash,
       WriterStart, Outage, Recovery, Connect, ConnectFails, StatusFails, Query, Crash, vars,
       writerVars, reporterVars, brokerVars
  <2>2. QED
    BY <1>2, <2>1
<1>5. CASE Start
  <2>1. UNCHANGED <<stored, received, file>>
    BY <1>5 DEF Start, writerVars, brokerVars
  <2>2. CASE file = -1 /\ ReplayHistory
    <3>1. base' = 0 /\ base \in {-1, 0}
      BY <1>5, <2>2 DEF Start, Inductive, CursorsReached
    <3>2. Outbox!Settle
      BY <1>1, <2>1, <2>2, <3>1 DEF Outbox!Settle
    <3>3. QED
      BY <3>2 DEF Outbox!Next
  <2>3. CASE ~(file = -1 /\ ReplayHistory)
    <3>1. base' = base
      BY <1>5, <2>3 DEF Start
    <3>2. QED
      BY <1>2, <2>1, <3>1
  <2>4. QED
    BY <2>2, <2>3
<1>6. CASE InitializeCursor
  <2>1. file = -1 /\ base' = stored /\ UNCHANGED <<stored, received>>
    BY <1>6 DEF InitializeCursor, Inductive, CursorsReached, writerVars, brokerVars
  <2>2. Outbox!Settle
    BY <1>1, <2>1 DEF Outbox!Settle
  <2>3. QED
    BY <2>2 DEF Outbox!Next
<1>7. CASE Advance
  <2>1. /\ UNCHANGED <<stored, received, base>> /\ base # -1
        /\ file' \in {cursor + 1, file}
    BY <1>7, SaveEffect
    DEF Advance, Inductive, CursorsReached, Reached, writerVars, brokerVars
  <2>2. CASE file' = file
    BY <1>2, <2>1, <2>2
  <2>3. CASE file' = cursor + 1
    <3>1. Outbox!Secure
      BY <1>1, <2>1, <2>3 DEF Outbox!Secure
    <3>2. QED
      BY <3>1 DEF Outbox!Next
  <2>4. QED
    BY <2>1, <2>2, <2>3
<1>8. ASSUME pc = "send", Receive(cursor + 1), UNCHANGED <<stored, base, file>>
      PROVE  Outbox!Next
  <2>1. /\ base # -1 /\ cursor \in base..stored /\ cursor + 1 \in 1..stored
        /\ \A id \in (base + 1)..cursor : id \in received
    BY <1>1, <1>8 DEF Inductive, CursorsReached, Reached, ReporterTypes
  <2>2. Outbox!Deliver(cursor + 1)
    BY <1>1, <1>8, <2>1 DEF Outbox!Deliver, Receive
  <2>3. QED
    BY <2>1, <2>2 DEF Outbox!Next
<1>9. CASE Publish
  BY <1>8, <1>9 DEF Publish, writerVars
<1>10. CASE PublishFails
  <2>1. pc = "send" /\ UNCHANGED <<stored, base, file>>
    BY <1>10 DEF PublishFails, Abandon, writerVars
  <2>2. CASE Receive(cursor + 1)
    BY <1>8, <2>1, <2>2
  <2>3. CASE UNCHANGED brokerVars
    BY <1>2, <2>1, <2>3 DEF brokerVars
  <2>4. QED
    BY <1>10, <2>2, <2>3 DEF PublishFails
<1>11. QED
  BY <1>3, <1>4, <1>5, <1>6, <1>7, <1>9, <1>10 DEF Next, Writer, Reporter

\* The two processes implement the outbox: the event topic follows the table in
\* order and without a gap, whatever crashes, is lost or answers late.
THEOREM ImplementsOutbox == Spec => ReportsInOrder
<1>1. Init => Outbox!Init
  BY DEF Init, Outbox!Init
<1>2. QED
  BY <1>1, StepImplementsOutbox, InductiveHolds, PTL DEF Spec, Outbox!Spec, ReportsInOrder

-----------------------------------------------------------------------------
(* The reporter's connections.                                             *)

\* A reporter that counts as connected is: the broker has its connection, and "online".
Held == pc # "down" /\ connected => session /\ availability = "online"

\* "online" will be taken back by the will, or it was left by a DISCONNECT.
Grounded == availability = "online" => session \/ withdrawn

PresenceTypes ==
  /\ session \in BOOLEAN /\ availability \in {"none", "online", "offline"}
  /\ withdrawn \in BOOLEAN

PresenceInv == Held /\ Grounded

-----------------------------------------------------------------------------

\* Each step is one of EventReporting, or none there.
LEMMA PresenceSteps ==
  ASSUME [PresenceNext]_<<vars, presence>>
  PROVE  [Next]_vars
<1>1. CASE Arrive \/ Refuse \/ Stop \/ Kill
  BY <1>1 DEF Arrive, Refuse, Stop, Kill, Next, Reporter
<1>2. CASE BreakOff
  BY <1>2 DEF BreakOff, Next, Reporter
<1>3. CASE Others
  BY <1>3 DEF Others, Next, Reporter
<1>4. CASE WillSent \/ UNCHANGED <<vars, presence>>
  BY <1>4 DEF WillSent
<1>5. QED
  BY <1>1, <1>2, <1>3, <1>4 DEF PresenceNext

\* The composed system is an execution of EventReporting: what is proved of Spec holds.
THEOREM PresenceImplementsReporting == PresenceSpec => Spec
<1>1. PresenceInit => Init
  BY DEF PresenceInit
<1>2. QED
  BY <1>1, PresenceSteps, PTL DEF PresenceSpec, Spec

\* The types of what the broker holds.
LEMMA PresenceTypesKept ==
  ASSUME PresenceTypes, [PresenceNext]_<<vars, presence>>
  PROVE  PresenceTypes'
<1>1. CASE Arrive
  BY <1>1 DEF Arrive, PresenceTypes
<1>2. CASE Refuse
  BY <1>2 DEF Refuse, Overdue, PresenceTypes
<1>3. CASE BreakOff
  BY <1>3 DEF BreakOff, PresenceTypes
<1>4. CASE Stop
  BY <1>4 DEF Stop, presence, PresenceTypes
<1>5. CASE WillSent
  BY <1>5 DEF WillSent, PresenceTypes
<1>6. CASE Kill \/ Others \/ UNCHANGED <<vars, presence>>
  BY <1>6 DEF Kill, Others, presence, PresenceTypes
<1>7. QED
  BY <1>1, <1>2, <1>3, <1>4, <1>5, <1>6 DEF PresenceNext

\* Every variable keeps its type, for every batch size, policy and bound.
THEOREM PresenceTypesHold == PresenceSpec => []PresenceTypeOK
<1>1. PresenceInit => PresenceTypes
  BY DEF PresenceInit, PresenceTypes
<1>2. PresenceSpec => []PresenceTypes
  BY <1>1, PresenceTypesKept, PTL DEF PresenceSpec
<1>3. TypeOK /\ PresenceTypes => PresenceTypeOK
  BY DEF PresenceTypes, PresenceTypeOK
<1>4. QED
  BY <1>2, <1>3, PresenceImplementsReporting, TypeCorrect, PTL

-----------------------------------------------------------------------------

\* The writer, the network and the reporter's work on its rows keep the connection.
LEMMA OthersKeep ==
  ASSUME PresenceInv, Others
  PROVE  PresenceInv'
<1>1. UNCHANGED <<session, availability, withdrawn>>
  BY DEF Others, presence
<1>2. CASE Writer \/ Outage \/ Recovery
  <2>1. UNCHANGED <<pc, connected>>
    BY <1>2 DEF Writer, Record, InsertFails, Commit, CommitWaits, CommitTimesOut,
       WriterCrash, WriterStart, Outage, Recovery, reporterVars
  <2>2. QED
    BY <1>1, <2>1 DEF PresenceInv, Held, Grounded
<1>3. CASE Start
  BY <1>1, <1>3 DEF Start, PresenceInv, Held, Grounded
<1>4. CASE InitializeCursor \/ Query \/ Publish \/ Advance
  <2>1. pc # "down" /\ connected' = connected
    BY <1>4 DEF InitializeCursor, Query, Publish, Advance
  <2>2. QED
    BY <1>1, <2>1 DEF PresenceInv, Held, Grounded
<1>5. QED
  BY <1>2, <1>3, <1>4 DEF Others

\* A reporter that is connected is said to be online; and where "online" stands without
\* it, either the will is still to come, or the latest connection ended with a DISCONNECT
\* after a failed publication, which deleted the will and left the message.
THEOREM OnlineIsGrounded == PresenceSpec => []PresenceInv
<1>1. PresenceInit => PresenceInv
  BY DEF PresenceInit, Init, PresenceInv, Held, Grounded
<1>2. ASSUME PresenceInv, [PresenceNext]_<<vars, presence>> PROVE PresenceInv'
  <2>1. CASE Arrive
    BY <2>1 DEF Arrive, PresenceInv, Held, Grounded
  <2>2. CASE Refuse
    BY <2>2 DEF Refuse, ConnectFails, Overdue, reporterVars, PresenceInv, Held, Grounded
  <2>3. CASE BreakOff
    <3>1. ~connected'
      BY <2>3 DEF BreakOff, StatusFails, PublishFails, Abandon
    <3>2. QED
      BY <1>2, <2>3, <3>1 DEF BreakOff, PresenceInv, Held, Grounded
  <2>4. CASE Stop
    BY <1>2, <2>4 DEF Stop, Crash, presence, PresenceInv, Held, Grounded
  <2>5. CASE Kill
    BY <1>2, <2>5 DEF Kill, Crash, presence, PresenceInv, Held, Grounded
  <2>6. CASE WillSent
    BY <1>2, <2>6 DEF WillSent, vars, reporterVars, PresenceInv, Held, Grounded
  <2>7. CASE Others
    BY <1>2, <2>7, OthersKeep
  <2>8. CASE UNCHANGED <<vars, presence>>
    BY <1>2, <2>8 DEF vars, reporterVars, presence, PresenceInv, Held, Grounded
  <2>9. QED
    BY <1>2, <2>1, <2>2, <2>3, <2>4, <2>5, <2>6, <2>7, <2>8 DEF PresenceNext
<1>3. QED
  BY <1>1, <1>2, PTL DEF PresenceSpec
=============================================================================

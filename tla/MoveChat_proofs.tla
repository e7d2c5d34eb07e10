----------------------------- MODULE MoveChat_proofs -----------------------------
(***************************************************************************)
(* Theorems about MoveChat, for any projects, request ids, sentences and   *)
(* providers, and any number of breaks.                                    *)
(***************************************************************************)
EXTENDS MoveChat, FiniteSetTheorems, TLAPS

-------------------------------------------------------------------------------
Contents == UNION Moves
RowsOf == [status : {"queued"} \cup InFlight \cup Terminal, move : Moves \cup {NoMove}]
Commits == [at : {"dispatch"}, key : Keys, move : Moves]
Offers == [key : Keys, move : Moves \cup {NoMove}]
Reports == [says : InFlight \cup Terminal, key : Keys, rejected : BOOLEAN]

TypeInv ==
  /\ rows \in [Keys -> SUBSET RowsOf]
  /\ handling \in {Idle} \cup Commits
  /\ offers \subseteq Offers /\ working \subseteq Offers
  /\ reports \in Seq(Reports)
  /\ journal \in [Keys -> {"none"} \cup Terminal]
  /\ promised \in [Keys -> SUBSET Contents] /\ carried \in [Keys -> SUBSET Contents]
  /\ told \subseteq Keys

(* A key has one record at most, and the worker one job. *)
SingleInv ==
  /\ \A k \in Keys : \A r, s \in rows[k] : r = s
  /\ \A a, b \in working : a = b

Recorded(key, move) == \E row \in rows[key] : row.move = move

(* While the database is there: whatever is on its way to the worker, on its *)
(* way back, being handled, promised or done is what the record says, and no *)
(* record is one that was adopted.                                           *)
MoveInv ==
  ~lost =>
    /\ \A offer \in offers \cup working : Recorded(offer.key, offer.move)
    /\ \A n \in 1 .. Len(reports) : rows[reports[n].key] # NoRow
    /\ handling # Idle => Recorded(handling.key, handling.move)
    /\ \A k \in Keys : \A row \in rows[k] : row.move \in Moves
    /\ \A k \in Keys : \A a \in promised[k] \cup carried[k] : \E row \in rows[k] : a \in row.move

(* Success is in the worker's journal before it is reported, recorded, told. *)
JournalInv ==
  /\ \A k \in Keys : \A row \in rows[k] : row.status = "succeeded" => journal[k] = "succeeded"
  /\ \A n \in 1 .. Len(reports) :
       reports[n].says = "succeeded" => journal[reports[n].key] = "succeeded"
  /\ ToldAsItIs

IndInv == TypeInv /\ SingleInv /\ MoveInv /\ JournalInv

-------------------------------------------------------------------------------
LEMMA InitInv == Init => IndInv
<1> SUFFICES ASSUME Init PROVE IndInv
  OBVIOUS
<1>1. TypeInv
  <2>1. rows \in [Keys -> SUBSET RowsOf]
    BY DEF Init, NoRow
  <2>2. journal \in [Keys -> {"none"} \cup Terminal]
    BY DEF Init
  <2>3. promised \in [Keys -> SUBSET Contents] /\ carried \in [Keys -> SUBSET Contents]
    BY DEF Init
  <2>4. reports \in Seq(Reports)
    BY DEF Init
  <2> QED  BY <2>1, <2>2, <2>3, <2>4 DEF Init, TypeInv
<1>2. SingleInv /\ MoveInv /\ JournalInv
  BY DEF Init, SingleInv, MoveInv, JournalInv, ToldAsItIs, NoRow
<1> QED  BY <1>1, <1>2 DEF IndInv

LEMMA NextCases ==
  ASSUME [Next]_vars
  PROVE  \/ UNCHANGED vars
         \/ \E key \in Keys, move \in Moves : ReportExisting(key, move) \/ Submit(key, move)
         \/ NoWorkerReady \/ OfferRecorded \/ Observe
         \/ \E key \in (Projects \cup {Elsewhere}) \X Requests : ReadJob(key)
         \/ \E offer \in offers \cup working : Take(offer) \/ CarryOut(offer)
         \/ Connect \/ LinkBreaks \/ RestartControlPlane
BY DEF Next, Chat, NotUnderstood, WrongProject, Refuse, Dispatch, WorkerStep

LEMMA MovesAreOne == \A move \in Moves : \E c : move = {c}
BY DEF Moves

(* What an observed report does to the records. *)
LEMMA ReconciledRows ==
  ASSUME TypeInv, SingleInv, NEW report \in Reports
  PROVE  \/ Reconciled(report) = rows
         \/ /\ rows[report.key] = NoRow /\ report.says \in Terminal
            /\ Reconciled(report) = Saved(report.key, Row(report.says, NoMove))
         \/ \E row \in rows[report.key] :
              Reconciled(report) = Saved(report.key, [row EXCEPT !.status = report.says])
<1> DEFINE found == Locate(report)
<1>0. report.key \in Keys
  BY DEF Reports
<1>1. CASE rows[report.key] = NoRow
  <2>1. found = {}
    BY <1>0, <1>1 DEF Locate
  <2> QED  BY <1>1, <2>1 DEF Reconciled
<1>2. CASE rows[report.key] # NoRow
  <2>1. found = {report.key}
    BY <1>2 DEF Locate
  <2>2. (CHOOSE k \in found : TRUE) = report.key
    BY <2>1
  <2>3. (CHOOSE r \in rows[report.key] : TRUE) \in rows[report.key]
    BY <1>2 DEF NoRow
  <2> QED  BY <2>1, <2>2, <2>3 DEF Reconciled
<1> QED  BY <1>1, <1>2

LEMMA ObservedReport ==
  ASSUME TypeInv, Observe
  PROVE  /\ Head(reports) \in Reports /\ rows' = Reconciled(Head(reports))
         /\ 1 \in 1 .. Len(reports) /\ Head(reports) = reports[1]
         /\ reports' = Tail(reports) /\ reports' \in Seq(Reports)
         /\ \A n \in 1 .. Len(reports') : n + 1 \in 1 .. Len(reports) /\ reports'[n] = reports[n + 1]
<1>1. reports \in Seq(Reports) /\ reports # <<>>
  BY DEF TypeInv, Observe
<1> QED  BY <1>1 DEF Observe

(* What a cut leaves of the offers and the reports. *)
LEMMA CutLeaves ==
  ASSUME TypeInv, Cut
  PROVE  /\ offers' \subseteq offers /\ working' = working /\ journal' = journal
         /\ reports' \in Seq(Reports)
         /\ \A n \in 1 .. Len(reports') : \E m \in 1 .. Len(reports) : reports'[n] = reports[m]
<1>1. offers' \subseteq offers /\ working' = working /\ journal' = journal
  BY DEF Cut
<1>2. CASE reports' = <<>>
  BY <1>1, <1>2
<1>3. ASSUME NEW m \in DOMAIN reports, reports' = <<reports[m]>>
      PROVE  /\ reports' \in Seq(Reports)
             /\ \A n \in 1 .. Len(reports') : \E i \in 1 .. Len(reports) : reports'[n] = reports[i]
  <2>1. m \in 1 .. Len(reports) /\ reports[m] \in Reports
    BY DEF TypeInv
  <2> QED  BY <1>3, <2>1
<1> QED  BY <1>1, <1>2, <1>3 DEF Cut

-------------------------------------------------------------------------------
LEMMA TypeStep ==
  ASSUME TypeInv, SingleInv, [Next]_vars
  PROVE  TypeInv'
<1> USE DEF TypeInv
<1>0. CASE UNCHANGED vars
  BY <1>0 DEF vars, api, link, worker, history
<1>1. ASSUME NEW key \in Keys, NEW move \in Moves, ReportExisting(key, move)
      PROVE  TypeInv'
  <2>1. move \subseteq Contents
    BY DEF Contents
  <2>2. promised' \in [Keys -> SUBSET Contents]
    BY <1>1, <2>1 DEF ReportExisting
  <2>3. told' \subseteq Keys
    BY <1>1 DEF ReportExisting, Answer
  <2> QED  BY <1>1, <2>2, <2>3 DEF ReportExisting, api, worker
<1>2. ASSUME NEW key \in Keys, NEW move \in Moves, Submit(key, move)
      PROVE  TypeInv'
  <2>1. Row("queued", move) \in RowsOf
    BY DEF Row, RowsOf
  <2>2. rows' \in [Keys -> SUBSET RowsOf]
    BY <1>2, <2>1 DEF Submit, Saved
  <2>3. handling' \in Commits
    BY <1>2 DEF Submit, Commits
  <2> QED  BY <1>2, <2>2, <2>3 DEF Submit, worker, history
<1>3. CASE NoWorkerReady
  BY <1>3 DEF NoWorkerReady, worker, history
<1>4. CASE OfferRecorded
  <2>1. handling \in Commits
    BY <1>4 DEF OfferRecorded, Idle
  <2>2. handling.key \in Keys /\ handling.move \subseteq Contents
    BY <2>1 DEF Commits, Contents
  <2>3. \A row \in rows[handling.key] : [key |-> handling.key, move |-> row.move] \in Offers
    BY <2>2 DEF RowsOf, Offers
  <2>4. offers' \subseteq Offers
    BY <1>4, <2>3 DEF OfferRecorded
  <2>5. promised' \in [Keys -> SUBSET Contents]
    BY <1>4, <2>2 DEF OfferRecorded
  <2> QED  BY <1>4, <2>4, <2>5 DEF OfferRecorded
<1>5. CASE Observe
  <2>1. Head(reports) \in Reports /\ rows' = Reconciled(Head(reports)) /\ reports' \in Seq(Reports)
    BY <1>5, ObservedReport
  <2> DEFINE report == Head(reports)
  <2>2. report.key \in Keys /\ report.says \in InFlight \cup Terminal
    BY <2>1 DEF Reports
  <2>3. report.says \in Terminal => Row(report.says, NoMove) \in RowsOf
    BY DEF Row, RowsOf
  <2>4. \A row \in rows[report.key] : [row EXCEPT !.status = report.says] \in RowsOf
    BY <2>2 DEF RowsOf
  <2>5. rows' \in [Keys -> SUBSET RowsOf]
    BY <2>1, <2>2, <2>3, <2>4, ReconciledRows DEF Saved
  <2> QED  BY <1>5, <2>1, <2>5 DEF Observe, history
<1>6. ASSUME NEW key \in (Projects \cup {Elsewhere}) \X Requests, ReadJob(key)
      PROVE  TypeInv'
  <2>1. key \in Keys \/ Ended(key) = {}
    BY DEF Ended, Found, NoRow
  <2> QED  BY <1>6, <2>1 DEF ReadJob, Answer, api, worker
<1>7. ASSUME NEW offer \in offers \cup working, Take(offer)
      PROVE  TypeInv'
  <2>1. offer \in Offers /\ offer.key \in Keys
    BY DEF Offers
  <2>2. /\ Report("claimed", offer.key) \in Reports /\ Report("running", offer.key) \in Reports
        /\ Rejection(offer.key) \in Reports
    BY <2>1 DEF Report, Rejection, Reports, InFlight, Terminal
  <2>3. reports' \in Seq(Reports)
    <3>1. \A r, s \in Reports : <<r>> \in Seq(Reports) /\ <<r, s>> \in Seq(Reports)
      OBVIOUS
    <3>2. \/ reports' = <<Report("claimed", offer.key)>>
          \/ reports' = <<Report("claimed", offer.key), Report("running", offer.key)>>
          \/ reports' = <<Rejection(offer.key)>>
      BY <1>7 DEF Take
    <3> QED  BY <2>2, <3>1, <3>2
  <2>4. working' \subseteq Offers /\ offers' \subseteq Offers
    BY <1>7, <2>1 DEF Take
  <2> QED  BY <1>7, <2>3, <2>4 DEF Take, api, history
<1>8. ASSUME NEW offer \in offers \cup working, CarryOut(offer)
      PROVE  TypeInv'
  <2>1. offer \in Offers /\ offer.key \in Keys /\ offer.move \subseteq Contents
    BY DEF Offers, Contents, NoMove
  <2>2. \A end \in Terminal : Report(end, offer.key) \in Reports
    BY <2>1 DEF Report, Reports
  <2>3. reports' \in Seq(Reports)
    <3>1. \A r \in Reports : Append(reports, r) \in Seq(Reports)
      OBVIOUS
    <3>2. \E end \in Terminal : reports' = Append(reports, Report(end, offer.key))
      BY <1>8 DEF CarryOut, Terminal
    <3> QED  BY <2>2, <3>1, <3>2
  <2>4. journal' \in [Keys -> {"none"} \cup Terminal]
    BY <1>8 DEF CarryOut
  <2>5. carried' \in [Keys -> SUBSET Contents]
    BY <1>8, <2>1 DEF CarryOut
  <2>6. working' \subseteq Offers
    BY <1>8 DEF CarryOut
  <2> QED  BY <1>8, <2>3, <2>4, <2>5, <2>6 DEF CarryOut, api
<1>9. CASE Connect
  BY <1>9 DEF Connect, api, worker, history
<1>10. CASE LinkBreaks
  BY <1>10, CutLeaves DEF LinkBreaks, api, history
<1>11. CASE RestartControlPlane
  <2>1. rows' \in [Keys -> SUBSET RowsOf]
    BY <1>11 DEF RestartControlPlane, NoRow
  <2> QED  BY <1>11, <2>1, CutLeaves DEF RestartControlPlane, history
<1> QED
  BY <1>0, <1>1, <1>2, <1>3, <1>4, <1>5, <1>6, <1>7, <1>8, <1>9, <1>10, <1>11, NextCases

LEMMA SingleStep ==
  ASSUME TypeInv, SingleInv, [Next]_vars
  PROVE  SingleInv'
<1> USE DEF SingleInv
<1>1. \A k \in Keys : \A r, s \in rows'[k] : r = s
  <2>1. ASSUME NEW key \in Keys, NEW move \in Moves, Submit(key, move)
        PROVE  \A k \in Keys : \A r, s \in rows'[k] : r = s
    BY <2>1 DEF Submit, Saved, TypeInv
  <2>2. CASE Observe
    <3> DEFINE report == Head(reports)
    <3>1. report \in Reports /\ rows' = Reconciled(report)
      BY <2>2, ObservedReport
    <3> HIDE DEF report
    <3>2. rows' = rows \/ \E new : rows' = Saved(report.key, new)
      BY <3>1, ReconciledRows
    <3> QED  BY <3>2 DEF Saved, TypeInv
  <2>3. CASE RestartControlPlane
    BY <2>3 DEF RestartControlPlane, NoRow
  <2>4. CASE UNCHANGED rows
    BY <2>4
  <2> QED
    BY <2>1, <2>2, <2>3, <2>4, NextCases
    DEF vars, api, ReportExisting, NoWorkerReady, OfferRecorded, ReadJob, Take, CarryOut,
        Connect, LinkBreaks
<1>2. \A a, b \in working' : a = b
  BY NextCases DEF vars, worker, ReportExisting, Submit, NoWorkerReady, OfferRecorded, Observe,
     ReadJob, Take, CarryOut, Connect, LinkBreaks, RestartControlPlane, Cut
<1> QED  BY <1>1, <1>2

(* As long as the database is there, a record stays, with its move. *)
LEMMA RecordsKeepMoves ==
  ASSUME TypeInv, SingleInv, MoveInv, [Next]_vars, ~lost'
  PROVE  /\ ~lost
         /\ \A k \in Keys : \A row \in rows[k] : Recorded(k, row.move)'
         /\ \A k \in Keys : \A row \in rows'[k] : row.move \in Moves
<1>1. ~lost
  BY NextCases DEF vars, api, ReportExisting, Submit, NoWorkerReady, OfferRecorded, Observe,
     ReadJob, Take, CarryOut, Connect, LinkBreaks, RestartControlPlane
<1>2. ASSUME NEW key \in Keys, NEW move \in Moves, Submit(key, move)
      PROVE  /\ \A k \in Keys : \A row \in rows[k] : Recorded(k, row.move)'
             /\ \A k \in Keys : \A row \in rows'[k] : row.move \in Moves
  BY <1>1, <1>2 DEF Submit, Saved, Row, NoRow, TypeInv, MoveInv, Recorded
<1>3. CASE Observe
  <2> DEFINE report == Head(reports)
  <2>1. report \in Reports /\ rows' = Reconciled(report) /\ rows[report.key] # NoRow
    BY <1>1, <1>3, ObservedReport DEF MoveInv
  <2>2. report.key \in Keys
    BY <2>1 DEF Reports
  <2> HIDE DEF report
  <2>3. CASE rows' = rows
    BY <1>1, <2>3 DEF Recorded, MoveInv
  <2>4. CASE rows' # rows
    <3>0. PICK row \in rows[report.key] : rows' = Saved(report.key, [row EXCEPT !.status = report.says])
      BY <2>1, <2>4, ReconciledRows
    <3> DEFINE new == [row EXCEPT !.status = report.says]
    <3>1. new.move = row.move
      BY <2>2 DEF TypeInv, RowsOf
    <3>2. rows' = [rows EXCEPT ![report.key] = {new}]
      BY <3>0 DEF Saved
    <3> HIDE DEF new
    <3>3. \A k \in Keys : rows'[k] = IF k = report.key THEN {new} ELSE rows[k]
      BY <2>2, <3>2 DEF TypeInv
    <3>4. row.move \in Moves
      BY <1>1, <2>2 DEF MoveInv
    <3>5. \A r \in rows[report.key] : r = row
      BY <2>2 DEF SingleInv
    <3>6. \A k \in Keys : \A r \in rows[k] : Recorded(k, r.move)'
      BY <3>1, <3>3, <3>5 DEF Recorded
    <3>7. \A k \in Keys : \A r \in rows'[k] : r.move \in Moves
      BY <1>1, <3>1, <3>3, <3>4 DEF MoveInv
    <3> QED  BY <1>1, <3>6, <3>7
  <2> QED  BY <2>3, <2>4
<1>4. CASE UNCHANGED rows
  BY <1>1, <1>4 DEF Recorded, MoveInv
<1>5. \/ \E key \in Keys, move \in Moves : Submit(key, move)
      \/ Observe \/ UNCHANGED rows
  BY NextCases DEF vars, api, ReportExisting, NoWorkerReady, OfferRecorded, ReadJob, Take,
     CarryOut, Connect, LinkBreaks, RestartControlPlane
<1> QED  BY <1>1, <1>2, <1>3, <1>4, <1>5

LEMMA MoveStep ==
  ASSUME TypeInv, SingleInv, MoveInv, TypeInv', SingleInv', [Next]_vars
  PROVE  MoveInv'
<1> SUFFICES ASSUME ~lost'
             PROVE  /\ \A offer \in offers' \cup working' : Recorded(offer.key, offer.move)'
                    /\ \A n \in 1 .. Len(reports') : rows'[reports'[n].key] # NoRow
                    /\ handling' # Idle => Recorded(handling.key, handling.move)'
                    /\ \A k \in Keys : \A row \in rows'[k] : row.move \in Moves
                    /\ \A k \in Keys : \A a \in promised'[k] \cup carried'[k] :
                         \E row \in rows'[k] : a \in row.move
  BY DEF MoveInv
<1>0. /\ ~lost
      /\ \A k \in Keys : \A row \in rows[k] : Recorded(k, row.move)'
      /\ \A k \in Keys : \A row \in rows'[k] : row.move \in Moves
  BY RecordsKeepMoves
<1>1. \A k \in Keys : \A move : Recorded(k, move) => Recorded(k, move)'
  BY <1>0 DEF Recorded
<1>2. \A offer \in offers' \cup working' : Recorded(offer.key, offer.move)'
  <2>1. \A offer \in offers \cup working : offer.key \in Keys /\ Recorded(offer.key, offer.move)'
    BY <1>0, <1>1 DEF MoveInv, TypeInv, Offers
  <2>2. CASE OfferRecorded
    <3>1. handling \in Commits /\ handling.key \in Keys
      BY <2>2 DEF OfferRecorded, Idle, TypeInv, Commits
    <3>2. \A offer \in offers' : \/ offer \in offers
                                 \/ \E row \in rows[handling.key] :
                                      offer = [key |-> handling.key, move |-> row.move]
      BY <2>2 DEF OfferRecorded
    <3>3. \A offer \in offers' : offer \in offers \/ Recorded(offer.key, offer.move)'
      BY <1>0, <3>1, <3>2
    <3> QED  BY <2>1, <2>2, <3>3 DEF OfferRecorded
  <2>3. CASE offers' \cup working' \subseteq offers \cup working
    BY <2>1, <2>3
  <2>4. OfferRecorded \/ offers' \cup working' \subseteq offers \cup working
    BY NextCases, CutLeaves DEF vars, worker, ReportExisting, Submit, NoWorkerReady, Observe,
       ReadJob, Take, CarryOut, Connect, LinkBreaks, RestartControlPlane
  <2> QED  BY <2>2, <2>3, <2>4
<1>3. \A n \in 1 .. Len(reports') : rows'[reports'[n].key] # NoRow
  <2>1. \A k \in Keys : rows[k] # NoRow => rows'[k] # NoRow
    BY <1>0 DEF NoRow, Recorded
  <2>2. \A n \in 1 .. Len(reports) :
          reports[n].key \in Keys /\ rows'[reports[n].key] # NoRow
    <3>1. \A n \in 1 .. Len(reports) : reports[n] \in Reports
      BY DEF TypeInv
    <3>2. \A r \in Reports : r.key \in Keys
      BY DEF Reports
    <3> QED  BY <1>0, <2>1, <3>1, <3>2 DEF MoveInv
  <2>3. CASE Observe
    BY <2>2, <2>3, ObservedReport
  <2>4. ASSUME NEW offer \in offers \cup working, Take(offer) \/ CarryOut(offer)
        PROVE  \A n \in 1 .. Len(reports') : rows'[reports'[n].key] # NoRow
    <3>1. offer.key \in Keys /\ rows'[offer.key] # NoRow
      BY <1>0, <2>1 DEF MoveInv, TypeInv, Offers, Recorded, NoRow
    <3>2. \A r \in {Report("claimed", offer.key), Report("running", offer.key),
                    Report("succeeded", offer.key), Report("failed", offer.key),
                    Rejection(offer.key)} : r.key = offer.key
      BY DEF Report, Rejection
    <3>3. \A n \in 1 .. Len(reports') :
            \/ reports'[n].key = offer.key
            \/ n \in 1 .. Len(reports) /\ reports'[n] = reports[n]
      <4>1. CASE Take(offer)
        <5>1. \A r, t : (\A n \in 1 .. Len(<<r>>) : <<r>>[n] = r)
                      /\ \A n \in 1 .. Len(<<r, t>>) : <<r, t>>[n] = r \/ <<r, t>>[n] = t
          OBVIOUS
        <5>2. \/ reports' = <<Report("claimed", offer.key)>>
              \/ reports' = <<Report("claimed", offer.key), Report("running", offer.key)>>
              \/ reports' = <<Rejection(offer.key)>>
          BY <4>1 DEF Take
        <5>3. \A n \in 1 .. Len(reports') :
                reports'[n] \in {Report("claimed", offer.key), Report("running", offer.key),
                                 Rejection(offer.key)}
          BY <5>1, <5>2
        <5> QED  BY <3>2, <5>3
      <4>2. CASE CarryOut(offer)
        <5>1. PICK end \in Terminal : reports' = Append(reports, Report(end, offer.key))
          BY <4>2 DEF CarryOut, Terminal
        <5>2. Report(end, offer.key).key = offer.key
          BY DEF Report
        <5>3. \A n \in 1 .. Len(reports') :
                \/ reports'[n] = Report(end, offer.key)
                \/ n \in 1 .. Len(reports) /\ reports'[n] = reports[n]
          <6>1. \A r : \A n \in 1 .. Len(Append(reports, r)) :
                  \/ Append(reports, r)[n] = r
                  \/ n \in 1 .. Len(reports) /\ Append(reports, r)[n] = reports[n]
            BY DEF TypeInv
          <6> QED  BY <5>1, <6>1
        <5> QED  BY <5>2, <5>3
      <4> QED  BY <2>4, <4>1, <4>2
    <3> QED  BY <2>2, <3>1, <3>3
  <2>5. CASE Cut
    BY <2>2, <2>5, CutLeaves
  <2>6. CASE UNCHANGED reports
    BY <2>2, <2>6
  <2> QED
    BY <2>3, <2>4, <2>5, <2>6, NextCases
    DEF vars, worker, ReportExisting, Submit, NoWorkerReady, OfferRecorded, ReadJob, Connect,
        LinkBreaks, RestartControlPlane
<1>4. handling' # Idle => Recorded(handling.key, handling.move)'
  <2>1. ASSUME NEW key \in Keys, NEW move \in Moves, Submit(key, move)
        PROVE  handling' # Idle => Recorded(handling.key, handling.move)'
    <3>1. handling'.key = key /\ handling'.move = move
      BY <2>1 DEF Submit
    <3>2. CASE rows[key] = NoRow
      <4>1. rows'[key] = {Row("queued", move)}
        BY <2>1, <3>2 DEF Submit, Saved, TypeInv
      <4> QED  BY <3>1, <4>1 DEF Recorded, Row
    <3>3. CASE rows[key] # NoRow
      <4>1. PICK row \in rows[key] : ~Conflict(row, move)
        BY <2>1, <3>3 DEF Submit, NoRow
      <4>2. row.move = move
        BY <1>0, <4>1, MovesAreOne DEF Conflict, NoMove, MoveInv
      <4>3. row \in rows'[key]
        BY <2>1, <3>3, <4>1 DEF Submit
      <4> QED  BY <3>1, <4>2, <4>3 DEF Recorded
    <3> QED  BY <3>2, <3>3
  <2>2. CASE UNCHANGED handling
    <3> SUFFICES ASSUME handling # Idle
                 PROVE  Recorded(handling.key, handling.move)'
      BY <2>2
    <3>1. handling \in Commits /\ handling.key \in Keys
      BY DEF TypeInv, Commits
    <3>2. Recorded(handling.key, handling.move)
      BY <1>0 DEF MoveInv
    <3>3. PICK row \in rows'[handling.key] : row.move = handling.move
      BY <1>1, <3>1, <3>2 DEF Recorded
    <3> QED  BY <2>2, <3>3 DEF Recorded
  <2> QED
    BY <2>1, <2>2, NextCases
    DEF vars, api, ReportExisting, NoWorkerReady, OfferRecorded, Observe, ReadJob, Take,
        CarryOut, Connect, LinkBreaks, RestartControlPlane
<1>5. \A k \in Keys : \A a \in promised'[k] \cup carried'[k] : \E row \in rows'[k] : a \in row.move
  <2>1. \A k \in Keys : \A a \in promised[k] \cup carried[k] : \E row \in rows'[k] : a \in row.move
    BY <1>0 DEF MoveInv, Recorded
  <2>2. ASSUME NEW key \in Keys, NEW move \in Moves, ReportExisting(key, move)
        PROVE  \A k \in Keys : \A a \in promised'[k] \cup carried'[k] :
                 \E row \in rows'[k] : a \in row.move
    <3>1. PICK row \in rows[key] : \/ promised' = promised
                                   \/ /\ ~Conflict(row, move)
                                      /\ promised' = [promised EXCEPT ![key] = @ \cup move]
      BY <2>2 DEF ReportExisting
    <3>2. ~Conflict(row, move) => row.move = move
      BY <1>0, MovesAreOne DEF Conflict, NoMove, MoveInv
    <3>3. carried' = carried /\ rows' = rows
      BY <2>2 DEF ReportExisting, api
    <3>4. \A a \in promised'[key] : a \in promised[key] \/ a \in row.move
      BY <3>1, <3>2 DEF TypeInv
    <3>5. \A k \in Keys : k # key => promised'[k] = promised[k]
      BY <3>1 DEF TypeInv
    <3> QED  BY <2>1, <3>3, <3>4, <3>5
  <2>3. CASE OfferRecorded
    <3>1. handling \in Commits /\ handling.key \in Keys /\ Recorded(handling.key, handling.move)
      BY <1>0, <2>3 DEF OfferRecorded, Idle, TypeInv, Commits, MoveInv
    <3>2. /\ promised' = [promised EXCEPT ![handling.key] = @ \cup handling.move]
          /\ carried' = carried /\ rows' = rows
      BY <2>3 DEF OfferRecorded
    <3> QED  BY <2>1, <3>1, <3>2 DEF TypeInv, Recorded
  <2>4. ASSUME NEW offer \in offers \cup working, CarryOut(offer)
        PROVE  \A k \in Keys : \A a \in promised'[k] \cup carried'[k] :
                 \E row \in rows'[k] : a \in row.move
    <3>1. offer.key \in Keys /\ Recorded(offer.key, offer.move)
      BY <1>0 DEF MoveInv, TypeInv, Offers
    <3>2. /\ promised' = promised /\ rows' = rows
          /\ \/ carried' = [carried EXCEPT ![offer.key] = @ \cup offer.move]
             \/ carried' = carried
      BY <2>4 DEF CarryOut, api
    <3> QED  BY <2>1, <3>1, <3>2 DEF TypeInv, Recorded
  <2>5. CASE UNCHANGED <<promised, carried>>
    BY <2>1, <2>5
  <2> QED
    BY <2>2, <2>3, <2>4, <2>5, NextCases
    DEF vars, history, Submit, NoWorkerReady, Observe, ReadJob, Take, Connect, LinkBreaks,
        RestartControlPlane
<1> QED  BY <1>0, <1>2, <1>3, <1>4, <1>5

-------------------------------------------------------------------------------
(* What the journal holds as done stays done. *)
LEMMA SuccessStays ==
  ASSUME TypeInv, [Next]_vars, NEW k \in Keys, journal[k] = "succeeded"
  PROVE  journal'[k] = "succeeded"
<1>1. ASSUME NEW offer \in offers \cup working, CarryOut(offer)
      PROVE  journal'[k] = "succeeded"
  BY <1>1 DEF CarryOut, TypeInv
<1>2. CASE UNCHANGED journal
  BY <1>2
<1> QED
  BY <1>1, <1>2, NextCases
  DEF vars, worker, ReportExisting, Submit, NoWorkerReady, OfferRecorded, Observe, ReadJob,
      Take, Connect, LinkBreaks, RestartControlPlane, Cut

LEMMA JournalStep ==
  ASSUME TypeInv, SingleInv, JournalInv, [Next]_vars
  PROVE  JournalInv'
<1>1. \A k \in Keys : \A row \in rows'[k] : row.status = "succeeded" => journal'[k] = "succeeded"
  <2>0. \A k \in Keys : \A row \in rows[k] : row.status = "succeeded" => journal'[k] = "succeeded"
    BY SuccessStays DEF JournalInv
  <2>1. ASSUME NEW key \in Keys, NEW move \in Moves, Submit(key, move)
        PROVE  \A k \in Keys : \A row \in rows'[k] :
                 row.status = "succeeded" => journal'[k] = "succeeded"
    <3>1. rows' = rows \/ rows' = [rows EXCEPT ![key] = {Row("queued", move)}]
      BY <2>1 DEF Submit, Saved
    <3>2. Row("queued", move).status = "queued"
      BY DEF Row
    <3> QED  BY <2>0, <3>1, <3>2 DEF TypeInv
  <2>2. CASE Observe
    <3> DEFINE report == Head(reports)
    <3>1. /\ report \in Reports /\ rows' = Reconciled(report)
          /\ report.says = "succeeded" => journal[report.key] = "succeeded"
      BY <2>2, ObservedReport DEF JournalInv
    <3>2. report.key \in Keys
      BY <3>1 DEF Reports
    <3>3. report.says = "succeeded" => journal'[report.key] = "succeeded"
      BY <3>1, <3>2, SuccessStays
    <3> HIDE DEF report
    <3>4. rows' = rows \/ \E new : new.status = report.says /\ rows' = Saved(report.key, new)
      <4>1. Row(report.says, NoMove).status = report.says
        BY DEF Row
      <4>2. \A row \in rows[report.key] : [row EXCEPT !.status = report.says].status = report.says
        BY <3>2 DEF TypeInv, RowsOf
      <4> QED  BY <3>1, <4>1, <4>2, ReconciledRows
    <3> QED  BY <2>0, <3>2, <3>3, <3>4 DEF Saved, TypeInv
  <2>3. CASE RestartControlPlane
    BY <2>0, <2>3 DEF RestartControlPlane, NoRow
  <2>4. CASE UNCHANGED rows
    BY <2>0, <2>4
  <2> QED
    BY <2>1, <2>2, <2>3, <2>4, NextCases
    DEF vars, api, ReportExisting, NoWorkerReady, OfferRecorded, ReadJob, Take, CarryOut,
        Connect, LinkBreaks
<1>2. \A n \in 1 .. Len(reports') :
        reports'[n].says = "succeeded" => journal'[reports'[n].key] = "succeeded"
  <2>0. \A n \in 1 .. Len(reports) :
          reports[n].says = "succeeded" => journal'[reports[n].key] = "succeeded"
    <3>1. \A n \in 1 .. Len(reports) : reports[n] \in Reports
      BY DEF TypeInv
    <3>2. \A r \in Reports : r.key \in Keys
      BY DEF Reports
    <3> QED  BY <3>1, <3>2, SuccessStays DEF JournalInv
  <2>1. CASE Observe
    BY <2>0, <2>1, ObservedReport
  <2>2. ASSUME NEW offer \in offers \cup working, Take(offer)
        PROVE  \A n \in 1 .. Len(reports') :
                 reports'[n].says = "succeeded" => journal'[reports'[n].key] = "succeeded"
    <3>1. \A r, t : (\A n \in 1 .. Len(<<r>>) : <<r>>[n] = r)
                    /\ \A n \in 1 .. Len(<<r, t>>) : <<r, t>>[n] = r \/ <<r, t>>[n] = t
      OBVIOUS
    <3>2. \/ reports' = <<Report("claimed", offer.key)>>
          \/ reports' = <<Report("claimed", offer.key), Report("running", offer.key)>>
          \/ reports' = <<Rejection(offer.key)>>
      BY <2>2 DEF Take
    <3>3. \A n \in 1 .. Len(reports') :
            reports'[n] \in {Report("claimed", offer.key), Report("running", offer.key),
                             Rejection(offer.key)}
      BY <3>1, <3>2
    <3>4. /\ Report("claimed", offer.key).says # "succeeded"
          /\ Report("running", offer.key).says # "succeeded"
          /\ Rejection(offer.key).says # "succeeded"
      BY DEF Report, Rejection
    <3> QED  BY <3>3, <3>4
  <2>3. ASSUME NEW offer \in offers \cup working, CarryOut(offer)
        PROVE  \A n \in 1 .. Len(reports') :
                 reports'[n].says = "succeeded" => journal'[reports'[n].key] = "succeeded"
    <3>1. offer.key \in Keys
      BY DEF TypeInv, Offers
    <3>2. PICK end \in Terminal : /\ reports' = Append(reports, Report(end, offer.key))
                                  /\ end = "succeeded" => journal'[offer.key] = "succeeded"
      BY <2>3, <3>1 DEF CarryOut, Terminal, TypeInv
    <3>3. Report(end, offer.key).key = offer.key /\ Report(end, offer.key).says = end
      BY DEF Report
    <3>4. \A n \in 1 .. Len(reports') :
            \/ reports'[n] = Report(end, offer.key)
            \/ n \in 1 .. Len(reports) /\ reports'[n] = reports[n]
      <4>1. \A r : \A n \in 1 .. Len(Append(reports, r)) :
              \/ Append(reports, r)[n] = r
              \/ n \in 1 .. Len(reports) /\ Append(reports, r)[n] = reports[n]
        BY DEF TypeInv
      <4> QED  BY <3>2, <4>1
    <3> QED  BY <2>0, <3>2, <3>3, <3>4
  <2>4. CASE Cut
    BY <2>0, <2>4, CutLeaves
  <2>5. CASE UNCHANGED reports
    BY <2>0, <2>5
  <2> QED
    BY <2>1, <2>2, <2>3, <2>4, <2>5, NextCases
    DEF vars, worker, ReportExisting, Submit, NoWorkerReady, OfferRecorded, ReadJob, Connect,
        LinkBreaks, RestartControlPlane
<1>3. ToldAsItIs'
  <2>0. \A k \in told : journal'[k] = "succeeded"
    BY SuccessStays DEF JournalInv, ToldAsItIs, TypeInv
  <2>1. ASSUME NEW key \in Keys, NEW move \in Moves, ReportExisting(key, move)
        PROVE  \A k \in told' : k \in told \/ (k = key /\ journal[key] = "succeeded")
    <3>1. PICK row \in rows[key] : told' = told \/ Answer(SummaryFor(row), key)
      BY <2>1 DEF ReportExisting
    <3>2. SummaryFor(row) = "applied" => row.status = "succeeded"
      BY DEF SummaryFor
    <3> QED  BY <3>1, <3>2 DEF Answer, JournalInv
  <2>2. ASSUME NEW key \in (Projects \cup {Elsewhere}) \X Requests, ReadJob(key)
        PROVE  \A k \in told' : \/ k \in told
                                \/ k = key /\ key \in Keys /\ journal[key] = "succeeded"
    <3>1. CASE told' = told
      BY <3>1
    <3>2. CASE told' # told
      <4>1. PICK row \in Ended(key) : Answer(ChatResponseFor(row), key)
        BY <2>2, <3>2 DEF ReadJob
      <4>2. key \in Keys /\ row \in rows[key]
        BY DEF Ended, Found, NoRow
      <4>3. ChatResponseFor(row) = "applied" => row.status = "succeeded"
        BY DEF ChatResponseFor
      <4> QED  BY <4>1, <4>2, <4>3 DEF Answer, JournalInv
    <3> QED  BY <3>1, <3>2
  <2>3. \/ UNCHANGED told
        \/ \E key \in Keys, move \in Moves : ReportExisting(key, move)
        \/ \E key \in (Projects \cup {Elsewhere}) \X Requests : ReadJob(key)
    BY NextCases DEF vars, history, Submit, NoWorkerReady, OfferRecorded, Observe, Take,
       CarryOut, Connect, LinkBreaks, RestartControlPlane
  <2> QED  BY <2>0, <2>1, <2>2, <2>3, SuccessStays DEF ToldAsItIs
<1> QED  BY <1>1, <1>2, <1>3 DEF JournalInv

-------------------------------------------------------------------------------
(* Records, offers, reports, journal and answers agree in every reachable    *)
(* state.                                                                    *)
THEOREM Invariance == Spec => []IndInv
<1>1. IndInv /\ [Next]_vars => IndInv'
  <2> SUFFICES ASSUME IndInv, [Next]_vars PROVE IndInv'
    OBVIOUS
  <2>1. TypeInv' /\ SingleInv'
    BY TypeStep, SingleStep DEF IndInv
  <2>2. MoveInv' /\ JournalInv'
    BY <2>1, MoveStep, JournalStep DEF IndInv
  <2> QED  BY <2>1, <2>2 DEF IndInv
<1> QED  BY InitInv, <1>1, PTL DEF Spec

(* Every variable has its type, in every reachable state. *)
THEOREM TypeCorrect == Spec => []TypeOK
<1>1. IndInv => TypeOK
  <2> SUFFICES ASSUME IndInv PROVE TypeOK
    OBVIOUS
  <2>1. ASSUME NEW S, \A a, b \in S : a = b
        PROVE  Cardinality(S) <= 1
    <3>1. CASE S = {}
      BY <3>1, FS_EmptySet
    <3>2. ASSUME NEW x \in S  PROVE Cardinality(S) <= 1
      <4>1. S = {x}
        BY <2>1
      <4> QED  BY <4>1, FS_Singleton
    <3> QED  BY <3>1, <3>2
  <2>2. \A k \in Keys : Cardinality(rows[k]) <= 1
    BY <2>1 DEF IndInv, SingleInv
  <2>3. Cardinality(working) <= 1
    BY <2>1 DEF IndInv, SingleInv
  <2>4. \A k \in Keys : \A row \in rows[k] : row.status \in {"queued"} \cup InFlight \cup Terminal
    BY DEF IndInv, TypeInv, RowsOf
  <2>5. handling.at \in {"idle", "dispatch"}
    BY DEF IndInv, TypeInv, Commits, Idle
  <2> QED  BY <2>2, <2>3, <2>4, <2>5 DEF TypeOK
<1> QED  BY <1>1, Invariance, PTL

(* As long as the database is there, one request id stands for one move,     *)
(* whatever is asked, answered, offered and carried out under it.            *)
THEOREM RequestsMeanOneMove == Spec => []OneMovePerRequest
<1>1. IndInv => OneMovePerRequest
  <2> SUFFICES ASSUME IndInv, ~lost, NEW k \in Keys,
                      NEW a \in promised[k] \cup carried[k], NEW b \in promised[k] \cup carried[k]
               PROVE  a = b
    BY DEF OneMovePerRequest
  <2>1. PICK row \in rows[k] : a \in row.move
    BY DEF IndInv, MoveInv
  <2>2. PICK other \in rows[k] : b \in other.move
    BY DEF IndInv, MoveInv
  <2>3. other = row /\ row.move \in Moves
    BY DEF IndInv, SingleInv, MoveInv
  <2> QED  BY <2>1, <2>2, <2>3, MovesAreOne
<1> QED  BY <1>1, Invariance, PTL

(* A client is told that its change was applied only if the worker's journal *)
(* says so, even after the database was lost.                                *)
THEOREM AnswersAreTrue == Spec => []ToldAsItIs
<1>1. IndInv => ToldAsItIs
  BY DEF IndInv, JournalInv
<1> QED  BY <1>1, Invariance, PTL

===============================================================================

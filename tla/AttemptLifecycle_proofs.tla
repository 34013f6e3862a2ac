------------------------ MODULE AttemptLifecycle_proofs ------------------------
(***************************************************************************)
(* Proofs about AttemptLifecycle, for every set of attempts, providers,     *)
(* addresses, workers and bounds that its assumption allows.                *)
(***************************************************************************)
EXTENDS AttemptLifecycle, TLAPS

(***************************************************************************)
(* The inductive invariant.  HoldFollowsJourney needs the types of the two  *)
(* rows, because a transaction rebuilds a row field by field.  A stored     *)
(* Toluna notice is applied by a later transaction, which does not look for *)
(* the attempt again: that it exists is NoticesMatched.                     *)
(***************************************************************************)
NoticesMatched ==
  \A a \in Attempts, e \in Events :
    notices[<<a, e>>] # "absent" => row[a].status # "absent"

IInv == TypeOK /\ HoldFollowsJourney /\ NoticesMatched

\* The part of the type invariant about everything but the two rows.
RestOK ==
  /\ visit \in [Attempts -> Visits]
  /\ answers \subseteq Answer
  /\ notices \in [Attempts \X Events -> {"absent", "stored", "applied"}]
  /\ overdue \subseteq Attempts
  /\ listed \in [Workers -> SUBSET Attempts]
  /\ kills \in Nat

\* A row whose callback_at agrees with its status.
Consistent(r) == r \in AttemptRow /\ (r.callbackAt <=> r.status \in Terminal)

-----------------------------------------------------------------------------

(***************************************************************************)
(* finalize_attempt_capacity leaves nothing RESERVED, and moves no other    *)
(* row.                                                                     *)
(***************************************************************************)
LEMMA FinalizedSettles ==
  ASSUME NEW h \in Holds, NEW status
  PROVE  /\ Finalized(h, status) \in Holds \ {"reserved"}
         /\ h # "reserved" => Finalized(h, status) = h
BY DEF Finalized, Holds

(***************************************************************************)
(* Writing a consistent row that exists and finalizing its reservation in   *)
(* the same transaction keeps the two rows together, provided the row has   *)
(* ended: the finalization settles the unit by the outcome written.         *)
(***************************************************************************)
LEMMA RecordEnded ==
  ASSUME IInv, NEW a \in Attempts, NEW r, Consistent(r), r.status \in Terminal,
         Record(a, r)
  PROVE  /\ row' \in [Attempts -> AttemptRow]
         /\ hold' \in [Attempts -> Holds]
         /\ HoldFollowsJourney'
<1>1. row' = [row EXCEPT ![a] = r] /\ hold' = [hold EXCEPT ![a] = Finalized(hold[a], r.status)]
  BY DEF Record, IInv, TypeOK
<1>2. hold[a] \in Holds
  BY DEF IInv, TypeOK
<1>3. Finalized(hold[a], r.status) \in Holds \ {"reserved"}
  BY <1>2, FinalizedSettles
<1>4. row' \in [Attempts -> AttemptRow] /\ hold' \in [Attempts -> Holds]
  BY <1>1, <1>3 DEF IInv, TypeOK, Consistent
<1>5. r.status # "absent"
  BY DEF Terminal
<1>6. HoldFollowsJourney'
  BY <1>1, <1>3, <1>4, <1>5 DEF HoldFollowsJourney, IInv, TypeOK, Consistent
<1> QED BY <1>4, <1>6

(***************************************************************************)
(* A write that leaves status, callback_at and the reservation alone keeps  *)
(* the invariant's part about the two rows.                                 *)
(***************************************************************************)
LEMMA RowTouched ==
  ASSUME IInv, NEW a \in Attempts, NEW r \in AttemptRow,
         r.callbackAt = row[a].callbackAt,
         \/ r.status = row[a].status
         \/ row[a].status \in Pending /\ r.status \in Pending,
         row' = [row EXCEPT ![a] = r], hold' = hold
  PROVE  /\ row' \in [Attempts -> AttemptRow]
         /\ hold' \in [Attempts -> Holds]
         /\ HoldFollowsJourney'
<1>1. row' \in [Attempts -> AttemptRow] /\ hold' \in [Attempts -> Holds]
  BY DEF IInv, TypeOK
<1>2. \A s \in Pending : s \notin Terminal /\ s # "absent"
  BY DEF Pending, Terminal
<1>3. HoldFollowsJourney'
  BY <1>1, <1>2 DEF HoldFollowsJourney, IInv, TypeOK
<1> QED BY <1>1, <1>3

(***************************************************************************)
(* A handler that rewrites only the two rows keeps the invariant as soon as *)
(* it keeps the part about those rows.                                      *)
(***************************************************************************)
LEMMA RowsOnly ==
  ASSUME IInv, RestOK', row' \in [Attempts -> AttemptRow],
         hold' \in [Attempts -> Holds], HoldFollowsJourney',
         NoticesMatched'
  PROVE  IInv'
BY DEF IInv, TypeOK, RestOK

(***************************************************************************)
(* The rows of a starting release, prepared Toluna invites included.        *)
(***************************************************************************)
LEMMA InitIInv == Init => IInv
<1> SUFFICES ASSUME Init PROVE IInv
  OBVIOUS
<1>1. PICK legacy \in SUBSET {a \in Attempts : ProviderOf[a] = "toluna"} :
        /\ row = [a \in Attempts |->
                    IF a \in legacy
                      THEN [NewRow(NoIP) EXCEPT !.invited = TRUE]
                      ELSE [NewRow(NoIP) EXCEPT !.status = "absent"]]
        /\ hold = [a \in Attempts |-> IF a \in legacy THEN "reserved" ELSE "none"]
        /\ visit = [a \in Attempts |-> IF a \in legacy THEN "no_ip" ELSE "none"]
  BY DEF Init
<1>2. /\ [NewRow(NoIP) EXCEPT !.invited = TRUE] \in AttemptRow
      /\ [NewRow(NoIP) EXCEPT !.status = "absent"] \in AttemptRow
  BY DEF NewRow, AttemptRow, Sources, Pending
<1>3. TypeOK
  BY <1>1, <1>2 DEF Init, TypeOK, Holds, Visits
<1>4. HoldFollowsJourney
  BY <1>1 DEF HoldFollowsJourney, NewRow, Terminal
<1>5. NoticesMatched
  BY DEF Init, NoticesMatched
<1> QED BY <1>3, <1>4, <1>5 DEF IInv

-----------------------------------------------------------------------------
(***************************************************************************)
(* What one transaction can do to the two rows of an attempt.  Every action *)
(* has one of these shapes; the invariant and the refinement are then       *)
(* proved once per shape.                                                   *)
(***************************************************************************)
Opened(a, r, h) ==
  /\ row[a].status = "absent"
  /\ r.status = "initiated" /\ ~r.callbackAt
  /\ row' = [row EXCEPT ![a] = r]
  /\ hold' = [hold EXCEPT ![a] = h]

Closed(a, r) ==
  /\ row[a].status # "absent"
  /\ Consistent(r)
  /\ r.status \in Terminal
  /\ Record(a, r)

Touched(a, r) ==
  /\ r.callbackAt = row[a].callbackAt
  /\ \/ r.status = row[a].status
     \/ row[a].status \in Pending /\ r.status \in Pending
  /\ row' = [row EXCEPT ![a] = r]
  /\ hold' = hold

Lapsed(a) ==
  /\ hold[a] = "reserved"
  /\ hold' = [hold EXCEPT ![a] = "expired"]
  /\ row' = row

RowStep ==
  \/ UNCHANGED <<row, hold>>
  \/ \E a \in Attempts :
       \/ \E r \in AttemptRow :
            \/ \E h \in {"none", "reserved"} : Opened(a, r, h)
            \/ Closed(a, r)
            \/ Touched(a, r)
       \/ Lapsed(a)

\* The other variables keep their types, and a notice is stored only for an
\* attempt that exists.
OthersKept ==
  /\ RestOK'
  /\ \A a \in Attempts, e \in Events :
       notices'[<<a, e>>] # "absent" =>
         notices[<<a, e>>] # "absent" \/ row[a].status # "absent"

(***************************************************************************)
(* The _finish_* transactions close the journey they find INITIATED.        *)
(***************************************************************************)
LEMMA FinishLocallyCloses ==
  ASSUME IInv, NEW a \in Attempts, NEW o \in Terminal, NEW src \in Sources,
         FinishLocally(a, o, src)
  PROVE  RowStep
<1> DEFINE r == [Ended(row[a], o, src) EXCEPT !.exit = "ending"]
<1>1. row[a] \in AttemptRow
  BY DEF IInv, TypeOK
<1>2. Consistent(r) /\ r.status = o
  BY <1>1 DEF Ended, Consistent, AttemptRow
<1>3. Closed(a, r)
  BY <1>2 DEF Closed, FinishLocally, StillInitiated
<1> QED BY <1>2, <1>3 DEF RowStep, Consistent

(***************************************************************************)
(* Every entry-side action has a shape, and keeps the other variables'      *)
(* types.                                                                   *)
(***************************************************************************)
LEMMA EntryShape ==
  ASSUME IInv, NEW a \in Attempts, Entry(a)
  PROVE  RowStep /\ OthersKept
<1> USE DEF journeyVars, expiryVars
<1>0. row[a] \in AttemptRow /\ RestOK
  BY DEF IInv, TypeOK, RestOK
<1>1. ASSUME NEW ip \in ArrivalIPs, NEW reserves \in BOOLEAN,
             EnterSurvey(a, ip, reserves)
      PROVE  RowStep /\ OthersKept
  <2>1. NewRow(ip) \in AttemptRow
    BY AttemptAssumption DEF NewRow, AttemptRow, Sources, Pending
  <2>2. Opened(a, NewRow(ip), IF reserves THEN "reserved" ELSE "none")
    BY <1>1 DEF EnterSurvey, Opened, NewRow
  <2>3. OthersKept
    BY <1>0, <1>1 DEF EnterSurvey, OthersKept, RestOK, Visits
  <2> QED BY <2>1, <2>2, <2>3 DEF RowStep
<1>2. CASE RejectDuplicate(a)
  <2>1. OthersKept
    BY <1>0, <1>2 DEF RejectDuplicate, OthersKept, RestOK, Visits
  <2>2. CASE StillInitiated(a)
    <3>1. FinishLocally(a, "quality_terminated", "local_duplicate_ip_guard")
      BY <1>2, <2>2 DEF RejectDuplicate
    <3>2. "quality_terminated" \in Terminal /\ "local_duplicate_ip_guard" \in Sources
      BY DEF Terminal, Sources
    <3> QED BY <2>1, <3>1, <3>2, FinishLocallyCloses
  <2>3. CASE ~StillInitiated(a)
    BY <1>2, <2>1, <2>3 DEF RejectDuplicate, RowStep
  <2> QED BY <2>2, <2>3
<1>3. CASE EntryRequestDies(a)
  BY <1>0, <1>3 DEF EntryRequestDies, OthersKept, RestOK, RowStep, Visits
<1>4. ASSUME NEW ip \in EntryIPs, BackfillEntryIP(a, ip)
      PROVE  RowStep /\ OthersKept
  <2> DEFINE r == [row[a] EXCEPT !.ip = ip]
  <2>1. r \in AttemptRow
    BY <1>0 DEF AttemptRow
  <2>2. Touched(a, r)
    BY <1>0, <1>4 DEF BackfillEntryIP, Touched, AttemptRow, IInv, TypeOK
  <2>3. OthersKept
    BY <1>0, <1>4 DEF BackfillEntryIP, OthersKept, RestOK
  <2> QED BY <2>1, <2>2, <2>3 DEF RowStep
<1>5. CASE RejectCountry(a)
  <2>1. "quality_terminated" \in Terminal /\ "local" \in Sources
    BY DEF Terminal, Sources
  <2>2. RowStep
    BY <1>5, <2>1, FinishLocallyCloses DEF RejectCountry
  <2> QED BY <1>0, <1>5, <2>2 DEF RejectCountry, OthersKept, RestOK
<1>6. CASE RejectPrescreener(a)
  <2>1. "terminated" \in Terminal /\ "local" \in Sources
    BY DEF Terminal, Sources
  <2>2. RowStep
    BY <1>6, <2>1, FinishLocallyCloses DEF RejectPrescreener
  <2> QED BY <1>0, <1>6, <2>2 DEF RejectPrescreener, OthersKept, RestOK
<1>7. ASSUME NEW o \in Terminal, RejectInvite(a, o)
      PROVE  RowStep /\ OthersKept
  <2>1. "local" \in Sources
    BY DEF Sources
  <2>2. RowStep
    BY <1>7, <2>1, FinishLocallyCloses DEF RejectInvite
  <2> QED BY <1>0, <1>7, <2>2 DEF RejectInvite, OthersKept, RestOK
<1>8. CASE SubmitPrescreener(a)
  <2> DEFINE r == [row[a] EXCEPT !.status = "redirected", !.redirected = TRUE,
                                 !.invited = TRUE]
  <2>1. r \in AttemptRow
    BY <1>0 DEF AttemptRow, Pending
  <2>2. Touched(a, r)
    BY <1>0, <1>8 DEF SubmitPrescreener, StillInitiated, Touched, AttemptRow,
                      Pending, IInv, TypeOK
  <2>3. OthersKept
    BY <1>0, <1>8 DEF SubmitPrescreener, OthersKept, RestOK
  <2> QED BY <2>1, <2>2, <2>3 DEF RowStep
<1>9. CASE ReleasePreparedInvite(a)
  <2> DEFINE r == [row[a] EXCEPT !.status = "redirected", !.redirected = TRUE]
  <2>1. r \in AttemptRow
    BY <1>0 DEF AttemptRow, Pending
  <2>2. Touched(a, r)
    BY <1>0, <1>9 DEF ReleasePreparedInvite, StillInitiated, Touched, AttemptRow,
                      Pending, IInv, TypeOK
  <2>3. OthersKept
    BY <1>0, <1>9 DEF ReleasePreparedInvite, OthersKept, RestOK
  <2> QED BY <2>1, <2>2, <2>3 DEF RowStep
<1> QED BY <1>1, <1>2, <1>3, <1>4, <1>5, <1>6, <1>7, <1>8, <1>9 DEF Entry

(***************************************************************************)
(* Every callback, browser or server, closes the row, leaves it as it is or *)
(* touches its exit snapshot.  A row that already has its callback is an    *)
(* ended row (the invariant), so saving it again closes it too.             *)
(***************************************************************************)
LEMMA CallbackShape ==
  ASSUME IInv, NEW a \in Attempts, Callback(a)
  PROVE  RowStep /\ OthersKept
<1> USE DEF journeyVars, expiryVars
<1> DEFINE q == row[a]
<1>0. /\ q \in AttemptRow
      /\ RestOK
      /\ q.callbackAt <=> q.status \in Terminal
  BY DEF IInv, TypeOK, RestOK, HoldFollowsJourney
<1>a. ASSUME NEW r, Consistent(r), r.status \in Terminal, Exists(a), Record(a, r)
      PROVE  RowStep
  BY <1>a DEF RowStep, Closed, Exists, Consistent
<1>b. /\ "signed_redirect" \in Sources /\ "browser_callback" \in Sources
      /\ "toluna_callback" \in Sources /\ "rfg_callback" \in Sources
      /\ "toluna_notification" \in Sources
  BY DEF Sources
<1>1. ASSUME NEW o \in Terminal, InnovateCallback(a, o)
      PROVE  RowStep /\ OthersKept
  <2> DEFINE src   == IF HashRequired THEN "signed_redirect" ELSE "browser_callback"
             first == IF q.callbackAt THEN q
                      ELSE [Ended(q, o, src) EXCEPT !.exit = "ending"]
             r     == IF HashRequired
                        THEN [first EXCEPT !.verified = TRUE,
                                           !.exit = IF q.callbackAt THEN "later" ELSE @]
                        ELSE first
  <2>1. Record(a, r) /\ Exists(a)
    BY <1>1 DEF InnovateCallback
  <2>2. src \in Sources
    BY <1>b
  <2>3. Consistent(first) /\ first.status \in Terminal
    <3>1. CASE q.callbackAt
      BY <1>0, <3>1 DEF Consistent
    <3>2. CASE ~q.callbackAt
      <4> HIDE DEF src
      <4> QED BY <1>0, <2>2, <3>2 DEF Consistent, Ended, AttemptRow
    <3> QED BY <3>1, <3>2
  <2>4. Consistent(r) /\ r.status \in Terminal
    <3> HIDE DEF first
    <3>1. first \in AttemptRow /\ (first.callbackAt <=> first.status \in Terminal)
      BY <2>3 DEF Consistent
    <3>2. [first EXCEPT !.verified = TRUE,
                        !.exit = IF q.callbackAt THEN "later" ELSE @] \in AttemptRow
      BY <3>1 DEF AttemptRow
    <3> QED BY <2>3, <3>1, <3>2 DEF Consistent, AttemptRow
  <2>5. OthersKept
    BY <1>0, <1>1 DEF InnovateCallback, OthersKept, RestOK
  <2> HIDE DEF r
  <2> QED BY <1>a, <2>1, <2>4, <2>5
<1>2. ASSUME NEW o \in Terminal, BiobrainCallback(a, o)
      PROVE  RowStep /\ OthersKept
  <2> DEFINE src == IF HashRequired THEN "signed_redirect" ELSE "browser_callback"
             r   == [Ended(q, o, src)
                       EXCEPT !.exit = "ending",
                              !.verified = IF HashRequired THEN TRUE ELSE @]
  <2>1. Record(a, r) /\ Exists(a)
    BY <1>2 DEF BiobrainCallback, Unanswered, Pending, Exists
  <2>2. src \in Sources
    BY <1>b
  <2>3. Consistent(r) /\ r.status \in Terminal
    <3> HIDE DEF src
    <3> QED BY <1>0, <2>2 DEF Consistent, Ended, AttemptRow
  <2>4. OthersKept
    BY <1>0, <1>2 DEF BiobrainCallback, OthersKept, RestOK
  <2> HIDE DEF r
  <2> QED BY <1>a, <2>1, <2>3, <2>4
<1>3. ASSUME NEW o \in Terminal, UnsignedCallback(a, o)
      PROVE  RowStep /\ OthersKept
  <2> DEFINE r == IF q.callbackAt THEN q
                  ELSE [Ended(q, o, "browser_callback") EXCEPT !.exit = "ending"]
  <2>1. Record(a, r) /\ Exists(a)
    BY <1>3 DEF UnsignedCallback
  <2>2. Consistent(r) /\ r.status \in Terminal
    <3>1. CASE q.callbackAt
      BY <1>0, <3>1 DEF Consistent
    <3>2. CASE ~q.callbackAt
      BY <1>0, <1>b, <3>2 DEF Consistent, Ended, AttemptRow
    <3> QED BY <3>1, <3>2
  <2>3. OthersKept
    BY <1>0, <1>3 DEF UnsignedCallback, OthersKept, RestOK
  <2> HIDE DEF r
  <2> QED BY <1>a, <2>1, <2>2, <2>3
<1>4. ASSUME NEW o \in Terminal, TolunaCallback(a, o)
      PROVE  RowStep /\ OthersKept
  <2> DEFINE r == [Ended(q, o, "toluna_callback")
                     EXCEPT !.verified = TRUE, !.exit = "ending"]
  <2>1. Record(a, r) /\ Exists(a)
    BY <1>4 DEF TolunaCallback
  <2>2. Consistent(r) /\ r.status \in Terminal
    BY <1>0, <1>b DEF Consistent, Ended, AttemptRow
  <2>3. OthersKept
    BY <1>0, <1>4 DEF TolunaCallback, OthersKept, RestOK
  <2> HIDE DEF r
  <2> QED BY <1>a, <2>1, <2>2, <2>3
<1>5. ASSUME NEW o \in Terminal, RfgServerCallback(a, o)
      PROVE  RowStep /\ OthersKept
  <2> DEFINE r == [Ended(q, o, "rfg_callback") EXCEPT !.verified = TRUE]
  <2>1. Record(a, r) /\ Exists(a)
    BY <1>5 DEF RfgServerCallback
  <2>2. Consistent(r) /\ r.status \in Terminal
    BY <1>0, <1>b DEF Consistent, Ended, AttemptRow
  <2>3. OthersKept
    BY <1>0, <1>5 DEF RfgServerCallback, OthersKept, RestOK
  <2> HIDE DEF r
  <2> QED BY <1>a, <2>1, <2>2, <2>3
<1>6. CASE RfgBrowserReturn(a)
  <2> DEFINE r == [q EXCEPT !.exit = "later"]
  <2>1. r \in AttemptRow
    BY <1>0 DEF AttemptRow
  <2>2. Touched(a, r)
    BY <1>0, <1>6 DEF RfgBrowserReturn, Touched, AttemptRow, IInv, TypeOK
  <2>3. OthersKept
    BY <1>0, <1>6 DEF RfgBrowserReturn, OthersKept, RestOK
  <2> QED BY <2>1, <2>2, <2>3 DEF RowStep
<1>7. ASSUME NEW e \in Events, StoreNotice(a, e)
      PROVE  RowStep /\ OthersKept
  <2>1. UNCHANGED <<row, hold>> /\ Exists(a)
    BY <1>7 DEF StoreNotice
  <2>2. RestOK'
    BY <1>0, <1>7 DEF StoreNotice, RestOK
  <2>3. ASSUME NEW b \in Attempts, NEW f \in Events,
               notices'[<<b, f>>] # "absent", notices[<<b, f>>] = "absent"
        PROVE  row[b].status # "absent"
    BY <1>0, <1>7, <2>1, <2>3 DEF StoreNotice, RestOK, Exists
  <2> QED BY <2>1, <2>2, <2>3 DEF RowStep, OthersKept
<1>8. ASSUME NEW e \in Events, NEW o \in Terminal, ApplyNotice(a, e, o)
      PROVE  RowStep /\ OthersKept
  <2> DEFINE r == [Ended(q, o, "toluna_notification")
                     EXCEPT !.verified = TRUE]
  <2>1. Record(a, r) /\ Exists(a)
    BY <1>8 DEF ApplyNotice, Exists, IInv, NoticesMatched
  <2>2. Consistent(r) /\ r.status \in Terminal
    BY <1>0, <1>b DEF Consistent, Ended, AttemptRow
  <2>3. OthersKept
    BY <1>0, <1>8 DEF ApplyNotice, OthersKept, RestOK
  <2> HIDE DEF r
  <2> QED BY <1>a, <2>1, <2>2, <2>3
<1> QED BY <1>1, <1>2, <1>3, <1>4, <1>5, <1>6, <1>7, <1>8 DEF Callback

(***************************************************************************)
(* The poll ends only an unanswered journey.  On any other row its          *)
(* finalization is a save of an ended row, or finds no unit at all.         *)
(***************************************************************************)
LEMMA PollShape ==
  ASSUME IInv, Poll
  PROVE  RowStep /\ OthersKept
<1> USE DEF expiryVars
<1>0. RestOK
  BY DEF IInv, TypeOK, RestOK
<1>1. ASSUME NEW m \in Answer, FetchTransaction(m)
      PROVE  RowStep /\ OthersKept
  BY <1>0, <1>1 DEF FetchTransaction, RowStep, OthersKept, RestOK
<1>2. ASSUME NEW m \in Answer, DropTransaction(m)
      PROVE  RowStep /\ OthersKept
  BY <1>0, <1>2 DEF DropTransaction, RowStep, OthersKept, RestOK
<1>3. ASSUME NEW m \in Answer, ApplyTransaction(m)
      PROVE  RowStep /\ OthersKept
  <2> DEFINE a     == m.attempt
             q     == row[a]
             known == IF q.ip = NoIP THEN [q EXCEPT !.ip = m.ip] ELSE q
             ends  == m.outcome # "none" /\ Unanswered(q)
             r     == IF ends
                        THEN [Ended(known, m.outcome, "innovatemr_transaction")
                                EXCEPT !.verified = m.valid]
                        ELSE known
  <2>1. /\ a \in Attempts
        /\ m.outcome \in {"none"} \cup Terminal
        /\ m.valid \in BOOLEAN
        /\ m.ip \in EntryIPs \cup {NoIP}
    BY DEF Answer
  <2>2. /\ q \in AttemptRow
        /\ q.callbackAt <=> q.status \in Terminal
        /\ q.status = "absent" => hold[a] = "none"
        /\ hold \in [Attempts -> Holds]
        /\ row \in [Attempts -> AttemptRow]
    BY <2>1 DEF IInv, TypeOK, HoldFollowsJourney
  <2>3. /\ known \in AttemptRow
        /\ known.status = q.status
        /\ known.callbackAt = q.callbackAt
    BY <2>1, <2>2 DEF AttemptRow
  <2>4. OthersKept
    BY <1>0, <1>3 DEF ApplyTransaction, OthersKept, RestOK
  <2>5. IF m.outcome # "none" THEN Record(a, r)
        ELSE row' = [row EXCEPT ![a] = r] /\ hold' = hold
    BY <1>3 DEF ApplyTransaction
  <2>6. CASE ends
    <3>1. Record(a, r) /\ q.status # "absent"
      BY <2>5, <2>6 DEF Unanswered, Pending
    <3>2. m.outcome \in Terminal /\ "innovatemr_transaction" \in Sources
      BY <2>1, <2>6 DEF Sources
    <3>3. Consistent(r) /\ r.status \in Terminal
      <4> HIDE DEF known
      <4> QED BY <2>1, <2>3, <2>6, <3>2 DEF Consistent, Ended, AttemptRow
    <3> HIDE DEF r
    <3> QED BY <2>1, <2>4, <3>1, <3>3 DEF RowStep, Closed, Consistent
  <2>7. CASE ~ends
    <3>1. r = known
      BY <2>7
    <3>2. CASE m.outcome = "none" \/ q.status = "absent"
      <4>1. row' = [row EXCEPT ![a] = r]
        BY <2>5 DEF Record
      <4>2. CASE m.outcome = "none"
        <5>1. hold' = hold
          BY <2>5, <4>2
        <5> QED BY <2>1, <2>3, <2>4, <3>1, <4>1, <5>1 DEF RowStep, Touched
      <4>3. CASE m.outcome # "none" /\ q.status = "absent"
        <5>1. hold' = [hold EXCEPT ![a] = Finalized(hold[a], r.status)]
          BY <2>5, <4>3 DEF Record
        <5>2. hold' = hold
          BY <2>1, <2>2, <4>3, <5>1 DEF Finalized
        <5> QED BY <2>1, <2>3, <2>4, <3>1, <4>1, <5>2 DEF RowStep, Touched
      <4> QED BY <3>2, <4>2, <4>3
    <3>3. CASE m.outcome # "none" /\ q.status # "absent"
      <4>1. q.status \in Terminal
        BY <2>2, <2>7, <3>3 DEF Unanswered, AttemptRow
      <4>2. Record(a, r) /\ Consistent(r) /\ r.status \in Terminal
        BY <2>2, <2>3, <2>5, <3>1, <3>3, <4>1 DEF Consistent
      <4> HIDE DEF r
      <4> QED BY <2>1, <2>4, <3>3, <4>2 DEF RowStep, Closed, Consistent
    <3> QED BY <3>2, <3>3
  <2> QED BY <2>6, <2>7
<1> QED BY <1>1, <1>2, <1>3 DEF Poll

(***************************************************************************)
(* Expiry lapses a unit that is still reserved when its row is locked, and  *)
(* does nothing else to the two rows.                                       *)
(***************************************************************************)
LEMMA ExpiryShape ==
  ASSUME IInv,
         \/ \E a \in Attempts : TtlElapses(a)
         \/ \E w \in Workers : Expiry(w)
  PROVE  RowStep /\ OthersKept
<1> USE DEF journeyVars
<1>0. RestOK /\ hold \in [Attempts -> Holds]
  BY DEF IInv, TypeOK, RestOK
<1>1. ASSUME NEW a \in Attempts, TtlElapses(a)
      PROVE  RowStep /\ OthersKept
  BY <1>0, <1>1 DEF TtlElapses, RowStep, OthersKept, RestOK
<1>2. ASSUME NEW w \in Workers, ListDue(w)
      PROVE  RowStep /\ OthersKept
  <2>1. PICK batch \in SUBSET Due : listed' = [listed EXCEPT ![w] = batch]
    BY <1>2 DEF ListDue
  <2>2. batch \subseteq Attempts
    BY <1>0 DEF Due, RestOK
  <2>3. listed' \in [Workers -> SUBSET Attempts]
    BY <1>0, <2>1, <2>2 DEF RestOK
  <2> QED BY <1>0, <1>2, <2>3 DEF ListDue, RowStep, OthersKept, RestOK
<1>3. ASSUME NEW w \in Workers, NEW a \in Attempts, ExpireListed(w, a)
      PROVE  RowStep /\ OthersKept
  <2>1. listed' \in [Workers -> SUBSET Attempts]
    BY <1>0, <1>3 DEF ExpireListed, RestOK
  <2>2. OthersKept
    BY <1>0, <1>3, <2>1 DEF ExpireListed, OthersKept, RestOK
  <2>3. RowStep
    <3>1. CASE hold[a] = "reserved"
      BY <1>0, <1>3, <3>1 DEF ExpireListed, RowStep, Lapsed
    <3>2. CASE hold[a] # "reserved"
      BY <1>0, <1>3, <3>2 DEF ExpireListed, RowStep
    <3> QED BY <3>1, <3>2
  <2> QED BY <2>2, <2>3
<1>4. ASSUME NEW w \in Workers, KillExpiryRun(w)
      PROVE  RowStep /\ OthersKept
  BY <1>0, <1>4 DEF KillExpiryRun, RowStep, OthersKept, RestOK
<1> QED BY <1>1, <1>2, <1>3, <1>4 DEF Expiry

(***************************************************************************)
(* Every step of the system has one of the shapes.                          *)
(***************************************************************************)
LEMMA NextShape ==
  ASSUME IInv, [Next]_vars
  PROVE  RowStep /\ OthersKept
<1>1. CASE Next
  <2>1. ASSUME NEW a \in Attempts, Entry(a) PROVE RowStep /\ OthersKept
    BY <2>1, EntryShape
  <2>2. ASSUME NEW a \in Attempts, Callback(a) PROVE RowStep /\ OthersKept
    BY <2>2, CallbackShape
  <2>3. ASSUME NEW a \in Attempts, TtlElapses(a) PROVE RowStep /\ OthersKept
    BY <2>3, ExpiryShape
  <2>4. CASE Poll
    BY <2>4, PollShape
  <2>5. ASSUME NEW w \in Workers, Expiry(w) PROVE RowStep /\ OthersKept
    BY <2>5, ExpiryShape
  <2> QED BY <1>1, <2>1, <2>2, <2>3, <2>4, <2>5 DEF Next
<1>2. CASE UNCHANGED vars
  BY <1>2 DEF vars, RowStep, OthersKept, RestOK, IInv, TypeOK
<1> QED BY <1>1, <1>2

-----------------------------------------------------------------------------
(***************************************************************************)
(* No shape removes an attempt.                                             *)
(***************************************************************************)
LEMMA RowsStay ==
  ASSUME IInv, RowStep, NEW b \in Attempts, row[b].status # "absent"
  PROVE  row'[b].status # "absent"
<1>0. row \in [Attempts -> AttemptRow] /\ "absent" \notin Terminal /\ "absent" \notin Pending
  BY DEF IInv, TypeOK, Terminal, Pending
<1>1. CASE UNCHANGED <<row, hold>>
  BY <1>1
<1>2. ASSUME NEW a \in Attempts, NEW r \in AttemptRow, NEW h, Opened(a, r, h)
      PROVE  row'[b].status # "absent"
  BY <1>0, <1>2 DEF Opened
<1>3. ASSUME NEW a \in Attempts, NEW r \in AttemptRow, Closed(a, r)
      PROVE  row'[b].status # "absent"
  BY <1>0, <1>3 DEF Closed, Record
<1>4. ASSUME NEW a \in Attempts, NEW r \in AttemptRow, Touched(a, r)
      PROVE  row'[b].status # "absent"
  BY <1>0, <1>4 DEF Touched
<1>5. ASSUME NEW a \in Attempts, Lapsed(a) PROVE row'[b].status # "absent"
  BY <1>5 DEF Lapsed
<1> QED BY <1>1, <1>2, <1>3, <1>4, <1>5 DEF RowStep

(***************************************************************************)
(* Each shape keeps the attempt row and the reservation row in agreement:   *)
(* a unit opens with its journey, is settled by the write that closes it,   *)
(* and lapses only while it is reserved, which an ended journey's is not.   *)
(***************************************************************************)
LEMMA ShapeInv ==
  ASSUME IInv, RowStep, OthersKept
  PROVE  IInv'
<1>1. NoticesMatched'
  BY RowsStay DEF NoticesMatched, OthersKept, IInv
<1>2. RestOK'
  BY DEF OthersKept
<1>3. SUFFICES /\ row' \in [Attempts -> AttemptRow]
               /\ hold' \in [Attempts -> Holds]
               /\ HoldFollowsJourney'
  BY <1>1, <1>2, RowsOnly
<1>4. CASE UNCHANGED <<row, hold>>
  BY <1>4 DEF IInv, TypeOK, HoldFollowsJourney
<1>5. ASSUME NEW a \in Attempts, NEW r \in AttemptRow,
             NEW h \in {"none", "reserved"}, Opened(a, r, h)
      PROVE  /\ row' \in [Attempts -> AttemptRow]
             /\ hold' \in [Attempts -> Holds]
             /\ HoldFollowsJourney'
  <2>1. h \in Holds
    BY DEF Holds
  <2>2. row' \in [Attempts -> AttemptRow] /\ hold' \in [Attempts -> Holds]
    BY <1>5, <2>1 DEF Opened, IInv, TypeOK
  <2>3. "initiated" \notin Terminal
    BY DEF Terminal
  <2>4. HoldFollowsJourney'
    BY <1>5, <2>2, <2>3 DEF Opened, HoldFollowsJourney, IInv, TypeOK
  <2> QED BY <2>2, <2>4
<1>6. ASSUME NEW a \in Attempts, NEW r \in AttemptRow, Closed(a, r)
      PROVE  /\ row' \in [Attempts -> AttemptRow]
             /\ hold' \in [Attempts -> Holds]
             /\ HoldFollowsJourney'
  BY <1>6, RecordEnded DEF Closed
<1>7. ASSUME NEW a \in Attempts, NEW r \in AttemptRow, Touched(a, r)
      PROVE  /\ row' \in [Attempts -> AttemptRow]
             /\ hold' \in [Attempts -> Holds]
             /\ HoldFollowsJourney'
  BY <1>7, RowTouched DEF Touched
<1>8. ASSUME NEW a \in Attempts, Lapsed(a)
      PROVE  /\ row' \in [Attempts -> AttemptRow]
             /\ hold' \in [Attempts -> Holds]
             /\ HoldFollowsJourney'
  <2>1. "expired" \in Holds
    BY DEF Holds
  <2> QED BY <1>8, <2>1 DEF Lapsed, IInv, TypeOK, HoldFollowsJourney
<1> QED BY <1>4, <1>5, <1>6, <1>7, <1>8 DEF RowStep

(***************************************************************************)
(* IInv holds of every reachable state.                                     *)
(***************************************************************************)
THEOREM Invariance == Spec => []IInv
<1>1. Init => IInv
  BY InitIInv
<1>2. IInv /\ [Next]_vars => IInv'
  BY NextShape, ShapeInv
<1> QED BY <1>1, <1>2, PTL DEF Spec

(***************************************************************************)
(* Type correctness of the attempt, reservation, notice and expiry state.   *)
(***************************************************************************)
THEOREM TypeCorrect == Spec => []TypeOK
<1>1. IInv => TypeOK
  BY DEF IInv
<1> QED BY <1>1, Invariance, PTL

(***************************************************************************)
(* Whatever interleaving of requests, callbacks, notices, polls and expiry  *)
(* runs, an ended attempt holds no RESERVED unit and a settled unit belongs *)
(* to an ended attempt.                                                     *)
(***************************************************************************)
THEOREM HoldCorrect == Spec => []HoldFollowsJourney
<1>1. IInv => HoldFollowsJourney
  BY DEF IInv
<1> QED BY <1>1, Invariance, PTL

-----------------------------------------------------------------------------
(***************************************************************************)
(* The journey the ledger sees in a status.                                 *)
(***************************************************************************)
LEMMA JourneyOfStatus ==
  /\ JourneyOf("absent") = "absent"
  /\ \A s \in Pending : JourneyOf(s) = "open"
  /\ \A s \in Terminal : JourneyOf(s) = IF s = "completed" THEN "completed" ELSE "failed"
BY DEF JourneyOf, Pending, Terminal

(***************************************************************************)
(* The starting rows are the ledger's: prepared invites are open journeys.  *)
(***************************************************************************)
LEMMA LedgerInit == Init => Ledger!Init
<1> SUFFICES ASSUME Init PROVE Ledger!Init
  OBVIOUS
<1>1. PICK legacy \in SUBSET {a \in Attempts : ProviderOf[a] = "toluna"} :
        /\ row = [a \in Attempts |->
                    IF a \in legacy
                      THEN [NewRow(NoIP) EXCEPT !.invited = TRUE]
                      ELSE [NewRow(NoIP) EXCEPT !.status = "absent"]]
        /\ hold = [a \in Attempts |-> IF a \in legacy THEN "reserved" ELSE "none"]
  BY DEF Init
<1>2. "initiated" \in Pending
  BY DEF Pending
<1>3. \A a \in Attempts :
        JourneyOf(row[a].status) = IF a \in legacy THEN "open" ELSE "absent"
  BY <1>1, <1>2, JourneyOfStatus DEF NewRow
<1>4. legacy \in SUBSET Attempts
  OBVIOUS
<1> QED BY <1>1, <1>3, <1>4 DEF Ledger!Init

(***************************************************************************)
(* Each shape is a step of the ledger: opening opens, closing ends or       *)
(* revises, touching changes nothing the ledger sees, lapsing lapses.       *)
(***************************************************************************)
LEMMA LedgerStep ==
  ASSUME IInv, RowStep
  PROVE  [Ledger!Next]_(Ledger!vars)
<1> DEFINE j == [a \in Attempts |-> JourneyOf(row[a].status)]
<1>0. /\ row \in [Attempts -> AttemptRow]
      /\ hold \in [Attempts -> Holds]
      /\ \A a \in Attempts :
           row[a].status = "absent" \/ row[a].status \in Pending
             \/ row[a].status \in Terminal
  BY DEF IInv, TypeOK, AttemptRow
<1>1. CASE UNCHANGED <<row, hold>>
  BY <1>1 DEF Ledger!vars
<1>2. ASSUME NEW a \in Attempts, NEW r \in AttemptRow,
             NEW h \in {"none", "reserved"}, Opened(a, r, h)
      PROVE  Ledger!Next
  <2>1. j[a] = "absent"
    BY <1>2, JourneyOfStatus DEF Opened
  <2>2. JourneyOf(r.status) = "open"
    BY <1>2, JourneyOfStatus DEF Opened, Pending
  <2>3. j' = [j EXCEPT ![a] = "open"]
    BY <1>0, <1>2, <2>2 DEF Opened
  <2>4. Ledger!Open(a, h = "reserved")
    BY <1>0, <1>2, <2>1, <2>3 DEF Opened, Ledger!Open
  <2> QED BY <2>4 DEF Ledger!Next
<1>3. ASSUME NEW a \in Attempts, NEW r \in AttemptRow, Closed(a, r)
      PROVE  Ledger!Next
  <2> DEFINE end == JourneyOf(r.status)
  <2>1. r.status \in Terminal /\ row[a].status # "absent"
    BY <1>3 DEF Closed
  <2>2. end = IF r.status = "completed" THEN "completed" ELSE "failed"
    BY <2>1, JourneyOfStatus
  <2>3. row' = [row EXCEPT ![a] = r]
        /\ hold' = [hold EXCEPT ![a] = Finalized(hold[a], r.status)]
    BY <1>3 DEF Closed, Record
  <2>4. j' = [j EXCEPT ![a] = end]
    BY <1>0, <2>3
  <2>5. CASE row[a].status \in Pending
    <3>1. j[a] = "open"
      BY <2>5, JourneyOfStatus
    <3>2. Ledger!End(a, end)
      BY <1>0, <2>2, <2>3, <2>4, <3>1 DEF Ledger!End, Finalized
    <3> QED BY <2>2, <3>2 DEF Ledger!Next, Ledger!Ends
  <2>6. CASE row[a].status \in Terminal
    <3>1. j[a] \in {"completed", "failed"}
      BY <2>6, JourneyOfStatus
    <3>2. hold[a] # "reserved"
      BY <2>6 DEF IInv, HoldFollowsJourney
    <3>3. hold' = hold
      BY <1>0, <2>3, <3>2 DEF Finalized
    <3>4. Ledger!Revise(a, end)
      BY <2>4, <3>1, <3>3 DEF Ledger!Revise, Ledger!Ends
    <3> QED BY <2>2, <3>4 DEF Ledger!Next, Ledger!Ends
  <2> QED BY <1>0, <2>1, <2>5, <2>6
<1>4. ASSUME NEW a \in Attempts, NEW r \in AttemptRow, Touched(a, r)
      PROVE  UNCHANGED Ledger!vars
  <2>1. row' = [row EXCEPT ![a] = r] /\ hold' = hold
    BY <1>4 DEF Touched
  <2>2. JourneyOf(r.status) = JourneyOf(row[a].status)
    BY <1>4, JourneyOfStatus DEF Touched
  <2>3. j' = j
    BY <1>0, <2>1, <2>2
  <2> QED BY <2>1, <2>3 DEF Ledger!vars
<1>5. ASSUME NEW a \in Attempts, Lapsed(a)
      PROVE  Ledger!Next
  <2>1. row[a].status \in Pending
    BY <1>0, <1>5 DEF Lapsed, IInv, HoldFollowsJourney
  <2>2. j[a] = "open"
    BY <2>1, JourneyOfStatus
  <2>3. Ledger!Lapse(a)
    BY <1>5, <2>2 DEF Lapsed, Ledger!Lapse
  <2> QED BY <2>3 DEF Ledger!Next
<1> QED BY <1>1, <1>2, <1>3, <1>4, <1>5 DEF RowStep

(***************************************************************************)
(* The attempt and reservation rows implement the ledger: every unit is     *)
(* settled exactly once, in the transaction that first ends its journey, or *)
(* lapses while the journey is open.                                        *)
(***************************************************************************)
THEOREM ImplementsLedger == Spec => LedgerSpec
<1>1. Init => Ledger!Init
  BY LedgerInit
<1>2. IInv /\ [Next]_vars => [Ledger!Next]_(Ledger!vars)
  BY NextShape, LedgerStep
<1> QED BY <1>1, <1>2, Invariance, PTL DEF Spec, LedgerSpec, Ledger!Spec
=============================================================================

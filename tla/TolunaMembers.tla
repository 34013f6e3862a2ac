----------------------------- MODULE TolunaMembers -----------------------------
(***************************************************************************)
(* The last step of a Toluna entry.  A submitted form registers the member  *)
(* or brings its profile up to date, and then asks for an invite.  Attempts *)
(* that reuse one profile share its member code.  A lock in the cache keeps *)
(* calls for one code apart; the TolunaMember row is written in the         *)
(* transaction of survey_start, which stays open until the invite has come, *)
(* long after the lock has been given back.                                 *)
(***************************************************************************)
EXTENDS Naturals, FiniteSets

CONSTANTS
  Submissions,    \* attempts whose form is submitted
  Members,        \* member codes
  MemberOf,       \* effective_profile_uid of each attempt
  Questions,      \* reference questions besides birth date and gender
  FormOf,         \* the questions of each attempt's survey at first
  Required,       \* those that a member profile needs
  Routable,       \* those that are forwarded when answered
  MaxFormChanges, \* bound: questions replaced under a submission
  MaxMemberFaults \* bound: lost answers, killed requests, overrun locks

NotAnyone == "nobody"

ASSUME MemberAssumption ==
  /\ NotAnyone \notin Submissions
  /\ MemberOf \in [Submissions -> Members]
  /\ FormOf \in [Submissions -> SUBSET Questions]
  /\ Required \subseteq Questions
  /\ Routable \subseteq Questions
  /\ MaxFormChanges \in Nat
  /\ MaxMemberFaults \in Nat

VARIABLES
  forms,       \* the question rows of each attempt's survey
  submission,  \* the request of each attempt
  member,      \* the committed TolunaMember rows
  written,     \* each request's uncommitted row
  memberLock,  \* who holds toluna:member-lock
  profile,     \* what Toluna has for each member
  accepted,    \* history: every profile Toluna has accepted
  doubtful,    \* history: members whose profile was accepted and the row not written
  outlived,    \* history: members whose lock expired under a request at work
  formChanges,
  memberFaults

memberVars == <<forms, submission, member, written, memberLock, profile,
                accepted, doubtful, outlived, formChanges, memberFaults>>

\* profile_hash is a function of the payload, which stands for it.
MemberRow == [known : BOOLEAN, registered : BOOLEAN, hash : SUBSET Questions]
NoMember  == [known |-> FALSE, registered |-> FALSE, hash |-> {}]

\* From "loading" to "unlinking" a request holds the lock, as far as it knows.
Locked == {"loading", "calling", "called", "answered", "conflict", "unlocking", "unlinking"}

Open == {"submitted", "locking", "invite"} \cup Locked

NewSubmission ==
  [pc |-> "form", answered |-> {}, payload |-> {}, method |-> "POST", failed |-> FALSE,
   found |-> NoMember]

EndedAs(pc) == [NewSubmission EXCEPT !.pc = pc]

MemberTypeOK ==
  /\ forms \in [Submissions -> SUBSET Questions]
  /\ submission \in
       [Submissions ->
         [pc : Open \cup {"form", "sent", "rejected"}, answered : SUBSET Questions,
          payload : SUBSET Questions, method : {"POST", "PUT"}, failed : BOOLEAN,
          found : MemberRow]]
  /\ member \in [Members -> MemberRow]
  /\ written \in [Submissions -> MemberRow]
  /\ \A e \in Submissions : written[e].known => submission[e].pc \in Open
  /\ memberLock \in [Members -> Submissions \cup {NotAnyone}]
  /\ profile \in [Members -> [known : BOOLEAN, sent : SUBSET Questions]]
  /\ accepted \in [Members -> SUBSET SUBSET Questions]
  /\ doubtful \subseteq Members
  /\ outlived \subseteq Members
  /\ formChanges \in 0 .. MaxFormChanges
  /\ memberFaults \in 0 .. MaxMemberFaults

MemberInit ==
  /\ forms = FormOf
  /\ submission = [e \in Submissions |-> NewSubmission]
  /\ member = [m \in Members |-> NoMember]
  /\ written = [e \in Submissions |-> NoMember]
  /\ memberLock = [m \in Members |-> NotAnyone]
  /\ profile = [m \in Members |-> [known |-> FALSE, sent |-> {}]]
  /\ accepted = [m \in Members |-> {}]
  /\ doubtful = {}
  /\ outlived = {}
  /\ formChanges = 0
  /\ memberFaults = 0

Sharing(e) == {f \in Submissions \ {e} : MemberOf[f] = MemberOf[e]}

MemberFault == memberFaults < MaxMemberFaults /\ memberFaults' = memberFaults + 1

-----------------------------------------------------------------------------
(* The form and the payload *)

\* A refresh replaces the survey's questions after the answers were read.
FormChanges(e, f) ==
  /\ formChanges < MaxFormChanges
  /\ submission[e].pc = "submitted"
  /\ f # forms[e]
  /\ formChanges' = formChanges + 1
  /\ forms' = [forms EXCEPT ![e] = f]
  /\ UNCHANGED <<submission, member, written, memberLock, profile,
                 accepted, doubtful, outlived, memberFaults>>

\* The form asks for what it shows as required.
SubmitForm(e, as) ==
  /\ submission[e].pc = "form"
  /\ as \subseteq forms[e] /\ Required \cap forms[e] \subseteq as
  /\ submission' = [submission EXCEPT ![e] =
                      [NewSubmission EXCEPT !.pc = "submitted", !.answered = as]]
  /\ UNCHANGED <<forms, member, written, memberLock, profile, accepted,
                 doubtful, outlived, formChanges, memberFaults>>

\* The survey's details have gone stale, or no open quota fits the answers.
TurnAway(e) ==
  /\ submission[e].pc = "submitted"
  /\ submission' = [submission EXCEPT ![e] = NewSubmission]
  /\ UNCHANGED <<forms, member, written, memberLock, profile, accepted,
                 doubtful, outlived, formChanges, memberFaults>>

\* _member_payload, by the questions of this moment: it fails without a required
\* answer and leaves out an optional one that is not routable.  An answer without a
\* trusted mapping counts as none.
Lacking(e, f) == (Required \cap f) \ submission[e].answered

MemberPayload(e, f) == f \cap submission[e].answered \cap (Required \cup Routable)

BuildPayload(e) ==
  /\ submission[e].pc = "submitted"
  /\ \/ /\ Lacking(e, forms[e]) # {}
        /\ submission' = [submission EXCEPT ![e] = NewSubmission]
     \/ /\ Lacking(e, forms[e]) = {}
        /\ submission' = [submission EXCEPT ![e].pc = "locking", ![e].answered = {},
                            ![e].payload = MemberPayload(e, forms[e])]
  /\ UNCHANGED <<forms, member, written, memberLock, profile, accepted,
                 doubtful, outlived, formChanges, memberFaults>>

-----------------------------------------------------------------------------
(* _register_member *)

\* Faulty: nobody looks whether the key exists.
MemberLockFreeAlways(e) == TRUE

\* cache.add
MemberLockFree(e) == memberLock[MemberOf[e]] = NotAnyone

TakeMemberLock(e) ==
  /\ submission[e].pc = "locking"
  /\ MemberLockFree(e)
  /\ memberLock' = [memberLock EXCEPT ![MemberOf[e]] = e]
  /\ submission' = [submission EXCEPT ![e].pc = "loading"]
  /\ UNCHANGED <<forms, member, written, profile, accepted, doubtful,
                 outlived, formChanges, memberFaults>>

\* Two seconds pass: the respondent is asked to submit again.
MemberLockBusy(e) ==
  /\ submission[e].pc = "locking"
  /\ memberLock[MemberOf[e]] # NotAnyone
  /\ submission' = [submission EXCEPT ![e] = NewSubmission]
  /\ UNCHANGED <<forms, member, written, memberLock, profile, accepted,
                 doubtful, outlived, formChanges, memberFaults>>

\* Faulty: a registered member is never brought up to date.
UnchangedIfKnown(e, r) == r.registered

UnchangedMember(e, r) == r.registered /\ r.hash = submission[e].payload

\* get_or_create reads what is committed; to insert, it waits for another request's
\* uncommitted insert to be decided.
LoadMember(e) ==
  LET r == member[MemberOf[e]] IN
  /\ submission[e].pc = "loading"
  /\ r.known \/ \A f \in Sharing(e) : ~written[f].known
  /\ written' = [written EXCEPT ![e] = IF r.known THEN NoMember
                                       ELSE [NoMember EXCEPT !.known = TRUE]]
  /\ submission' = [submission EXCEPT
                      ![e].found = r,
                      ![e].method = IF r.registered THEN "PUT" ELSE "POST",
                      ![e].pc = IF UnchangedMember(e, r) THEN "unlocking" ELSE "calling"]
  /\ UNCHANGED <<forms, member, memberLock, profile, accepted, doubtful,
                 outlived, formChanges, memberFaults>>

\* The throttle marker of an earlier call only delays this one.
StartMemberCall(e) ==
  /\ submission[e].pc = "calling"
  /\ submission' = [submission EXCEPT ![e].pc = "called"]
  /\ UNCHANGED <<forms, member, written, memberLock, profile, accepted, doubtful,
                 outlived, formChanges, memberFaults>>

\* Toluna answers 409 to a POST for a member it has.
TolunaTakes(e) ==
  LET m == MemberOf[e] IN
  /\ submission[e].pc = "called"
  /\ \/ /\ submission[e].method = "POST" /\ profile[m].known
        /\ submission' = [submission EXCEPT ![e].pc = "conflict"]
        /\ UNCHANGED <<profile, accepted>>
     \/ /\ submission[e].method = "PUT" \/ ~profile[m].known
        /\ profile' = [profile EXCEPT ![m] = [known |-> TRUE, sent |-> submission[e].payload]]
        /\ accepted' = [accepted EXCEPT ![m] = @ \cup {submission[e].payload}]
        /\ submission' = [submission EXCEPT ![e].pc = "answered"]
  /\ UNCHANGED <<forms, member, written, memberLock, doubtful, outlived,
                 formChanges, memberFaults>>

RetryAsPut(e) ==
  /\ submission[e].pc = "conflict"
  /\ submission' = [submission EXCEPT ![e].pc = "calling", ![e].method = "PUT"]
  /\ UNCHANGED <<forms, member, written, memberLock, profile, accepted,
                 doubtful, outlived, formChanges, memberFaults>>

\* The call fails, or its answer is lost after Toluna has taken the profile; the
\* error that is saved goes with the transaction.
MemberCallFails(e) ==
  /\ submission[e].pc \in {"called", "answered"}
  /\ MemberFault
  /\ submission' = [submission EXCEPT ![e].pc = "unlocking", ![e].failed = TRUE]
  /\ doubtful' = IF submission[e].pc = "answered" THEN doubtful \cup {MemberOf[e]}
                 ELSE doubtful
  /\ UNCHANGED <<forms, member, written, memberLock, profile, accepted,
                 outlived, formChanges>>

\* Faulty: the hash is stored at the first registration only.
RegisteredRowOnce(e) ==
  [known |-> TRUE, registered |-> TRUE,
   hash |-> IF submission[e].found.registered THEN submission[e].found.hash
            ELSE submission[e].payload]

RegisteredRow(e) == [known |-> TRUE, registered |-> TRUE, hash |-> submission[e].payload]

\* The UPDATE waits for another request's uncommitted write of the row.
SaveMember(e) ==
  /\ submission[e].pc = "answered"
  /\ \A f \in Sharing(e) : ~written[f].known
  /\ written' = [written EXCEPT ![e] = RegisteredRow(e)]
  /\ submission' = [submission EXCEPT ![e].pc = "unlocking"]
  /\ UNCHANGED <<forms, member, memberLock, profile, accepted, doubtful,
                 outlived, formChanges, memberFaults>>

\* cache.get and cache.delete are two commands.
CheckMemberLock(e) ==
  /\ submission[e].pc = "unlocking"
  /\ submission' = [submission EXCEPT ![e].pc =
                      IF memberLock[MemberOf[e]] = e THEN "unlinking" ELSE "invite"]
  /\ UNCHANGED <<forms, member, written, memberLock, profile, accepted,
                 doubtful, outlived, formChanges, memberFaults>>

DeleteMemberLock(e) ==
  /\ submission[e].pc = "unlinking"
  /\ memberLock' = [memberLock EXCEPT ![MemberOf[e]] = NotAnyone]
  /\ submission' = [submission EXCEPT ![e].pc = "invite"]
  /\ UNCHANGED <<forms, member, written, profile, accepted, doubtful,
                 outlived, formChanges, memberFaults>>

-----------------------------------------------------------------------------
(* build_outbound_url and the end of the transaction *)

GrantInvite(e) ==
  /\ submission[e].pc = "invite" /\ ~submission[e].failed
  /\ member' = [member EXCEPT ![MemberOf[e]] = IF written[e].known THEN written[e] ELSE @]
  /\ written' = [written EXCEPT ![e] = NoMember]
  /\ submission' = [submission EXCEPT ![e] = EndedAs("sent")]
  /\ UNCHANGED <<forms, memberLock, profile, accepted, doubtful,
                 outlived, formChanges, memberFaults>>

\* Faulty: the row survives the transaction that fails.
RolledBackNot(e) == written

RolledBack(e) == [written EXCEPT ![e] = NoMember]

\* Whatever is raised inside the atomic block takes the row's changes back: "form"
\* after a technical error, "rejected" after a result of Toluna's.
EndWithoutInvite(e, pc) ==
  /\ submission[e].pc = "invite"
  /\ submission[e].failed => pc = "form"
  /\ written' = RolledBack(e)
  /\ submission' = [submission EXCEPT ![e] = EndedAs(pc)]
  /\ doubtful' = IF written[e].registered THEN doubtful \cup {MemberOf[e]} ELSE doubtful
  /\ UNCHANGED <<forms, member, memberLock, profile, accepted, outlived,
                 formChanges, memberFaults>>

RequestKilled(e) ==
  /\ submission[e].pc \in Open
  /\ MemberFault
  /\ written' = RolledBack(e)
  /\ submission' = [submission EXCEPT ![e] = NewSubmission]
  /\ doubtful' = IF written[e].registered \/ submission[e].pc = "answered"
                   THEN doubtful \cup {MemberOf[e]} ELSE doubtful
  /\ UNCHANGED <<forms, member, memberLock, profile, accepted, outlived,
                 formChanges>>

\* 45 seconds: the owner is gone, or its calls take longer than that.
MemberLockExpires(m) ==
  LET owner == memberLock[m] IN
  /\ owner # NotAnyone
  /\ memberLock' = [memberLock EXCEPT ![m] = NotAnyone]
  /\ \/ submission[owner].pc \notin Locked /\ UNCHANGED <<outlived, memberFaults>>
     \/ submission[owner].pc \in Locked /\ MemberFault /\ outlived' = outlived \cup {m}
  /\ UNCHANGED <<forms, submission, member, written, profile, accepted,
                 doubtful, formChanges>>

-----------------------------------------------------------------------------

RegisterMember(e) ==
  \/ TakeMemberLock(e) \/ MemberLockBusy(e) \/ LoadMember(e) \/ StartMemberCall(e)
  \/ TolunaTakes(e) \/ RetryAsPut(e) \/ MemberCallFails(e) \/ SaveMember(e)
  \/ CheckMemberLock(e) \/ DeleteMemberLock(e)

MemberNext ==
  \/ \E m \in Members : MemberLockExpires(m)
  \/ \E e \in Submissions :
       \/ \E f \in SUBSET Questions : FormChanges(e, f) \/ SubmitForm(e, f)
       \/ TurnAway(e) \/ BuildPayload(e) \/ RegisterMember(e) \/ GrantInvite(e)
       \/ RequestKilled(e)
       \/ \E pc \in {"form", "rejected"} : EndWithoutInvite(e, pc)

MemberSpec == MemberInit /\ [][MemberNext]_memberVars

-----------------------------------------------------------------------------
(* Properties *)

(***************************************************************************)
(* "Register/update the member before requesting an invite": Toluna has     *)
(* accepted exactly this attempt's profile by the time its invite is asked  *)
(* for, whether this request sent it or relied on the row that an earlier   *)
(* one committed.                                                           *)
(***************************************************************************)
InvitedWasRegistered ==
  \A e \in Submissions :
    submission[e].pc = "invite" /\ ~submission[e].failed
      => submission[e].payload \in accepted[MemberOf[e]]

(***************************************************************************)
(* While no request is at work on a member, the hash of its row, on which   *)
(* the next request skips the call, is that of the profile Toluna has.  It  *)
(* may not be once a request's transaction has been taken back after Toluna *)
(* had accepted the profile, or the lock was outlived.                      *)
(***************************************************************************)
RowMatchesToluna ==
  \A m \in Members \ (doubtful \cup outlived) :
    /\ member[m].registered
    /\ \A e \in Submissions : MemberOf[e] = m => submission[e].pc \notin Open
    => profile[m].sent = member[m].hash

(***************************************************************************)
(* "Toluna explicitly rejects near-simultaneous calls for the same          *)
(* MemberCode": no two requests have a call in progress for one member,     *)
(* unless one has outlived the lock.                                        *)
(***************************************************************************)
OneCallPerMember ==
  \A m \in Members \ outlived :
    Cardinality({e \in Submissions :
      MemberOf[e] = m /\ submission[e].pc \in {"called", "answered"}}) =< 1

(***************************************************************************)
(* What the registration of a member promises (_register_member,            *)
(* build_outbound_url), whatever requests share the profile, fail or are    *)
(* killed.                                                                  *)
(***************************************************************************)
MemberInv == MemberTypeOK /\ InvitedWasRegistered /\ RowMatchesToluna /\ OneCallPerMember
=============================================================================

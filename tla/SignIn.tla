-------------------------------- MODULE SignIn --------------------------------
(***************************************************************************)
(* feishu_auth in approval mode: who gets a session, and how the answer of *)
(* an administrator reaches browsers that hold signed cookies the server   *)
(* cannot recall.  A Feishu account applies after its sign-in; a guest     *)
(* applies through a shared link whose key can be rotated and is then      *)
(* known by a cookie, or by a personal recovery link.                      *)
(*                                                                         *)
(* A request of an administrator checks the administrator's session and    *)
(* then writes to the store: other requests may come in between.           *)
(***************************************************************************)
EXTENDS Naturals

CONSTANTS Browsers,
          Users,      \* Feishu accounts that need an approval
          Guests,     \* guest ids that may be generated
          Boss,       \* the administrator of the configuration
          Nobody

Applicants == Users \cup Guests

VARIABLES
    record,     \* AccessStore: status and role of an applicant
    linked,     \* a guest link has been generated
    session,    \* per browser: SESSION_KEY
    parked,     \* per browser: PENDING_SESSION_KEY
    cookie,     \* per browser: the guest cookie
    recovery,   \* guests with an unexpired recovery link
    desk,       \* per browser: an administrator's request past its check
    told        \* notifications sent about an applicant

store == <<record, linked, told>>
browser == <<session, parked, cookie>>
vars == <<store, browser, recovery, desk>>

NoSession == [who |-> Nobody, via |-> "none"]
NoRequest == [what |-> "none", whom |-> Nobody]

(***************************************************************************)
(* What a request sees.                                                    *)
(***************************************************************************)

Approved(i) == i \in Applicants /\ record[i].status = "approved"
Known(g) == g \in Guests /\ record[g].status # "none"

\* _session_user: the store is asked again on every request.
SignedIn(b) == \/ session[b].via = "admin"
               \/ session[b].via \in {"approved", "guest"} /\ Approved(session[b].who)

\* _is_admin
Admin(b) == /\ SignedIn(b)
            /\ session[b].who \in {Boss} \cup {i \in Applicants : record[i].role = "admin"}

\* _resume_guest_session
Resumes(b) == ~SignedIn(b) /\ Approved(cookie[b])

\* _grant_session drops the parked identity.
Grant(b, who, via) ==
    /\ session' = [session EXCEPT ![b] = [who |-> who, via |-> via]]
    /\ parked' = [parked EXCEPT ![b] = Nobody]

Park(b, who) == parked' = [parked EXCEPT ![b] = who] /\ UNCHANGED session

\* _notify_new_request
Notified(i) == told' = [told EXCEPT ![i] = @ + 1]

\* AccessStore.request: only the first contact makes a row and a notification.
Requested(i) ==
    IF record[i].status = "none"
    THEN /\ record' = [record EXCEPT ![i].status = "pending"]
         /\ Notified(i)
    ELSE UNCHANGED <<record, told>>

(***************************************************************************)
(* Feishu accounts.                                                        *)
(***************************************************************************)

\* feishu_callback: the administrator gets in, others by their row or wait.
Callback(b, who) ==
    /\ IF who = Boss THEN Grant(b, who, "admin")
       ELSE IF Approved(who) THEN Grant(b, who, "approved")
       ELSE Park(b, who)
    /\ UNCHANGED <<store, cookie, recovery, desk>>

\* feishu_request_access: the button of the waiting page.
Apply(b) ==
    /\ ~SignedIn(b) /\ parked[b] \in Users
    /\ Requested(parked[b])
    /\ UNCHANGED <<linked, browser, recovery, desk>>

\* feishu_pending_status: the poll of the waiting page lets an approved one in.
Poll(b) ==
    /\ ~SignedIn(b) /\ ~Resumes(b) /\ Approved(parked[b])
    /\ Grant(b, parked[b], IF parked[b] \in Guests THEN "guest" ELSE "approved")
    /\ UNCHANGED <<store, cookie, recovery, desk>>

(***************************************************************************)
(* Guests.                                                                 *)
(***************************************************************************)

\* guest_page with a cookie of a guest who is not approved: the waiting page.
GuestPage(b) ==
    /\ ~Resumes(b) /\ Known(cookie[b])
    /\ Park(b, cookie[b])
    /\ UNCHANGED <<store, cookie, recovery, desk>>

\* A returning guest is known by the cookie.
GuestOf(b) == IF Known(cookie[b]) THEN {cookie[b]} ELSE {g \in Guests : ~Known(g)}

\* guest_request_access; with the key of a link rotated since nothing happens.
GuestRequest(b) ==
    /\ linked
    /\ \E g \in GuestOf(b) :
         /\ Requested(g)
         /\ Park(b, g)
         /\ cookie' = [cookie EXCEPT ![b] = g]
    /\ UNCHANGED <<linked, recovery, desk>>

\* guest_page with a recovery link.
Recover(b, g) ==
    /\ g \in recovery /\ Approved(g)
    /\ Grant(b, g, "guest")
    /\ cookie' = [cookie EXCEPT ![b] = g]
    /\ UNCHANGED <<store, recovery, desk>>

(***************************************************************************)
(* Any other request, sign-out and time.                                   *)
(***************************************************************************)

\* _feishu_auth_guard: a guest is resumed; a session the store no longer backs
\* is dropped from the cookie.
Guard(b) ==
    /\ ~SignedIn(b)
    /\ IF Resumes(b) THEN Grant(b, cookie[b], "guest")
       ELSE session[b] # NoSession /\ session' = [session EXCEPT ![b] = NoSession] /\ UNCHANGED parked
    /\ UNCHANGED <<store, cookie, recovery, desk>>

\* feishu_logout keeps the guest cookie.
Logout(b) ==
    /\ session[b] # NoSession \/ parked[b] # Nobody
    /\ session' = [session EXCEPT ![b] = NoSession]
    /\ parked' = [parked EXCEPT ![b] = Nobody]
    /\ UNCHANGED <<store, cookie, recovery, desk>>

\* session_hours pass; a recovery link ends after a week.
SessionExpires(b) ==
    /\ session[b] # NoSession
    /\ session' = [session EXCEPT ![b] = NoSession]
    /\ UNCHANGED <<store, parked, cookie, recovery, desk>>

RecoveryExpires(g) ==
    /\ g \in recovery
    /\ recovery' = recovery \ {g}
    /\ UNCHANGED <<store, browser, desk>>

(***************************************************************************)
(* Administration.                                                         *)
(***************************************************************************)

\* _require_admin and the checks on the applicant.
Check(b, what, whom) ==
    /\ desk[b] = NoRequest /\ Admin(b)
    /\ CASE what = "rotate" -> whom = Nobody
         [] what = "recover" -> whom \in Guests /\ Approved(whom)
         [] OTHER -> whom \in Applicants /\ record[whom].status # "none"
    /\ desk' = [desk EXCEPT ![b] = [what |-> what, whom |-> whom]]
    /\ UNCHANGED <<store, browser, recovery>>

\* AccessStore.decide: a rejection takes the role too.
Decided(i, status) ==
    record' = [record EXCEPT ![i] =
        [status |-> status, role |-> IF status = "rejected" THEN "user" ELSE @.role]]

\* The role is written whatever became of the row since the check.
RoledAlways(i, role) == record' = [record EXCEPT ![i].role = role]

\* AccessStore.set_role: the approval is looked at in the same statement.
Roled(i, role) ==
    IF Approved(i) THEN record' = [record EXCEPT ![i].role = role] ELSE UNCHANGED record

\* reset_guest_key: there is a link, and it is a new one.
Rotated == linked' = TRUE

\* What the handler then does with the store.
Land(b) ==
    LET what == desk[b].what
        whom == desk[b].whom IN
      /\ what # "none"
      /\ CASE what = "approve" -> Decided(whom, "approved") /\ UNCHANGED <<linked, recovery>>
           [] what = "reject" -> Decided(whom, "rejected") /\ UNCHANGED <<linked, recovery>>
           [] what = "promote" -> Roled(whom, "admin") /\ UNCHANGED <<linked, recovery>>
           [] what = "demote" -> Roled(whom, "user") /\ UNCHANGED <<linked, recovery>>
           [] what = "rotate" -> Rotated /\ UNCHANGED <<record, recovery>>
           [] what = "recover" -> recovery' = recovery \cup {whom} /\ UNCHANGED <<record, linked>>
      /\ desk' = [desk EXCEPT ![b] = NoRequest]
      /\ UNCHANGED <<told, browser>>

Init ==
    /\ record = [i \in Applicants |-> [status |-> "none", role |-> "user"]]
    /\ linked = FALSE /\ recovery = {}
    /\ session = [b \in Browsers |-> NoSession]
    /\ parked = [b \in Browsers |-> Nobody]
    /\ cookie = [b \in Browsers |-> Nobody]
    /\ desk = [b \in Browsers |-> NoRequest]
    /\ told = [i \in Applicants |-> 0]

Requests == {"approve", "reject", "promote", "demote", "rotate", "recover"}

Next ==
    \/ \E b \in Browsers :
         \/ \E who \in Users \cup {Boss} : Callback(b, who)
         \/ Apply(b) \/ Poll(b)
         \/ GuestPage(b) \/ GuestRequest(b)
         \/ \E g \in Guests : Recover(b, g)
         \/ Guard(b) \/ Logout(b) \/ SessionExpires(b)
         \/ \E what \in Requests, whom \in Applicants \cup {Nobody} : Check(b, what, whom)
         \/ Land(b)
    \/ \E g \in Guests : RecoveryExpires(g)

Spec == Init /\ [][Next]_vars
------------------------------------------------------------------------------
TypeOK ==
    /\ record \in [Applicants -> [status : {"none", "pending", "approved", "rejected"},
                                  role : {"user", "admin"}]]
    /\ linked \in BOOLEAN /\ recovery \subseteq Guests
    /\ session \in [Browsers -> [who : Applicants \cup {Boss, Nobody},
                                 via : {"none", "admin", "approved", "guest"}]]
    /\ parked \in [Browsers -> Applicants \cup {Nobody}]
    /\ cookie \in [Browsers -> Guests \cup {Nobody}]
    /\ desk \in [Browsers -> [what : Requests \cup {"none"}, whom : Applicants \cup {Nobody}]]
    /\ told \in [Applicants -> Nat]

(***************************************************************************)
(* The administrator's role belongs to approved rows only, in whatever     *)
(* order two administrators promote, reject and approve the same person:   *)
(* an approval after a rejection never brings the role back                *)
(* (AccessStore.decide, set_role).                                         *)
(***************************************************************************)
AdminsAreApproved ==
    \A i \in Applicants : record[i].role = "admin" => record[i].status = "approved"

(***************************************************************************)
(* However often and in how many browsers the waiting page or the form is  *)
(* sent, the administrators are told of an applicant once and a rejection  *)
(* stands until an administrator approves (AccessStore.request).           *)
(***************************************************************************)
Answering ==
    \A i \in Applicants :
        /\ told'[i] # told[i] => told[i] = 0
        /\ record[i].status = "rejected" /\ record'[i].status # "rejected"
               => \E b \in Browsers : desk[b] = [what |-> "approve", whom |-> i]
==============================================================================

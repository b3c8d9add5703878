----------------------------- MODULE MonitorProofs -----------------------------
(***************************************************************************)
(* The safety properties MCMonitor checks, for every value of its          *)
(* constants, one part after the other.                                    *)
(***************************************************************************)
EXTENDS MCMonitor, WellFoundedInduction, TLAPS

(***************************************************************************)
(* Sign-in.  Only four actions write to the store; the invariant says what *)
(* they may find there, whatever came between the check of an              *)
(* administrator's request and its effect.                                 *)
(***************************************************************************)
AccessRows == [status : {"none", "pending", "approved", "rejected"}, role : {"user",
"admin"}]

Desks == [Browsers ->
    [what : Access!Requests \cup {"none"}, whom : Access!Applicants \cup {None}]]

\* What the store holds.
StoreOK ==
    /\ sRecord \in [Access!Applicants -> AccessRows]
    /\ sTold \in [Access!Applicants -> Nat]
    /\ sDesk \in Desks

\* Nobody was told of an applicant without a row.
ToldByRow == \A i \in Access!Applicants : sRecord[i].status = "none" => sTold[i] = 0

\* A request past its check is about an applicant with a row, who never loses it.
DeskKnows ==
    \A b \in Browsers : sDesk[b].what \in {"approve", "reject", "promote", "demote"} =>
        sDesk[b].whom \in Access!Applicants /\ sRecord[sDesk[b].whom].status # "none"

SignInInv == StoreOK /\ ToldByRow /\ DeskKnows /\ Access!AdminsAreApproved

\* What a step may do to the store.
Answered ==
    \A i \in Access!Applicants :
        /\ sTold'[i] # sTold[i] => sTold[i] = 0
        /\ sRecord[i].status # "none" => sRecord'[i].status # "none"
        /\ sRecord[i].status = "rejected" /\ sRecord'[i].status # "rejected"
               => \E b \in Browsers : sDesk[b] = [what |-> "approve", whom |-> i]

-----------------------------------------------------------------------------
LEMMA InitSignIn == ASSUME Access!Init PROVE SignInInv
<1>1. StoreOK
    BY DEF Access!Init, StoreOK, Desks, AccessRows, Access!NoRequest, Access!Requests
<1>2. ToldByRow /\ Access!AdminsAreApproved
    BY DEF Access!Init, ToldByRow, Access!AdminsAreApproved
<1>3. DeskKnows  BY DEF Access!Init, DeskKnows, Access!NoRequest
<1>. QED  BY <1>1, <1>2, <1>3 DEF SignInInv

\* AccessStore.request makes one row and one notification, of the first contact.
LEMMA RequestKeeps ==
    ASSUME SignInInv, NEW i \in Access!Applicants, Access!Requested(i), sDesk' = sDesk
    PROVE  SignInInv' /\ Answered
<1>1. CASE sRecord[i].status # "none"
    BY <1>1 DEF Access!Requested, SignInInv, StoreOK, ToldByRow, DeskKnows,
        Access!AdminsAreApproved, Answered
<1>2. CASE sRecord[i].status = "none"
    <2>1. /\ sRecord' = [sRecord EXCEPT ![i].status = "pending"]
          /\ sTold' = [sTold EXCEPT ![i] = @ + 1]
        BY <1>2 DEF Access!Requested, Access!Notified
    <2>2. sRecord[i] \in AccessRows /\ sRecord[i].role = "user" /\ sTold[i] = 0
        BY <1>2 DEF SignInInv, StoreOK, ToldByRow, Access!AdminsAreApproved, AccessRows
    <2>3. [sRecord[i] EXCEPT !.status = "pending"] \in AccessRows  BY <2>2 DEF AccessRows
    <2>4. StoreOK'  BY <2>1, <2>2, <2>3 DEF SignInInv, StoreOK
    <2>5. sRecord' = [sRecord EXCEPT ![i] = [sRecord[i] EXCEPT !.status = "pending"]]
        BY <2>1
    <2>6. sRecord'[i].status = "pending" /\ sRecord'[i].role = "user"
        BY <2>2, <2>5 DEF SignInInv, StoreOK, AccessRows
    <2>7. \A j \in Access!Applicants : j # i => sRecord'[j] = sRecord[j] /\ sTold'[j] = sTold[j]
        BY <2>1 DEF SignInInv, StoreOK
    <2>8. ToldByRow'  BY <2>6, <2>7 DEF SignInInv, ToldByRow
    <2>9. Access!AdminsAreApproved'  BY <2>6, <2>7 DEF SignInInv, Access!AdminsAreApproved
    <2>10. DeskKnows'  BY <2>6, <2>7 DEF SignInInv, DeskKnows
    <2>11. Answered  BY <1>2, <2>2, <2>6, <2>7 DEF Answered
    <2>. QED  BY <2>4, <2>8, <2>9, <2>10, <2>11 DEF SignInInv
<1>. QED  BY <1>1, <1>2

\* A row that stays a row, with a role only if it is approved.
LEMMA RowChanges ==
    ASSUME SignInInv, NEW i \in Access!Applicants, NEW r \in AccessRows, r.status # "none",
           r.role = "admin" => r.status = "approved",
           r.status # "rejected" /\ sRecord[i].status = "rejected" =>
               \E b \in Browsers : sDesk[b] = [what |-> "approve", whom |-> i],
           sRecord' = [sRecord EXCEPT ![i] = r], sTold' = sTold,
           \A b \in Browsers : sDesk'[b] \in {sDesk[b], Access!NoRequest},
           sDesk' \in Desks
    PROVE  SignInInv' /\ Answered
<1>1. sRecord'[i] = r /\ \A j \in Access!Applicants : j # i => sRecord'[j] = sRecord[j]
    BY DEF SignInInv, StoreOK
<1>2. StoreOK'  BY DEF SignInInv, StoreOK
<1>3. ToldByRow' /\ Access!AdminsAreApproved'
    BY <1>1 DEF SignInInv, ToldByRow, Access!AdminsAreApproved
<1>4. DeskKnows'
    <2>1. SUFFICES ASSUME NEW b \in Browsers,
                          sDesk'[b].what \in {"approve", "reject", "promote", "demote"}
                   PROVE  sDesk'[b].whom \in Access!Applicants /\ sRecord'[sDesk'[b].whom].status # "none"
        BY DEF DeskKnows
    <2>2. sDesk'[b] = sDesk[b]  BY <2>1 DEF Access!NoRequest
    <2>. QED  BY <2>1, <2>2, <1>1 DEF SignInInv, DeskKnows
<1>5. Answered  BY <1>1 DEF Answered
<1>. QED  BY <1>2, <1>3, <1>4, <1>5 DEF SignInInv

\* Where the store is left alone, requests may be checked and dropped.
LEMMA StoreAlone ==
    ASSUME SignInInv, sRecord' = sRecord, sTold' = sTold,
           \A b \in Browsers :
               \/ sDesk'[b] \in {sDesk[b], Access!NoRequest}
               \/ /\ sDesk'[b].what \in Access!Requests
                  /\ sDesk'[b].what \in {"approve", "reject", "promote", "demote"} =>
                        sDesk'[b].whom \in Access!Applicants /\ sRecord[sDesk'[b].whom].status # "none",
           sDesk' \in Desks
    PROVE  SignInInv' /\ Answered
<1>1. StoreOK' /\ ToldByRow' /\ Access!AdminsAreApproved'
    BY DEF SignInInv, StoreOK, ToldByRow, Access!AdminsAreApproved
<1>2. DeskKnows'  BY DEF SignInInv, DeskKnows, Access!NoRequest
<1>3. Answered  BY DEF Answered
<1>. QED  BY <1>1, <1>2, <1>3 DEF SignInInv

\* An administrator's request passes its check.
LEMMA CheckKeeps ==
    ASSUME SignInInv, NEW b \in Browsers, NEW what \in Access!Requests,
           NEW whom \in Access!Applicants \cup {None}, Access!Check(b, what, whom)
    PROVE  SignInInv' /\ Answered
<1>1. sDesk' = [sDesk EXCEPT ![b] = [what |-> what, whom |-> whom]]  BY DEF Access!Check
<1>2. sRecord' = sRecord /\ sTold' = sTold  BY DEF Access!Check, Access!store
<1>3. what \in {"approve", "reject", "promote", "demote"} =>
          whom \in Access!Applicants /\ sRecord[whom].status # "none"
    BY DEF Access!Check, Access!Requests
<1>4. sDesk' \in Desks
    BY <1>1 DEF SignInInv, StoreOK, Desks
<1>5. /\ sDesk'[b] = [what |-> what, whom |-> whom]
      /\ \A c \in Browsers : c # b => sDesk'[c] = sDesk[c]
    BY <1>1 DEF SignInInv, StoreOK, Desks
<1>. QED  BY <1>2, <1>3, <1>4, <1>5, StoreAlone

\* AccessStore.decide and set_role on what the row is by then.
LEMMA LandKeeps ==
    ASSUME SignInInv, NEW b \in Browsers, Access!Land(b)
    PROVE  SignInInv' /\ Answered
<1>. DEFINE what == sDesk[b].what
            whom == sDesk[b].whom
<1>1. /\ sDesk[b] = [what |-> what, whom |-> whom]
      /\ what \in Access!Requests /\ whom \in Access!Applicants \cup {None}
    BY DEF Access!Land, SignInInv, StoreOK, Desks
<1>2. sDesk' = [sDesk EXCEPT ![b] = Access!NoRequest] /\ sTold' = sTold  BY DEF Access!Land
<1>3. /\ sDesk' \in Desks
      /\ \A c \in Browsers : sDesk'[c] \in {sDesk[c], Access!NoRequest}
    BY <1>2 DEF SignInInv, StoreOK, Desks, Access!NoRequest
<1>4. what \in {"approve", "reject", "promote", "demote"} =>
          /\ whom \in Access!Applicants /\ sRecord[whom] \in AccessRows
          /\ sRecord[whom].status # "none"
          /\ sRecord[whom].role = "admin" => sRecord[whom].status = "approved"
    BY DEF SignInInv, StoreOK, DeskKnows, Access!AdminsAreApproved
<1>5. CASE what = "approve"
    <2>. DEFINE r == [status |-> "approved", role |-> sRecord[whom].role]
    <2>1. sRecord' = [sRecord EXCEPT ![whom] = r]
        BY <1>4, <1>5 DEF Access!Land, Access!Decided, SignInInv, StoreOK
    <2>2. r \in AccessRows  BY <1>4, <1>5 DEF AccessRows
    <2>3. sDesk[b] = [what |-> "approve", whom |-> whom]  BY <1>1, <1>5
    <2>. QED  BY <1>2, <1>3, <1>4, <1>5, <2>1, <2>2, <2>3, RowChanges
<1>6. CASE what = "reject"
    <2>. DEFINE r == [status |-> "rejected", role |-> "user"]
    <2>1. sRecord' = [sRecord EXCEPT ![whom] = r]
        BY <1>4, <1>6 DEF Access!Land, Access!Decided, SignInInv, StoreOK
    <2>2. r \in AccessRows  BY DEF AccessRows
    <2>. QED  BY <1>2, <1>3, <1>4, <1>6, <2>1, <2>2, RowChanges
<1>7. ASSUME NEW role \in {"user", "admin"}, Access!Roled(whom, role),
    whom \in Access!Applicants,
             sRecord[whom] \in AccessRows
      PROVE  SignInInv' /\ Answered
    <2>1. CASE Access!Approved(whom)
        <3>. DEFINE r == [sRecord[whom] EXCEPT !.role = role]
        <3>1. sRecord' = [sRecord EXCEPT ![whom] = r]  BY <1>7, <2>1 DEF Access!Roled
        <3>2. r \in AccessRows /\ r.status = "approved"
            BY <1>7, <2>1 DEF AccessRows, Access!Approved
        <3>3. sRecord[whom].status = "approved"  BY <2>1 DEF Access!Approved
        <3>. QED  BY <1>2, <1>3, <1>7, <3>1, <3>2, <3>3, RowChanges
    <2>2. CASE ~Access!Approved(whom)
        BY <1>2, <1>3, <1>7, <2>2, StoreAlone DEF Access!Roled
    <2>. QED  BY <2>1, <2>2
<1>8. CASE what = "promote"  BY <1>4, <1>7, <1>8 DEF Access!Land
<1>9. CASE what = "demote"  BY <1>4, <1>7, <1>9 DEF Access!Land
<1>10. CASE what \in {"rotate", "recover"}
    <2>1. sRecord' = sRecord  BY <1>10 DEF Access!Land
    <2>. QED  BY <1>2, <1>3, <2>1, StoreAlone
<1>. QED  BY <1>1, <1>5, <1>6, <1>8, <1>9, <1>10 DEF Access!Requests

LEMMA AccessStep ==
    ASSUME SignInInv, [Access!Next]_Access!vars
    PROVE  SignInInv' /\ Answered
<1>1. ASSUME sRecord' = sRecord, sTold' = sTold, sDesk' = sDesk PROVE SignInInv' /\ Answered
    BY <1>1, StoreAlone DEF SignInInv, StoreOK
<1>2. ASSUME NEW b \in Browsers, NEW who \in Users \cup {Boss}, Access!Callback(b, who)
      PROVE  SignInInv' /\ Answered
    BY <1>1, <1>2 DEF Access!Callback, Access!store
<1>3. ASSUME NEW b \in Browsers, Access!Apply(b) PROVE SignInInv' /\ Answered
    BY <1>3, RequestKeeps DEF Access!Apply, Access!Applicants
<1>4. ASSUME NEW b \in Browsers,
             Access!Poll(b) \/ Access!GuestPage(b) \/ Access!Guard(b)
             \/ Access!Logout(b) \/ Access!SessionExpires(b)
      PROVE  SignInInv' /\ Answered
    BY <1>1, <1>4 DEF Access!Poll, Access!GuestPage, Access!Guard, Access!Logout,
        Access!SessionExpires, Access!store
<1>5. ASSUME NEW b \in Browsers, Access!GuestRequest(b) PROVE SignInInv' /\ Answered
    <2>1. PICK g \in Access!GuestOf(b) : Access!Requested(g)
        BY <1>5 DEF Access!GuestRequest
    <2>2. g \in Access!Applicants /\ sDesk' = sDesk
        BY <1>5, <2>1 DEF Access!GuestRequest, Access!GuestOf, Access!Known,
            Access!Applicants
    <2>. QED  BY <2>1, <2>2, RequestKeeps
<1>6. ASSUME NEW b \in Browsers, NEW g \in Guests, Access!Recover(b, g)
    PROVE SignInInv' /\ Answered
    BY <1>1, <1>6 DEF Access!Recover, Access!store
<1>7. ASSUME NEW g \in Guests, Access!RecoveryExpires(g) PROVE SignInInv' /\ Answered
    BY <1>1, <1>7 DEF Access!RecoveryExpires, Access!store
<1>8. CASE UNCHANGED Access!vars  BY <1>1, <1>8 DEF Access!vars, Access!store
<1>. QED  BY <1>2, <1>3, <1>4, <1>5, <1>6, <1>7, <1>8, CheckKeeps, LandKeeps DEF Access!Next

LEMMA AccessInductive == Access!Spec => []SignInInv
<1>1. SignInInv /\ [Access!Next]_Access!vars => SignInInv'  BY AccessStep
<1>. QED  BY <1>1, InitSignIn, PTL DEF Access!Spec
\* A behaviour of MCMonitor is one of every part.
LEMMA AccessBehaves == MCSpec => Access!Spec
<1>1. MCInit => Access!Init  BY DEF MCInit
<1>2. [MCNext]_MCVars => [Access!Next]_Access!vars
  BY DEF MCNext, MCVars, sVars, Access!vars, Access!store, Access!browser
<1>. QED  BY <1>1, <1>2, PTL DEF MCSpec, Access!Spec

\* Only approved rows have the administrator's role, in whatever order two
\* administrators promote, reject and approve; the administrators are told of an
\* applicant once, and a rejection stands until one of them approves
\* (AccessStore.decide, set_role, request).
THEOREM AccessIsGrantedHolds == MCSpec => AccessIsGranted
<1>1. SignInInv => (focus = "access" => Access!AdminsAreApproved)  BY DEF SignInInv
<1>2. SignInInv /\ [Access!Next]_Access!vars => [focus = "access" => Access!Answering]_sVars
  BY AccessStep DEF Answered, Access!Answering
<1>. QED
  BY <1>1, <1>2, AccessBehaves, AccessInductive, PTL DEF AccessIsGranted, Access!Spec

-------------------------------------------------------------------------------
(***************************************************************************)
(* Publishing.  A call carries with it the content it read and the author  *)
(* it bound; the invariant says what these have to do with the shared      *)
(* database, which others write meanwhile.                                 *)
(***************************************************************************)
\* Where a call knows its content, where it knows what the article will show,
\* and where publish() has found no record of success.
HasGif == {"stored", "uploading", "ready", "assigned", "prepared", "sending", "answered"}
HasImage == {"ready", "assigned", "prepared", "sending", "answered"}
Past == {"assigned", "prepared", "sending", "answered"}

Calls == [at : {"idle", "reading"} \cup HasGif, op : Publisher!Operations \cup {None},
          event : Events \cup {None}, gif : Gifs \cup {None}, shown : Gifs \cup {None},
          author : Accounts \cup {None}]

WorldOK ==
    /\ pSource \in [Events -> Gifs]
    /\ pUploaded \in [Events -> Gifs \cup {None}]
    /\ pPool \subseteq Accounts
    /\ pRule \in [Processes -> Publisher!Rules]
StateOK ==
    /\ WorldOK
    /\ pAssigned \in [Publisher!Matches -> Accounts \cup {None}]
    /\ pCall \in [Processes -> Calls]

\* What a call at c.at has put together.
CallOK(c) ==
    /\ c.at # "idle" => c.event \in Events /\ c.op \in Publisher!Operations
    /\ c.at \in HasGif => c.gif \in Gifs
    /\ c.at \in HasImage => c.shown = c.gif
    /\ c.at = "idle" => c.author = None
    /\ c.author # None => c.event \in Events

\* An author once bound to a match is the author of its calls and articles.
Bound == \A p \in Processes :
    pCall[p].author # None => pCall[p].author = pAssigned[Match[pCall[p].event]]
Authored == \A a \in pArticles :
    /\ a.shown = a.gif /\ a.event \in Events
    /\ a.author # None => a.author = pAssigned[Match[a.event]]

PublisherInv ==
    /\ StateOK /\ (\A p \in Processes : CallOK(pCall[p]))
    /\ Bound /\ Authored

\* One process has the pages that publish, and a call of publish() that is past
\* its look at the record will not find one of success.
OnePublisher == \A p, q \in Publishes : p = q
Unpublished ==
    /\ DOMAIN pRecords = Events \X Gifs
    /\ \A p \in Processes : pCall[p].at # "idle" /\ pCall[p].op = "publish" =>
          /\ p \in Publishes
          /\ pCall[p].at \in Past => pRecords[Publisher!Id(p)] # "success"

-----------------------------------------------------------------------------
LEMMA IdleCall ==
    /\ Publisher!NoCall \in Calls /\ CallOK(Publisher!NoCall)
    /\ Publisher!NoCall.author = None /\ Publisher!NoCall.op = None /\ Publisher!NoCall.at = "idle"
BY DEF Publisher!NoCall, Calls, CallOK, HasGif, HasImage

LEMMA InitPublisher == ASSUME Publisher!Init PROVE PublisherInv /\ Unpublished
<1>1. StateOK  BY IdleCall DEF Publisher!Init, StateOK, WorldOK, Publisher!Rules
<1>2. (\A p \in Processes : CallOK(pCall[p])) /\ Bound /\ Authored
    BY IdleCall DEF Publisher!Init, Bound, Authored
<1>3. Unpublished  BY IdleCall DEF Publisher!Init, Unpublished
<1>. QED  BY <1>1, <1>2, <1>3 DEF PublisherInv

\* A step that takes the call of p to c, with the author it had or the match's.
LEMMA CallStep ==
    ASSUME PublisherInv, NEW p \in Processes, NEW c \in Calls, CallOK(c),
           pCall' = [pCall EXCEPT ![p] = c],
           c.author # None => c.author = pAssigned[Match[c.event]],
           pAssigned' = pAssigned, pArticles' = pArticles, WorldOK'
    PROVE  PublisherInv'
<1>1. pCall'[p] = c /\ \A q \in Processes : q # p => pCall'[q] = pCall[q]
    BY DEF PublisherInv, StateOK
<1>2. StateOK'  BY DEF PublisherInv, StateOK
<1>3. \A q \in Processes : CallOK(pCall[q])'  BY <1>1 DEF PublisherInv, CallOK
<1>4. Bound'  BY <1>1 DEF PublisherInv, Bound
<1>5. Authored'  BY DEF PublisherInv, Authored
<1>. QED  BY <1>2, <1>3, <1>4, <1>5 DEF PublisherInv

\* The call ends.
LEMMA EndStep ==
    ASSUME PublisherInv, NEW p \in Processes, pCall' = Publisher!Ends(p),
           pAssigned' = pAssigned, pArticles' = pArticles, WorldOK'
    PROVE  PublisherInv'
BY IdleCall, CallStep DEF Publisher!Ends

\* The call goes on to the next place, as it is.
LEMMA MoveStep ==
    ASSUME PublisherInv, NEW p \in Processes, NEW at \in HasGif,
           pCall[p].at \in HasGif, at \in HasImage => pCall[p].at \in HasImage,
           pCall' = Publisher!At(p, at), pAssigned' = pAssigned, pArticles' = pArticles,
           WorldOK'
    PROVE  PublisherInv'
<1>. DEFINE c == [pCall[p] EXCEPT !.at = at]
<1>1. pCall[p] \in Calls /\ CallOK(pCall[p])  BY DEF PublisherInv, StateOK
<1>2. c \in Calls  BY <1>1 DEF Calls
<1>3. /\ c.at = at /\ c.op = pCall[p].op /\ c.event = pCall[p].event /\ c.gif = pCall[p].gif
      /\ c.shown = pCall[p].shown /\ c.author = pCall[p].author
    BY <1>1 DEF Calls
<1>4. CallOK(c)  BY <1>1, <1>3 DEF CallOK, HasGif
<1>5. c.author # None => c.author = pAssigned[Match[c.event]]
    BY <1>3 DEF PublisherInv, Bound
<1>6. pCall' = [pCall EXCEPT ![p] = c]  BY DEF Publisher!At, PublisherInv, StateOK
<1>. QED  BY <1>2, <1>4, <1>5, <1>6, CallStep

-----------------------------------------------------------------------------
(* The steps of a call *)

LEMMA BeginKeeps ==
    ASSUME PublisherInv, NEW p \in Processes, NEW e \in Events,
           NEW op \in Publisher!Operations, Publisher!Begin(p, e, op)
    PROVE  PublisherInv'
<1>. DEFINE c == [Publisher!NoCall EXCEPT !.at = "reading", !.op = op, !.event = e]
<1>1. c \in Calls /\ CallOK(c) /\ c.author = None
    BY IdleCall DEF Calls, CallOK, HasGif, HasImage
<1>2. WorldOK'  BY DEF PublisherInv, StateOK, WorldOK, Publisher!Begin, Publisher!durable
<1>. QED  BY <1>1, <1>2, CallStep DEF Publisher!Begin, Publisher!durable

LEMMA StoreGifKeeps ==
    ASSUME PublisherInv, NEW p \in Processes, Publisher!StoreGif(p) PROVE PublisherInv'
<1>1. WorldOK'  BY DEF PublisherInv, StateOK, WorldOK, Publisher!StoreGif
<1>2. CASE pCall' = Publisher!Ends(p)  BY <1>1, <1>2, EndStep DEF Publisher!StoreGif
<1>3. CASE pCall' = [pCall EXCEPT ![p].gif = pSource[pCall[p].event], ![p].at = "stored"]
    <2>. DEFINE c == [pCall[p] EXCEPT !.gif = pSource[pCall[p].event], !.at = "stored"]
    <2>1. pCall[p] \in Calls /\ CallOK(pCall[p]) /\ pCall[p].at = "reading"
        BY DEF PublisherInv, StateOK, Publisher!StoreGif
    <2>2. pSource[pCall[p].event] \in Gifs
        BY <2>1 DEF PublisherInv, StateOK, WorldOK, CallOK
    <2>3. c \in Calls /\ c.author = pCall[p].author /\ c.event = pCall[p].event /\ CallOK(c)
        BY <2>1, <2>2 DEF Calls, CallOK, HasGif, HasImage
    <2>4. pCall' = [pCall EXCEPT ![p] = c]  BY <1>3 DEF PublisherInv, StateOK
    <2>5. c.author # None => c.author = pAssigned[Match[c.event]]
        BY <2>3 DEF PublisherInv, Bound
    <2>. QED  BY <1>1, <2>3, <2>4, <2>5, CallStep DEF Publisher!StoreGif
<1>. QED  BY <1>2, <1>3 DEF Publisher!StoreGif

\* What is shown is the content that was read, from the cache or uploaded.
LEMMA ImageStep ==
    ASSUME PublisherInv, NEW p \in Processes, pCall[p].at \in {"stored", "uploading"},
           pCall' = [pCall EXCEPT ![p].shown = pCall[p].gif, ![p].at = "ready"],
           pAssigned' = pAssigned, pArticles' = pArticles, WorldOK'
    PROVE  PublisherInv'
<1>. DEFINE c == [pCall[p] EXCEPT !.shown = pCall[p].gif, !.at = "ready"]
<1>1. pCall[p] \in Calls /\ CallOK(pCall[p]) /\ pCall[p].at \in HasGif
    BY DEF PublisherInv, StateOK, HasGif
<1>2. c \in Calls /\ c.author = pCall[p].author /\ c.event = pCall[p].event /\ CallOK(c)
    BY <1>1 DEF Calls, CallOK, HasGif, HasImage
<1>3. pCall' = [pCall EXCEPT ![p] = c]  BY DEF PublisherInv, StateOK
<1>4. c.author # None => c.author = pAssigned[Match[c.event]]
    BY <1>2 DEF PublisherInv, Bound
<1>. QED  BY <1>2, <1>3, <1>4, CallStep

LEMMA MakeCoverKeeps ==
    ASSUME PublisherInv, NEW p \in Processes, Publisher!MakeCover(p) PROVE PublisherInv'
<1>1. WorldOK'
    BY DEF PublisherInv, StateOK, WorldOK, Publisher!MakeCover, Publisher!durable
<1>2. CASE pCall' = Publisher!Ends(p)
    BY <1>1, <1>2, EndStep DEF Publisher!MakeCover, Publisher!durable
<1>3. CASE pCall' = Publisher!At(p, "uploading")
    BY <1>1, <1>3, MoveStep DEF Publisher!MakeCover, Publisher!durable, HasGif, HasImage
<1>4. CASE /\ Publisher!Reusable(p, pCall[p].gif)
           /\ pCall' = [pCall EXCEPT ![p].shown = pUploaded[pCall[p].event],
                                          ![p].at = "ready"]
    BY <1>1, <1>4, ImageStep DEF Publisher!MakeCover, Publisher!durable, Publisher!Reusable
<1>. QED  BY <1>2, <1>3, <1>4 DEF Publisher!MakeCover

LEMMA UploadKeeps ==
    ASSUME PublisherInv, NEW p \in Processes,
           Publisher!UploadImages(p) \/ Publisher!UploadRemote(p)
    PROVE  PublisherInv'
<1>1. /\ pCall[p].at = "uploading" /\ pArticles' = pArticles /\ pAssigned' = pAssigned
      /\ \/ pCall' = Publisher!Ends(p)
         \/ pCall' = [pCall EXCEPT ![p].shown = pCall[p].gif, ![p].at = "ready"]
    BY DEF Publisher!UploadImages, Publisher!UploadRemote, Publisher!Mapped
<1>2. pCall[p].gif \in Gifs  BY <1>1 DEF PublisherInv, CallOK, HasGif
<1>3. pUploaded' \in {pUploaded, [pUploaded EXCEPT ![pCall[p].event] = pCall[p].gif]}
    BY DEF Publisher!UploadImages, Publisher!UploadRemote, Publisher!Mapped
<1>4. WorldOK'
    BY <1>2, <1>3 DEF PublisherInv, StateOK, WorldOK, Publisher!UploadImages,
        Publisher!UploadRemote
<1>. QED  BY <1>1, <1>4, EndStep, ImageStep

\* The one step that binds an author, to a match that has none.
LEMMA AssignKeeps ==
    ASSUME PublisherInv, NEW p \in Processes, Publisher!Assign(p) PROVE PublisherInv'
<1>. DEFINE m == Match[pCall[p].event]
<1>1. WorldOK'  BY DEF PublisherInv, StateOK, WorldOK, Publisher!Assign
<1>2. /\ pCall[p] \in Calls /\ CallOK(pCall[p]) /\ pCall[p].at = "ready"
      /\ pCall[p].event \in Events /\ m \in Publisher!Matches
    BY DEF PublisherInv, StateOK, Publisher!Assign, CallOK, Publisher!Matches
<1>3. CASE pCall' = Publisher!At(p, "assigned") /\ pAssigned' = pAssigned
    BY <1>1, <1>2, <1>3, MoveStep DEF Publisher!Assign, HasGif, HasImage
<1>4. CASE pCall' = Publisher!Ends(p) /\ pAssigned' = pAssigned
    BY <1>1, <1>4, EndStep DEF Publisher!Assign
<1>5. CASE \E a \in Publisher!Chosen(p, m) :
             /\ pAssigned' = [pAssigned EXCEPT ![m] = a]
             /\ pCall' = [pCall EXCEPT ![p].author = a, ![p].at = "assigned"]
    <2>1. PICK a \in Publisher!Chosen(p, m) :
             /\ pAssigned' = [pAssigned EXCEPT ![m] = a]
             /\ pCall' = [pCall EXCEPT ![p].author = a, ![p].at = "assigned"]
        BY <1>5
    <2>2. a \in Accounts /\ (pAssigned[m] # None => a = pAssigned[m])
        BY <1>2, <2>1 DEF Publisher!Chosen, Publisher!LeastUsed, PublisherInv, StateOK,
            WorldOK, Publisher!Rules
    <2>3. \A n \in Publisher!Matches : pAssigned[n] # None => pAssigned'[n] = pAssigned[n]
        BY <2>1, <2>2 DEF PublisherInv, StateOK
    <2>. DEFINE c == [pCall[p] EXCEPT !.author = a, !.at = "assigned"]
    <2>4. c \in Calls /\ c.author = a /\ c.event = pCall[p].event /\ CallOK(c)
        BY <1>2, <2>2 DEF Calls, CallOK, HasGif, HasImage
    <2>5. pCall' = [pCall EXCEPT ![p] = c]  BY <2>1 DEF PublisherInv, StateOK
    <2>. HIDE DEF c
    <2>6. pCall'[p] = c /\ \A q \in Processes : q # p => pCall'[q] = pCall[q]
        BY <2>5 DEF PublisherInv, StateOK
    <2>7. pAssigned' \in [Publisher!Matches -> Accounts \cup {None}] /\ pAssigned'[m] = a
        BY <1>2, <2>1, <2>2 DEF PublisherInv, StateOK
    <2>8. StateOK'  BY <1>1, <2>4, <2>5, <2>7 DEF PublisherInv, StateOK
    <2>9. \A q \in Processes : CallOK(pCall[q])'  BY <2>4, <2>6 DEF PublisherInv, CallOK
    <2>10. Bound'
        <3>1. SUFFICES ASSUME NEW q \in Processes, pCall'[q].author # None
                       PROVE  pCall'[q].author = pAssigned'[Match[pCall'[q].event]]
            BY DEF Bound
        <3>2. CASE q = p  BY <2>4, <2>6, <2>7, <3>2
        <3>3. CASE q # p
            <4>1. pCall[q].event \in Events /\ pCall[q].author = pAssigned[Match[pCall[q].event]]
                BY <2>6, <3>1, <3>3 DEF PublisherInv, Bound, CallOK
            <4>. QED  BY <2>3, <2>6, <3>1, <3>3, <4>1 DEF Publisher!Matches
        <3>. QED  BY <3>2, <3>3
    <2>11. Authored'
        BY <2>3 DEF PublisherInv, Authored, Publisher!Matches, Publisher!Assign
    <2>. QED  BY <2>8, <2>9, <2>10, <2>11 DEF PublisherInv
<1>. QED  BY <1>3, <1>4, <1>5 DEF Publisher!Assign

\* The platform takes an article that shows what was read and has the match's author.
LEMMA SendKeeps ==
    ASSUME PublisherInv, NEW p \in Processes, Publisher!Send(p) PROVE PublisherInv'
<1>1. WorldOK'  BY DEF PublisherInv, StateOK, WorldOK, Publisher!Send
<1>2. /\ pCall[p].at = "sending" /\ pCall[p].event \in Events /\ pCall[p].shown = pCall[p].gif
      /\ pCall[p].author # None => pCall[p].author = pAssigned[Match[pCall[p].event]]
    BY DEF PublisherInv, Publisher!Send, CallOK, Bound, HasImage
<1>3. pAssigned' = pAssigned  BY DEF Publisher!Send
<1>4. Authored'
    <2>1. pArticles' \in {pArticles, Publisher!Updated(p),
        pArticles \cup {Publisher!Article(p)}}  BY DEF Publisher!Send
    <2>2. SUFFICES ASSUME NEW x \in pArticles'
                   PROVE  /\ x.shown = x.gif /\ x.event \in Events
                          /\ x.author # None => x.author = pAssigned[Match[x.event]]
        BY <1>3 DEF Authored
    <2>3. CASE x \in pArticles  BY <2>3 DEF PublisherInv, Authored
    <2>4. CASE x = Publisher!Article(p)  BY <1>2, <2>4 DEF Publisher!Article
    <2>5. CASE x \in Publisher!Updated(p) /\ x \notin pArticles
        <3>1. PICK a \in pArticles : a.event = pCall[p].event /\
                x = [Publisher!Article(p) EXCEPT !.author = IF @ = None THEN a.author ELSE @]
            BY <2>5 DEF Publisher!Updated
        <3>2. a.author # None => a.author = pAssigned[Match[a.event]]
            BY DEF PublisherInv, Authored
        <3>. QED  BY <1>2, <3>1, <3>2 DEF Publisher!Article
    <2>. QED  BY <2>1, <2>3, <2>4, <2>5
<1>5. \/ pCall' = Publisher!At(p, "answered") \/ pCall' = Publisher!Ends(p)
    BY DEF Publisher!Send
<1>6. StateOK' /\ (\A q \in Processes : CallOK(pCall[q])') /\ Bound'
    <2>. DEFINE c == IF pCall' = Publisher!Ends(p) THEN Publisher!NoCall ELSE [pCall[p] EXCEPT !.at = "answered"]
    <2>1. pCall[p] \in Calls /\ CallOK(pCall[p])  BY DEF PublisherInv, StateOK
    <2>2. /\ c \in Calls /\ CallOK(c)
          /\ c.author # None => c.author = pAssigned[Match[c.event]]
        BY <1>2, <2>1, IdleCall DEF Calls, CallOK, HasGif, HasImage
    <2>3. pCall' = [pCall EXCEPT ![p] = c]  BY <1>5 DEF Publisher!Ends, Publisher!At,
        PublisherInv, StateOK
    <2>. HIDE DEF c
    <2>4. pCall'[p] = c /\ \A q \in Processes : q # p => pCall'[q] = pCall[q]
        BY <2>3 DEF PublisherInv, StateOK
    <2>5. StateOK'  BY <1>1, <1>3, <2>2, <2>3 DEF PublisherInv, StateOK
    <2>6. \A q \in Processes : CallOK(pCall[q])'  BY <2>2, <2>4 DEF PublisherInv, CallOK
    <2>7. Bound'  BY <1>3, <2>2, <2>4 DEF PublisherInv, Bound
    <2>. QED  BY <2>5, <2>6, <2>7
<1>. QED  BY <1>4, <1>6 DEF PublisherInv

LEMMA RecordKeeps ==
    ASSUME PublisherInv, NEW p \in Processes,
           Publisher!Replay(p) \/ Publisher!SavePrepared(p)
           \/ Publisher!VerifyMedia(p) \/ Publisher!SaveSuccess(p)
    PROVE  PublisherInv'
<1>1. /\ WorldOK' /\ pAssigned' = pAssigned /\ pArticles' = pArticles
    BY DEF PublisherInv, StateOK, WorldOK, Publisher!Replay, Publisher!SavePrepared,
        Publisher!VerifyMedia, Publisher!SaveSuccess, Publisher!durable
<1>2. CASE pCall' = Publisher!Ends(p)  BY <1>1, <1>2, EndStep
<1>3. CASE pCall' = Publisher!At(p, "prepared") /\ pCall[p].at = "assigned"
    BY <1>1, <1>3, MoveStep DEF HasGif, HasImage
<1>4. CASE pCall' = Publisher!At(p, "sending") /\ pCall[p].at = "prepared"
    BY <1>1, <1>4, MoveStep DEF HasGif, HasImage
<1>. QED  BY <1>2, <1>3, <1>4 DEF Publisher!Replay, Publisher!SavePrepared,
    Publisher!VerifyMedia, Publisher!SaveSuccess

\* Crashes, new encodings and edits of the pool touch no author and no article.
LEMMA WorldKeeps ==
    ASSUME PublisherInv,
           \/ \E p \in Processes : Publisher!Restart(p)
           \/ \E e \in Events : Publisher!EncodeAgain(e)
           \/ Publisher!ReplaceAccounts
    PROVE  PublisherInv'
<1>1. ASSUME NEW p \in Processes, Publisher!Restart(p) PROVE PublisherInv'
    <2>1. WorldOK'
        BY <1>1 DEF PublisherInv, StateOK, WorldOK, Publisher!Restart, Publisher!durable
    <2>. QED  BY <1>1, <2>1, EndStep DEF Publisher!Restart, Publisher!durable
<1>2. ASSUME NEW e \in Events, Publisher!EncodeAgain(e) PROVE PublisherInv'
    BY <1>2 DEF Publisher!EncodeAgain, Publisher!durable, PublisherInv, StateOK, WorldOK,
        CallOK, Bound, Authored
<1>3. CASE Publisher!ReplaceAccounts
    BY <1>3 DEF Publisher!ReplaceAccounts, Publisher!durable, PublisherInv, StateOK,
        WorldOK, CallOK, Bound, Authored
<1>. QED  BY <1>1, <1>2, <1>3

LEMMA PublisherStep ==
    ASSUME PublisherInv, [Publisher!Next]_Publisher!vars PROVE PublisherInv'
<1>1. CASE UNCHANGED Publisher!vars
    BY <1>1 DEF Publisher!vars, Publisher!durable, PublisherInv, StateOK, WorldOK,
        CallOK, Bound, Authored
<1>. QED
    BY <1>1, BeginKeeps, StoreGifKeeps, MakeCoverKeeps, UploadKeeps, AssignKeeps, SendKeeps,
       RecordKeeps, WorldKeeps DEF Publisher!Next, Publisher!Step

\* ShownIsRead and OneAuthor are two sides of what is said of an article.
LEMMA ArticlesHold == PublisherInv => Publisher!OneAuthor /\ Publisher!ShownIsRead
BY DEF PublisherInv, Authored, Publisher!OneAuthor, Publisher!ShownIsRead

-----------------------------------------------------------------------------
(* Success is recorded once *)

\* A step of p that may write the record of what p publishes.
LEMMA RecordStep ==
    ASSUME PublisherInv, Unpublished, OnePublisher, NEW p \in Processes, NEW c,
           pCall' = [pCall EXCEPT ![p] = c], DOMAIN pRecords' = DOMAIN pRecords,
           c.at # "idle" /\ c.op = "publish" =>
              p \in Publishes /\ (c.at \in Past => pRecords'[<<c.event,
              c.gif>>] # "success"),
           pRecords' = pRecords \/ (pCall[p].op = "publish" /\ pCall[p].at # "idle")
    PROVE  Unpublished'
<1>1. pCall'[p] = c /\ \A q \in Processes : q # p => pCall'[q] = pCall[q]
    BY DEF PublisherInv, StateOK
<1>2. SUFFICES ASSUME NEW q \in Processes, pCall'[q].at # "idle", pCall'[q].op = "publish"
               PROVE  q \in Publishes /\ (pCall'[q].at \in Past => pRecords'[Publisher!Id(q)'] # "success")
    BY DEF Unpublished, Publisher!Id
<1>3. CASE q = p  BY <1>1, <1>2, <1>3 DEF Publisher!Id
<1>4. CASE q # p
    <2>1. q \in Publishes /\ (pCall[q].at \in Past => pRecords[Publisher!Id(q)] # "success")
        BY <1>1, <1>2, <1>4 DEF Unpublished
    <2>2. pRecords' = pRecords  BY <1>4, <2>1 DEF Unpublished, OnePublisher
    <2>. QED  BY <1>1, <1>4, <2>1, <2>2 DEF Publisher!Id
<1>. QED  BY <1>3, <1>4

\* A call that ends is idle, whatever it wrote.
LEMMA EndRecord ==
    ASSUME PublisherInv, Unpublished, OnePublisher, NEW p \in Processes,
    pCall' = Publisher!Ends(p),
           DOMAIN pRecords' = DOMAIN pRecords,
           pRecords' = pRecords \/ (pCall[p].op = "publish" /\ pCall[p].at # "idle")
    PROVE  Unpublished'
BY IdleCall, RecordStep DEF Publisher!Ends

\* A call that goes on keeps what it is about; past the look at the record it
\* has written something else than success, or nothing.
LEMMA MoveRecord ==
    ASSUME PublisherInv, Unpublished, OnePublisher, NEW p \in Processes, NEW c,
           pCall' = [pCall EXCEPT ![p] = c], pCall[p].at # "idle", c.op = pCall[p].op,
           c.at \in Past => /\ c.event = pCall[p].event /\ c.gif = pCall[p].gif
                            /\ pCall[p].op = "publish" => pRecords'[Publisher!Id(p)] # "success",
           DOMAIN pRecords' = DOMAIN pRecords,
           pRecords' = pRecords \/ pCall[p].op = "publish"
    PROVE  Unpublished'
<1>1. pCall[p].op = "publish" => p \in Publishes  BY DEF Unpublished
<1>. QED  BY <1>1, RecordStep DEF Publisher!Id

LEMMA RecordedFacts ==
    ASSUME PublisherInv, Unpublished, NEW p \in Processes, pCall[p].at \in HasGif, NEW s,
           pRecords' = Publisher!Recorded(p, s)
    PROVE  /\ DOMAIN pRecords' = DOMAIN pRecords
           /\ pRecords' = pRecords \/ pCall[p].op = "publish"
           /\ pCall[p].op = "publish" => pRecords'[Publisher!Id(p)] = s
           /\ \A x \in Events \X Gifs :
                pRecords'[x] = pRecords[x]
                \/ (pCall[p].op = "publish" /\ x = Publisher!Id(p))
<1>1. Publisher!Id(p) \in Events \X Gifs  BY DEF PublisherInv, CallOK, Publisher!Id, HasGif
<1>. QED  BY <1>1 DEF Publisher!Recorded, Unpublished

\* The steps before the look at the record write none.
LEMMA EarlyRecord ==
    ASSUME PublisherInv, Unpublished, OnePublisher, NEW p \in Processes,
           Publisher!StoreGif(p) \/ Publisher!MakeCover(p)
           \/ Publisher!UploadImages(p) \/ Publisher!UploadRemote(p)
    PROVE  Unpublished'
<1>1. pCall[p].at # "idle" /\ pRecords' = pRecords /\ pCall[p] \in Calls
    BY DEF Publisher!StoreGif, Publisher!MakeCover, Publisher!UploadImages,
        Publisher!UploadRemote, Publisher!durable, PublisherInv, StateOK
<1>2. CASE pCall' = Publisher!Ends(p)  BY <1>1, <1>2, EndRecord
<1>3. ASSUME NEW c, pCall' = [pCall EXCEPT ![p] = c], c.op = pCall[p].op, c.at \notin Past
      PROVE  Unpublished'
    BY <1>1, <1>3, MoveRecord
<1>4. CASE pCall' = [pCall EXCEPT ![p].gif = pSource[pCall[p].event], ![p].at = "stored"]
    <2>. DEFINE c == [pCall[p] EXCEPT !.gif = pSource[pCall[p].event], !.at = "stored"]
    <2>1. c.op = pCall[p].op /\ c.at = "stored"  BY <1>1 DEF Calls
    <2>2. pCall' = [pCall EXCEPT ![p] = c]  BY <1>4 DEF PublisherInv, StateOK
    <2>. QED  BY <1>3, <2>1, <2>2 DEF Past
<1>5. ASSUME NEW g, pCall' = [pCall EXCEPT ![p].shown = g, ![p].at = "ready"]
      PROVE  Unpublished'
    <2>. DEFINE c == [pCall[p] EXCEPT !.shown = g, !.at = "ready"]
    <2>1. c.op = pCall[p].op /\ c.at = "ready"  BY <1>1 DEF Calls
    <2>2. pCall' = [pCall EXCEPT ![p] = c]  BY <1>5 DEF PublisherInv, StateOK
    <2>. QED  BY <1>3, <2>1, <2>2 DEF Past
<1>6. CASE pCall' = Publisher!At(p, "uploading")
    <2>. DEFINE c == [pCall[p] EXCEPT !.at = "uploading"]
    <2>1. c.op = pCall[p].op /\ c.at = "uploading"  BY <1>1 DEF Calls
    <2>2. pCall' = [pCall EXCEPT ![p] = c]  BY <1>6 DEF Publisher!At, PublisherInv, StateOK
    <2>. QED  BY <1>3, <2>1, <2>2 DEF Past
<1>. QED  BY <1>2, <1>4, <1>5, <1>6 DEF Publisher!StoreGif, Publisher!MakeCover,
    Publisher!UploadImages, Publisher!UploadRemote, Publisher!Mapped

\* publish() goes past the look at the record only if it found no success.
LEMMA AssignRecord ==
    ASSUME PublisherInv, Unpublished, OnePublisher, NEW p \in Processes, Publisher!Assign(p)
    PROVE  Unpublished'
<1>1. /\ pCall[p].at = "ready" /\ pCall[p] \in Calls /\ pRecords' = pRecords
      /\ pCall[p].op = "publish" => pRecords'[Publisher!Id(p)] # "success"
    BY DEF Publisher!Assign, Publisher!Replays, PublisherInv, StateOK
<1>2. CASE pCall' = Publisher!Ends(p)  BY <1>1, <1>2, EndRecord
<1>3. CASE pCall' = Publisher!At(p, "assigned")
    <2>. DEFINE c == [pCall[p] EXCEPT !.at = "assigned"]
    <2>1. c.op = pCall[p].op /\ c.event = pCall[p].event /\ c.gif = pCall[p].gif
        BY <1>1 DEF Calls
    <2>2. pCall' = [pCall EXCEPT ![p] = c]  BY <1>3 DEF Publisher!At, PublisherInv, StateOK
    <2>. HIDE DEF c
    <2>. QED  BY <1>1, <2>1, <2>2, MoveRecord
<1>4. ASSUME NEW a, pCall' = [pCall EXCEPT ![p].author = a, ![p].at = "assigned"]
      PROVE  Unpublished'
    <2>. DEFINE c == [pCall[p] EXCEPT !.author = a, !.at = "assigned"]
    <2>1. c.op = pCall[p].op /\ c.event = pCall[p].event /\ c.gif = pCall[p].gif
        BY <1>1 DEF Calls
    <2>2. pCall' = [pCall EXCEPT ![p] = c]  BY <1>4 DEF PublisherInv, StateOK
    <2>. HIDE DEF c
    <2>. QED  BY <1>1, <2>1, <2>2, MoveRecord
<1>. QED  BY <1>2, <1>3, <1>4 DEF Publisher!Assign

\* The steps past it write other states until the call ends.
LEMMA LateRecord ==
    ASSUME PublisherInv, Unpublished, OnePublisher, NEW p \in Processes,
           Publisher!Replay(p) \/ Publisher!SavePrepared(p)
           \/ Publisher!VerifyMedia(p) \/ Publisher!Send(p) \/ Publisher!SaveSuccess(p)
    PROVE  Unpublished'
<1>1. pCall[p].at \in HasGif /\ pCall[p].at # "idle" /\ pCall[p] \in Calls
    BY DEF Publisher!Replay, Publisher!SavePrepared, Publisher!VerifyMedia,
        Publisher!Send, Publisher!SaveSuccess, HasGif, PublisherInv, StateOK
<1>2. pRecords' = pRecords \/ \E s : pRecords' = Publisher!Recorded(p, s)
    BY DEF Publisher!Replay, Publisher!SavePrepared, Publisher!VerifyMedia,
        Publisher!Send, Publisher!SaveSuccess, Publisher!durable
<1>3. DOMAIN pRecords' = DOMAIN pRecords /\ (pRecords' = pRecords
    \/ pCall[p].op = "publish")
    BY <1>1, <1>2, RecordedFacts
<1>4. CASE pCall' = Publisher!Ends(p)  BY <1>1, <1>3, <1>4, EndRecord
<1>5. ASSUME NEW at, pCall' = Publisher!At(p, at),
             pCall[p].op = "publish" => pRecords'[Publisher!Id(p)] # "success"
      PROVE  Unpublished'
    <2>. DEFINE c == [pCall[p] EXCEPT !.at = at]
    <2>1. c.op = pCall[p].op /\ c.event = pCall[p].event /\ c.gif = pCall[p].gif
        BY <1>1 DEF Calls
    <2>2. pCall' = [pCall EXCEPT ![p] = c]  BY <1>5 DEF Publisher!At, PublisherInv, StateOK
    <2>. HIDE DEF c
    <2>. QED  BY <1>1, <1>3, <1>5, <2>1, <2>2, MoveRecord
<1>6. CASE Publisher!SavePrepared(p)
    <2>1. pRecords' = Publisher!Recorded(p, "prepared") /\ pCall' = Publisher!At(p,
        "prepared")
        BY <1>6 DEF Publisher!SavePrepared
    <2>2. pCall[p].op = "publish" => pRecords'[Publisher!Id(p)] = "prepared"
        BY <1>1, <2>1, RecordedFacts
    <2>. QED  BY <1>5, <2>1, <2>2
<1>7. CASE Publisher!VerifyMedia(p) /\ pCall' # Publisher!Ends(p)
    <2>1. pRecords' = Publisher!Recorded(p, "publishing") /\ pCall' = Publisher!At(p,
        "sending")
        BY <1>7 DEF Publisher!VerifyMedia
    <2>2. pCall[p].op = "publish" => pRecords'[Publisher!Id(p)] = "publishing"
        BY <1>1, <2>1, RecordedFacts
    <2>. QED  BY <1>5, <2>1, <2>2
<1>8. CASE Publisher!Send(p) /\ pCall' # Publisher!Ends(p)
    <2>1. pRecords' = pRecords /\ pCall' = Publisher!At(p,
        "answered") /\ pCall[p].at \in Past
        BY <1>8 DEF Publisher!Send, Past
    <2>2. pCall[p].op = "publish" => pRecords[Publisher!Id(p)] # "success"
        BY <1>1, <2>1 DEF Unpublished
    <2>. QED  BY <1>5, <2>1, <2>2
<1>. QED  BY <1>4, <1>6, <1>7, <1>8 DEF Publisher!Replay, Publisher!SaveSuccess

LEMMA UnpublishedKeeps ==
    ASSUME PublisherInv, Unpublished, OnePublisher, [Publisher!Next]_Publisher!vars
    PROVE Unpublished'
<1>1. ASSUME NEW p \in Processes, NEW e \in Events, NEW op \in Publisher!Operations,
             Publisher!Begin(p, e, op)
      PROVE  Unpublished'
    <2>. DEFINE c == [Publisher!NoCall EXCEPT !.at = "reading", !.op = op, !.event = e]
    <2>1. c.op = op /\ c.at = "reading"  BY IdleCall DEF Calls
    <2>2. /\ pCall' = [pCall EXCEPT ![p] = c] /\ pRecords' = pRecords
          /\ op = "publish" => p \in Publishes
        BY <1>1 DEF Publisher!Begin, Publisher!durable
    <2>. HIDE DEF c
    <2>. QED  BY <2>1, <2>2, RecordStep DEF Past
<1>2. ASSUME NEW p \in Processes, Publisher!Restart(p) PROVE Unpublished'
    BY <1>2, EndRecord DEF Publisher!Restart, Publisher!durable
<1>3. CASE (\E e \in Events : Publisher!EncodeAgain(e)) \/ Publisher!ReplaceAccounts
    \/ UNCHANGED Publisher!vars
    BY <1>3 DEF Publisher!EncodeAgain, Publisher!ReplaceAccounts, Publisher!vars,
        Publisher!durable, Unpublished, Publisher!Id
<1>. QED
    BY <1>1, <1>2, <1>3, EarlyRecord, AssignRecord, LateRecord
    DEF Publisher!Next, Publisher!Step

\* Only a call past the look at the record writes one or sends an article.
LEMMA StaysStep == ASSUME PublisherInv, Unpublished,
    [Publisher!Next]_Publisher!vars PROVE Publisher!StaysPublished
<1>1. SUFFICES ASSUME NEW x \in Events \X Gifs, pRecords[x] = "success"
               PROVE  /\ pRecords'[x] = "success"
                      /\ \A a \in pArticles' \ pArticles :
                            a.by # "publish" \/ <<a.event, a.gif>> # x
    BY DEF Publisher!StaysPublished
<1>2. CASE pRecords' = pRecords /\ pArticles' = pArticles  BY <1>1, <1>2
<1>3. ASSUME NEW p \in Processes,
             Publisher!SavePrepared(p) \/ Publisher!VerifyMedia(p)
             \/ Publisher!Send(p) \/ Publisher!SaveSuccess(p)
      PROVE  /\ pRecords'[x] = "success"
             /\ \A a \in pArticles' \ pArticles :
                   a.by # "publish" \/ <<a.event, a.gif>> # x
    <2>1. pCall[p].at \in HasGif /\ pCall[p].at \in Past /\ pCall[p].at # "idle"
        BY <1>3 DEF Publisher!SavePrepared, Publisher!VerifyMedia, Publisher!Send,
            Publisher!SaveSuccess, HasGif, Past
    <2>2. pCall[p].op = "publish" => Publisher!Id(p) # x  BY <1>1, <2>1 DEF Unpublished
    <2>3. pRecords' = pRecords \/ \E s : pRecords' = Publisher!Recorded(p, s)
        BY <1>3 DEF Publisher!SavePrepared, Publisher!VerifyMedia, Publisher!Send,
            Publisher!SaveSuccess
    <2>4. pRecords'[x] = "success"  BY <1>1, <2>1, <2>2, <2>3, RecordedFacts
    <2>5. pArticles' = pArticles \/ pArticles' = pArticles \cup {Publisher!Article(p)}
          \/ (pCall[p].op = "update" /\ pArticles' = Publisher!Updated(p))
        BY <1>3 DEF Publisher!SavePrepared, Publisher!VerifyMedia, Publisher!Send,
            Publisher!SaveSuccess
    <2>6. SUFFICES ASSUME NEW a \in pArticles', a \notin pArticles
                   PROVE  a.by # "publish" \/ <<a.event, a.gif>> # x
        BY <2>4
    <2>7. CASE a = Publisher!Article(p)  BY <2>2, <2>7 DEF Publisher!Article, Publisher!Id
    <2>8. CASE pCall[p].op = "update" /\ a \in Publisher!Updated(p)
        <3>1. PICK b \in pArticles :
                a = [Publisher!Article(p) EXCEPT !.author = IF @ = None THEN b.author ELSE @]
            BY <2>6, <2>8 DEF Publisher!Updated
        <3>. QED  BY <2>8, <3>1 DEF Publisher!Article
    <2>. QED  BY <2>5, <2>6, <2>7, <2>8
<1>. QED
    BY <1>2, <1>3
    DEF Publisher!Next, Publisher!Step, Publisher!Begin, Publisher!StoreGif,
    Publisher!MakeCover, Publisher!UploadImages, Publisher!UploadRemote,
    Publisher!Replay, Publisher!Assign,
        Publisher!Restart, Publisher!EncodeAgain, Publisher!ReplaceAccounts,
        Publisher!vars, Publisher!durable

LEMMA PublisherBehaves == MCSpec => Publisher!Spec
<1>1. MCInit => Publisher!Init  BY DEF MCInit
<1>2. [MCNext]_MCVars => [Publisher!Next]_Publisher!vars
  BY DEF MCNext, MCVars, pVars, Publisher!vars, Publisher!durable
<1>. QED  BY <1>1, <1>2, PTL DEF MCSpec, Publisher!Spec

\* All articles about a match carry one author and show what their call read, whoever
\* encodes and uploads meanwhile; a success once recorded for an event and a content
\* stays, and publish() sends no second article for them, also after a restart
\* (_account_for_assignment, _prepare_public_gif, publish).
THEOREM PublishedTrulyHolds == MCSpec => PublishedTruly
<1>. DEFINE Inv == PublisherInv /\ Unpublished
<1>1. OnePublisher  BY MonitorAssumption DEF OnePublisher
<1>2. Publisher!Init => Inv  BY InitPublisher
<1>3. Inv /\ [Publisher!Next]_Publisher!vars => Inv'
  BY <1>1, PublisherStep, UnpublishedKeeps
<1>4. Inv => (focus = "publish" => Publisher!OneAuthor /\ Publisher!ShownIsRead)
  BY ArticlesHold
<1>5. Inv /\ [Publisher!Next]_Publisher!vars => [focus = "publish" => Publisher!StaysPublished]_pVars
  BY <1>1, StaysStep
<1>. QED
  BY <1>2, <1>3, <1>4, <1>5, PublisherBehaves, PTL DEF PublishedTruly, Publisher!Spec
-------------------------------------------------------------------------------
(***************************************************************************)
(* The platform's token.  Between the platform's answer and its save a     *)
(* token is known to one process or tab only, so nobody else can use its   *)
(* refresh token up; a token that was used up is in the file only while    *)
(* the process that used it up is about to save its successor, or died.    *)
(***************************************************************************)
CallsAt == {"idle", "ensure", "refreshing", "refreshed", "sending"}
TabsAt == {"away", "exchange", "save", "done"}
PlatformShape ==
    /\ oRotates \in BOOLEAN /\ oIssued \in 0..MaxTokens
    /\ oRefreshOf \in [Platform!Tokens -> Nat]
    /\ oFile \in 0..oIssued
    /\ oCache \in [Servers -> (0..oIssued) \cup {Platform!Unset}]
    /\ oCall \in [Servers -> [at : CallsAt, token : 0..oIssued, tried : 0..1]]
    /\ oTab \in [Browsers -> [at : TabsAt, token : 0..oIssued]]

Refreshed(p) == oCall[p].at = "refreshed"
Signed(t) == oTab[t].at = "save"

\* An issued token that nobody can use but the one who is about to save it.
OnlyHere(n) ==
    /\ n \in 1..oIssued /\ n # oFile /\ oRefreshOf[n] \in oGrants
    /\ \A p \in Servers : n # oCache[p] /\ (oCall[p].at = "refreshing" => n # oCall[p].token)

Unsaved ==
    /\ \A p \in Servers : Refreshed(p) => OnlyHere(oCall[p].token)
    /\ \A t \in Browsers : Signed(t) => OnlyHere(oTab[t].token)
    /\ \A p, q \in Servers : Refreshed(p) /\ Refreshed(q) /\ p # q =>
          oCall[p].token # oCall[q].token
    /\ \A t, u \in Browsers : Signed(t) /\ Signed(u) /\ t # u => oTab[t].token # oTab[u].token
    /\ \A p \in Servers, t \in Browsers : Refreshed(p) /\ Signed(t) =>
          oCall[p].token # oTab[t].token

\* A platform that rotates gives every token a refresh token of its own; one that does
\* not never takes one back.
Granted ==
    /\ \A n \in 1..oIssued : IF oRotates THEN oRefreshOf[n] = n ELSE oRefreshOf[n] \in oGrants
    /\ \A p \in Servers : oCall[p].at = "refreshing" => oCall[p].token # 0

FileFollowed ==
    oFile # 0 /\ ~oLost => \/ oRefreshOf[oFile] \in oGrants
                           \/ \E p \in Servers : Refreshed(p)

PlatformInv == PlatformShape /\ Unsaved /\ Granted /\ FileFollowed

LEMMA InitPlatform == ASSUME Platform!Init PROVE PlatformInv
<1>1. PlatformShape
    BY MonitorAssumption
    DEF Platform!Init, PlatformShape, Platform!Nil, Platform!NoCall, Platform!Away, CallsAt, TabsAt
<1>2. Unsaved /\ Granted /\ FileFollowed
    BY DEF Platform!Init, Unsaved, Granted, FileFollowed, Refreshed, Signed, Platform!Nil,
           Platform!NoCall, Platform!Away
<1>. QED  BY <1>1, <1>2 DEF PlatformInv

\* A process's call goes on with what it knows; no token is issued or saved.
LEMMA CallMoves ==
    ASSUME PlatformInv, NEW p \in Servers,
           NEW c \in [at : CallsAt, token : 0..oIssued, tried : 0..1], c.at # "refreshed",
           c.at = "refreshing" => c.token # 0 /\ c.token \in {oFile, oCache[p]},
           ~Refreshed(p), oCall' = [oCall EXCEPT ![p] = c],
           NEW k \in {oFile, oCache[p]}, oCache' = [oCache EXCEPT ![p] = k],
           UNCHANGED <<oRotates, oIssued, oRefreshOf, oGrants, oFile, oTab, oLost>>
    PROVE  PlatformInv'
<1>1. oCall'[p] = c /\ \A q \in Servers : q # p => oCall'[q] = oCall[q]
    BY DEF PlatformInv, PlatformShape
<1>2. oCache'[p] = k /\ \A q \in Servers : q # p => oCache'[q] = oCache[q]
    BY DEF PlatformInv, PlatformShape
<1>3. PlatformShape'  BY DEF PlatformInv, PlatformShape
<1>4. ASSUME NEW n, OnlyHere(n) PROVE OnlyHere(n)'
    BY <1>1, <1>2, <1>4 DEF OnlyHere
<1>5. Unsaved'  BY <1>1, <1>4 DEF PlatformInv, Unsaved, Refreshed, Signed
<1>6. Granted'  BY <1>1 DEF PlatformInv, Granted
<1>7. FileFollowed'
    BY <1>1 DEF PlatformInv, FileFollowed, Refreshed
<1>. QED  BY <1>3, <1>5, <1>6, <1>7 DEF PlatformInv

\* Looking at the file, starting a call, choosing a token and sending an article.
LEMMA CallKeeps ==
    ASSUME PlatformInv, NEW p \in Servers,
           \/ Platform!Look(p) \/ Platform!StartCall(p) \/ Platform!StartUpload(p)
           \/ Platform!Ensure(p) \/ Platform!SendArticle(p)
    PROVE  PlatformInv'
<1>. DEFINE Recs == [at : CallsAt, token : 0..oIssued, tried : 0..1]
            Rest == UNCHANGED <<oRotates, oIssued, oRefreshOf, oGrants, oFile, oTab, oLost>>
<1>1. /\ oCall[p] \in Recs /\ oCall = [oCall EXCEPT ![p] = oCall[p]]
      /\ oCache = [oCache EXCEPT ![p] = oCache[p]] /\ Platform!NoCall \in Recs
      /\ oFile \in 0..oIssued /\ oCache[p] \in (0..oIssued) \cup {Platform!Unset}
      /\ oIssued \in 0..MaxTokens /\ MaxTokens \in Nat
    BY MonitorAssumption
    DEF PlatformInv, PlatformShape, Platform!NoCall, Platform!Nil, CallsAt
<1>2. CASE Platform!Look(p)
    <2>1. oCache' = [oCache EXCEPT ![p] = oFile] /\ oCall' = oCall /\ Rest
        BY <1>2 DEF Platform!Look, Platform!token, Platform!login
    <2>2. PlatformShape'  BY <1>1, <2>1 DEF PlatformInv, PlatformShape
    <2>3. \A n : OnlyHere(n) => OnlyHere(n)'
        BY <2>1 DEF OnlyHere, PlatformInv, PlatformShape
    <2>. QED
        BY <2>1, <2>2, <2>3
        DEF PlatformInv, Unsaved, Granted, FileFollowed, Refreshed, Signed
<1>3. ASSUME NEW at \in {"ensure"}, NEW tried \in 0..1, ~Refreshed(p), oCache' = oCache, Rest,
             oCall' \in {oCall, [oCall EXCEPT ![p].at = at],
                         [oCall EXCEPT ![p].at = at, ![p].tried = tried],
                         [oCall EXCEPT ![p] = Platform!NoCall]},
             oCall[p].at # "refreshing"
      PROVE  PlatformInv'
    <2>1. CASE oCall' = oCall
        BY <1>1, <1>3, <2>1, CallMoves DEF Refreshed
    <2>2. CASE oCall' = [oCall EXCEPT ![p] = Platform!NoCall]
        BY <1>1, <1>3, <2>2, CallMoves DEF Platform!NoCall
    <2>3. ASSUME NEW c \in Recs, c.at = at, oCall' = [oCall EXCEPT ![p] = c]
          PROVE  PlatformInv'
        BY <1>1, <1>3, <2>3, CallMoves
    <2>4. CASE oCall' = [oCall EXCEPT ![p].at = at]
        <3>1. [oCall[p] EXCEPT !.at = at] \in Recs  BY <1>1 DEF CallsAt
        <3>. QED  BY <1>1, <2>3, <2>4, <3>1
    <2>5. CASE oCall' = [oCall EXCEPT ![p].at = at, ![p].tried = tried]
        <3>1. [oCall[p] EXCEPT !.at = at, !.tried = tried] \in Recs  BY <1>1 DEF CallsAt
        <3>2. oCall' = [oCall EXCEPT ![p] = [oCall[p] EXCEPT !.at = at, !.tried = tried]]
            BY <2>5 DEF PlatformInv, PlatformShape
        <3>. QED  BY <1>1, <2>3, <3>1, <3>2
    <2>. QED  BY <1>3, <2>1, <2>2, <2>4, <2>5
<1>4. CASE Platform!StartCall(p) \/ Platform!StartUpload(p)
    BY <1>3, <1>4
    DEF Platform!StartCall, Platform!StartUpload, Platform!token, Platform!login, Refreshed
<1>5. CASE Platform!SendArticle(p)
    BY <1>3, <1>5 DEF Platform!SendArticle, Platform!token, Platform!login, Refreshed
<1>6. CASE Platform!Ensure(p)
    <2>. DEFINE k == Platform!Read(p)
    <2>1. k \in {oFile, oCache[p]} /\ k \in 0..oIssued
        BY <1>1 DEF Platform!Read, Platform!Unset
    <2>2. /\ oCache' = [oCache EXCEPT ![p] = k] /\ Rest /\ oCall[p].at = "ensure"
        BY <1>6 DEF Platform!Ensure, Platform!token, Platform!login
    <2>3. CASE oCall' = [oCall EXCEPT ![p] = Platform!NoCall]
        BY <1>1, <2>1, <2>2, <2>3, CallMoves DEF Platform!NoCall, Refreshed
    <2>4. ASSUME NEW at \in {"refreshing", "sending"}, k # 0, oCall' = Platform!Answer(p, at, k)
          PROVE  PlatformInv'
        <3>. DEFINE c == [oCall[p] EXCEPT !.at = at, !.token = k]
        <3>1. c \in Recs /\ c.at = at /\ c.token = k  BY <1>1, <2>1 DEF CallsAt
        <3>2. oCall' = [oCall EXCEPT ![p] = c]
            BY <2>4 DEF Platform!Answer, PlatformInv, PlatformShape
        <3>. HIDE DEF c
        <3>. QED  BY <2>1, <2>2, <2>4, <3>1, <3>2, CallMoves DEF Refreshed
    <2>. QED  BY <1>6, <2>3, <2>4 DEF Platform!Ensure, Platform!Nil
<1>. QED  BY <1>2, <1>4, <1>5, <1>6

\* The platform's answer names a token nobody has; it may use the old one up, of
\* which the process that asked is to save the successor.
LEMMA RefreshKeeps ==
    ASSUME PlatformInv, NEW p \in Servers, Platform!Refresh(p) PROVE PlatformInv'
<1>0. PICK n : n = oIssued + 1  OBVIOUS
<1>. DEFINE old == oCall[p].token
            Recs(i) == [at : CallsAt, token : 0..i, tried : 0..1]
<1>1. /\ oIssued \in Nat /\ n \in Nat /\ oIssued \in 0..MaxTokens /\ MaxTokens \in Nat
      /\ oCall[p] \in Recs(oIssued) /\ oCall[p].at = "refreshing" /\ old \in 1..oIssued
      /\ oFile \in 0..oIssued /\ oTab \in [Browsers -> [at : TabsAt, token : 0..oIssued]]
      /\ oCall \in [Servers -> Recs(oIssued)]
      /\ oCache \in [Servers -> (0..oIssued) \cup {MaxTokens + 1}]
    BY MonitorAssumption, <1>0
    DEF PlatformInv, PlatformShape, Granted, Platform!Refresh, Platform!Unset
<1>2. UNCHANGED <<oRotates, oFile, oCache, oTab, oLost>>
    BY DEF Platform!Refresh, Platform!login, Platform!token
<1>3. CASE oCall' = [oCall EXCEPT ![p] = Platform!NoCall] /\ UNCHANGED Platform!token
    <2>1. Platform!NoCall \in Recs(oIssued) /\ oCache = [oCache EXCEPT ![p] = oCache[p]]
        BY <1>1 DEF Platform!NoCall, Platform!Nil, CallsAt
    <2>. QED
        BY <1>1, <1>2, <1>3, <2>1, CallMoves DEF Platform!token, Platform!NoCall, Refreshed
<1>4. CASE /\ oRefreshOf[old] \in oGrants /\ oIssued' = n /\ oIssued < MaxTokens
           /\ oRefreshOf' = [oRefreshOf EXCEPT ![n] =
                  Platform!Carried(oRefreshOf[old], IF oRotates THEN n ELSE 0)]
           /\ oGrants' = IF oRotates THEN (oGrants \ {oRefreshOf[old]}) \cup {n} ELSE oGrants
           /\ oCall' = Platform!Answer(p, "refreshed", n)
    <2>. DEFINE c == [oCall[p] EXCEPT !.at = "refreshed", !.token = n]
    <2>0. n \in 0..n /\ \A i \in 0..oIssued : i \in 0..n /\ i # n  BY <1>0, <1>1
    <2>1. c \in Recs(n) /\ c.at = "refreshed" /\ c.token = n  BY <1>1, <2>0 DEF CallsAt
    <2>2. oCall' = [oCall EXCEPT ![p] = c]
        BY <1>4 DEF Platform!Answer, PlatformInv, PlatformShape
    <2>. HIDE DEF c
    <2>3. oCall'[p] = c /\ \A q \in Servers : q # p => oCall'[q] = oCall[q]
        BY <1>1, <2>2
    <2>4. /\ oRefreshOf' \in [Platform!Tokens -> Nat]
          /\ oRefreshOf'[n] = IF oRotates THEN n ELSE oRefreshOf[old]
          /\ \A i \in 1..oIssued : oRefreshOf'[i] = oRefreshOf[i]
        BY <1>0, <1>1, <1>4
        DEF PlatformInv, PlatformShape, Platform!Tokens, Platform!Carried, Platform!Nil
    <2>5. PlatformShape'
        <3>1. oIssued' \in 0..MaxTokens  BY <1>0, <1>1, <1>4
        <3>2. oCall' \in [Servers -> Recs(oIssued')]
            <4>1. \A x \in Recs(oIssued) : x \in Recs(n)  BY <2>0
            <4>. QED  BY <1>1, <1>4, <2>1, <2>2, <4>1
        <3>3. oTab' \in [Browsers -> [at : TabsAt, token : 0..oIssued']]
            BY <1>1, <1>2, <1>4, <2>0
        <3>4. oFile' \in 0..oIssued' /\ oCache' \in [Servers -> (0..oIssued') \cup {MaxTokens + 1}]
            BY <1>1, <1>2, <1>4, <2>0
        <3>. QED
            BY <1>2, <2>4, <3>1, <3>2, <3>3, <3>4
            DEF PlatformInv, PlatformShape, Platform!Unset
    <2>6. Granted'
        <3>1. ASSUME NEW i \in 1..oIssued'
              PROVE  IF oRotates THEN oRefreshOf'[i] = i ELSE oRefreshOf'[i] \in oGrants'
            <4>1. i = n \/ i \in 1..oIssued  BY <1>0, <1>1, <1>4
            <4>. QED  BY <1>4, <2>4, <4>1 DEF PlatformInv, Granted
        <3>. QED  BY <1>2, <2>1, <2>3, <3>1 DEF PlatformInv, Granted
    <2>7. ASSUME NEW i, OnlyHere(i) PROVE OnlyHere(i)' /\ i # n
        <3>1. i \in 1..oIssued /\ i # old /\ i # n
            BY <1>0, <1>1, <2>7 DEF OnlyHere
        <3>2. oRefreshOf'[i] \in oGrants'
            BY <1>1, <1>4, <2>4, <2>7, <3>1 DEF OnlyHere, PlatformInv, Granted
        <3>. QED  BY <1>0, <1>1, <1>2, <1>4, <2>1, <2>3, <2>7, <3>1, <3>2 DEF OnlyHere
    <2>8. OnlyHere(n)'
        <3>1. oRefreshOf'[n] \in oGrants'  BY <1>1, <1>4, <2>4
        <3>2. \A q \in Servers : oCall'[q].at = "refreshing" => oCall'[q].token # n
            BY <1>1, <2>0, <2>1, <2>3
        <3>. QED  BY <1>0, <1>1, <1>2, <1>4, <3>1, <3>2 DEF OnlyHere
    <2>9. Unsaved'
        BY <1>2, <2>1, <2>3, <2>7, <2>8 DEF PlatformInv, Unsaved, Refreshed, Signed
    <2>10. FileFollowed'  BY <2>1, <2>3 DEF FileFollowed, Refreshed
    <2>. QED  BY <2>5, <2>6, <2>9, <2>10 DEF PlatformInv
<1>. QED
    BY <1>0, <1>1, <1>3, <1>4 DEF Platform!Refresh, Platform!Issue, Platform!Nil

\* What is saved was known to one only, and is good.
LEMMA SaveKeeps ==
    ASSUME PlatformInv,
           \/ \E p \in Servers : Platform!SaveRefreshed(p)
           \/ \E t \in Browsers : Platform!SaveSignIn(t)
    PROVE  PlatformInv'
<1>1. UNCHANGED <<oRotates, oIssued, oRefreshOf, oGrants, oLost>>
    BY DEF Platform!SaveRefreshed, Platform!SaveSignIn, Platform!token
<1>2. ASSUME NEW n, OnlyHere(n), NEW p, oFile' = n, oCache' = [oCache EXCEPT ![p] = n]
      PROVE  /\ oFile' \in 0..oIssued' /\ FileFollowed'
             /\ oCache' \in [Servers -> (0..oIssued') \cup {Platform!Unset}]
             /\ \A i : OnlyHere(i) /\ i # n =>
                   i \in 1..oIssued /\ i # oFile' /\ \A q \in Servers : i # oCache'[q]
    <2>1. n \in 1..oIssued /\ n \in 0..oIssued /\ oRefreshOf[n] \in oGrants
        BY <1>2 DEF OnlyHere, PlatformInv, PlatformShape
    <2>2. oCache' \in [Servers -> (0..oIssued') \cup {Platform!Unset}]
        BY <1>1, <1>2, <2>1 DEF PlatformInv, PlatformShape
    <2>3. FileFollowed'  BY <1>1, <1>2, <2>1 DEF FileFollowed
    <2>4. \A i : OnlyHere(i) /\ i # n =>
             i \in 1..oIssued /\ i # oFile' /\ \A q \in Servers : i # oCache'[q]
        BY <1>2 DEF OnlyHere, PlatformInv, PlatformShape
    <2>. QED  BY <1>1, <1>2, <2>1, <2>2, <2>3, <2>4
<1>3. ASSUME NEW p \in Servers, Platform!SaveRefreshed(p) PROVE PlatformInv'
    <2>. DEFINE n == oCall[p].token
                c == [oCall[p] EXCEPT !.at = "sending", !.token = n]
    <2>1. /\ Refreshed(p) /\ oFile' = n /\ oCache' = [oCache EXCEPT ![p] = n] /\ oTab' = oTab
        BY <1>3 DEF Platform!SaveRefreshed, Platform!Save, Platform!login, Refreshed
    <2>2. /\ c \in [at : CallsAt, token : 0..oIssued, tried : 0..1] /\ c.at = "sending"
          /\ oCall' = [oCall EXCEPT ![p] = c]
        BY <1>3 DEF Platform!SaveRefreshed, Platform!Answer, PlatformInv, PlatformShape, CallsAt
    <2>. HIDE DEF c
    <2>3. oCall'[p] = c /\ \A q \in Servers : q # p => oCall'[q] = oCall[q]
        BY <2>2 DEF PlatformInv, PlatformShape
    <2>4. OnlyHere(n)  BY <2>1 DEF PlatformInv, Unsaved
    <2>5. ASSUME NEW i, OnlyHere(i), i # n PROVE OnlyHere(i)'
        <3>1. i \in 1..oIssued /\ i # oFile' /\ \A q \in Servers : i # oCache'[q]
            BY <1>2, <2>1, <2>4, <2>5
        <3>. QED  BY <1>1, <2>2, <2>3, <2>5, <3>1 DEF OnlyHere
    <2>6. PlatformShape' /\ FileFollowed'
        BY <1>1, <1>2, <2>1, <2>2, <2>4 DEF PlatformInv, PlatformShape
    <2>7. Unsaved'
        BY <2>1, <2>2, <2>3, <2>5 DEF PlatformInv, Unsaved, Refreshed, Signed
    <2>8. Granted'  BY <1>1, <2>2, <2>3 DEF PlatformInv, Granted
    <2>. QED  BY <2>6, <2>7, <2>8 DEF PlatformInv
<1>4. ASSUME NEW t \in Browsers, Platform!SaveSignIn(t) PROVE PlatformInv'
    <2>. DEFINE n == oTab[t].token
                c == [oTab[t] EXCEPT !.at = "done"]
    <2>1. /\ Signed(t) /\ oFile' = n /\ oCache' = [oCache EXCEPT ![Platform!Signer] = n]
          /\ oCall' = oCall
        BY <1>4 DEF Platform!SaveSignIn, Platform!Save, Signed
    <2>2. /\ c \in [at : TabsAt, token : 0..oIssued] /\ c.at = "done"
          /\ oTab' = [oTab EXCEPT ![t] = c]
        BY <1>4 DEF Platform!SaveSignIn, PlatformInv, PlatformShape, TabsAt
    <2>. HIDE DEF c
    <2>3. oTab'[t] = c /\ \A u \in Browsers : u # t => oTab'[u] = oTab[u]
        BY <2>2 DEF PlatformInv, PlatformShape
    <2>4. OnlyHere(n)  BY <2>1 DEF PlatformInv, Unsaved
    <2>5. ASSUME NEW i, OnlyHere(i), i # n PROVE OnlyHere(i)'
        <3>1. i \in 1..oIssued /\ i # oFile' /\ \A q \in Servers : i # oCache'[q]
            BY <1>2, <2>1, <2>4, <2>5
        <3>. QED  BY <1>1, <2>1, <2>5, <3>1 DEF OnlyHere
    <2>6. PlatformShape' /\ FileFollowed'
        BY <1>1, <1>2, <2>1, <2>2, <2>4 DEF PlatformInv, PlatformShape
    <2>7. Unsaved'
        BY <2>1, <2>2, <2>3, <2>5 DEF PlatformInv, Unsaved, Refreshed, Signed
    <2>8. Granted'  BY <1>1, <2>1 DEF PlatformInv, Granted
    <2>. QED  BY <2>6, <2>7, <2>8 DEF PlatformInv
<1>. QED  BY <1>3, <1>4

\* A code's token is a new grant; nothing else changes hands.
LEMMA ExchangeKeeps ==
    ASSUME PlatformInv, NEW t \in Browsers, Platform!Exchange(t) PROVE PlatformInv'
<1>0. PICK n : n = oIssued + 1  OBVIOUS
<1>. DEFINE Recs(i) == [at : CallsAt, token : 0..i, tried : 0..1]
            c == [at |-> "save", token |-> n]
<1>1. /\ oIssued \in Nat /\ n \in Nat /\ oIssued \in 0..MaxTokens /\ MaxTokens \in Nat
      /\ oFile \in 0..oIssued /\ oTab \in [Browsers -> [at : TabsAt, token : 0..oIssued]]
      /\ oCall \in [Servers -> Recs(oIssued)]
      /\ oCache \in [Servers -> (0..oIssued) \cup {MaxTokens + 1}]
    BY MonitorAssumption, <1>0 DEF PlatformInv, PlatformShape, Platform!Unset
<1>2. /\ UNCHANGED <<oRotates, oFile, oCache, oCall, oLost>>
      /\ oIssued' = n /\ oIssued < MaxTokens /\ oGrants' = oGrants \cup {n}
      /\ oRefreshOf' = [oRefreshOf EXCEPT ![n] = n]
      /\ oTab' = [oTab EXCEPT ![t] = c]
    BY <1>0 DEF Platform!Exchange, Platform!Issue
<1>3. n \in 0..n /\ \A i \in 0..oIssued : i \in 0..n /\ i # n  BY <1>0, <1>1
<1>4. oTab'[t] = c /\ \A u \in Browsers : u # t => oTab'[u] = oTab[u]
    BY <1>1, <1>2
<1>. HIDE DEF c
<1>5. c.at = "save" /\ c.token = n /\ c \in [at : TabsAt, token : 0..n]
    BY <1>3 DEF c, TabsAt
<1>6. /\ oRefreshOf' \in [Platform!Tokens -> Nat] /\ oRefreshOf'[n] = n
      /\ \A i \in 1..oIssued : oRefreshOf'[i] = oRefreshOf[i]
    BY <1>0, <1>1, <1>2 DEF PlatformInv, PlatformShape, Platform!Tokens
<1>7. PlatformShape'
    <2>1. oIssued' \in 0..MaxTokens  BY <1>0, <1>1, <1>2
    <2>2. oCall' \in [Servers -> Recs(oIssued')]
        <3>1. \A x \in Recs(oIssued) : x \in Recs(n)  BY <1>3
        <3>. QED  BY <1>1, <1>2, <3>1
    <2>3. oTab' \in [Browsers -> [at : TabsAt, token : 0..oIssued']]
        <3>1. \A x \in [at : TabsAt, token : 0..oIssued] : x \in [at : TabsAt, token : 0..n]
            BY <1>3
        <3>. QED  BY <1>1, <1>2, <1>5, <3>1
    <2>4. oFile' \in 0..oIssued' /\ oCache' \in [Servers -> (0..oIssued') \cup {MaxTokens + 1}]
        BY <1>1, <1>2, <1>3
    <2>. QED
        BY <1>2, <1>6, <2>1, <2>2, <2>3, <2>4 DEF PlatformInv, PlatformShape, Platform!Unset
<1>8. Granted'
    <2>1. ASSUME NEW i \in 1..oIssued'
          PROVE  IF oRotates THEN oRefreshOf'[i] = i ELSE oRefreshOf'[i] \in oGrants'
        <3>1. i = n \/ i \in 1..oIssued  BY <1>0, <1>1, <1>2
        <3>. QED  BY <1>2, <1>6, <3>1 DEF PlatformInv, Granted
    <2>. QED  BY <1>2, <2>1 DEF PlatformInv, Granted
<1>9. ASSUME NEW i, OnlyHere(i) PROVE OnlyHere(i)' /\ i # n
    <2>1. i \in 1..oIssued /\ i # n /\ i \in 1..n  BY <1>0, <1>1, <1>9 DEF OnlyHere
    <2>. QED  BY <1>2, <1>6, <1>9, <2>1 DEF OnlyHere
<1>10. OnlyHere(n)'
    BY <1>0, <1>1, <1>2, <1>3, <1>6 DEF OnlyHere
<1>11. Unsaved'
    BY <1>2, <1>4, <1>5, <1>9, <1>10 DEF PlatformInv, Unsaved, Refreshed, Signed
<1>12. FileFollowed'
    <2>1. oFile # 0 => oFile \in 1..oIssued  BY <1>1
    <2>. QED  BY <1>2, <1>6, <2>1 DEF PlatformInv, FileFollowed, Refreshed
<1>. QED  BY <1>7, <1>8, <1>11, <1>12 DEF PlatformInv

\* A process that dies between the platform's answer and its save is remembered.
LEMMA RestartKeeps ==
    ASSUME PlatformInv, NEW p \in Servers, Platform!Restart(p) PROVE PlatformInv'
<1>1. /\ UNCHANGED <<oRotates, oIssued, oRefreshOf, oGrants, oFile>>
      /\ oCache' = [oCache EXCEPT ![p] = Platform!Unset]
      /\ oCall' = [oCall EXCEPT ![p] = Platform!NoCall]
      /\ (oLost \/ Refreshed(p)) => oLost'
    BY DEF Platform!Restart, Platform!token, Refreshed
<1>2. /\ oIssued \in 0..MaxTokens /\ MaxTokens \in Nat
      /\ Platform!NoCall \in [at : CallsAt, token : 0..oIssued, tried : 0..1]
      /\ Platform!NoCall.at = "idle"
    BY MonitorAssumption
    DEF PlatformInv, PlatformShape, Platform!NoCall, Platform!Nil, CallsAt
<1>3. /\ oCall'[p] = Platform!NoCall /\ \A q \in Servers : q # p => oCall'[q] = oCall[q]
      /\ oCache'[p] = MaxTokens + 1 /\ \A q \in Servers : q # p => oCache'[q] = oCache[q]
    BY <1>1 DEF PlatformInv, PlatformShape, Platform!Unset
<1>4. /\ oTab' \in [Browsers -> [at : TabsAt, token : 0..oIssued]]
      /\ \A t \in Browsers : Signed(t)' => oTab'[t] = oTab[t]
    <2>1. CASE oTab' = oTab  BY <2>1 DEF PlatformInv, PlatformShape
    <2>2. CASE oTab' = [t \in Browsers |-> IF oTab[t].at = "away" THEN Platform!Away
                                            ELSE [Platform!Away EXCEPT !.at = "done"]]
        BY <1>2, <2>2 DEF Platform!Away, Platform!Nil, Signed, TabsAt
    <2>. QED  BY <2>1, <2>2 DEF Platform!Restart
<1>5. PlatformShape'  BY <1>1, <1>2, <1>4 DEF PlatformInv, PlatformShape
<1>6. ASSUME NEW i, OnlyHere(i) PROVE OnlyHere(i)'
    BY <1>1, <1>2, <1>3, <1>6 DEF OnlyHere
<1>7. Unsaved'  BY <1>2, <1>3, <1>4, <1>6 DEF PlatformInv, Unsaved, Refreshed, Signed
<1>8. Granted' /\ FileFollowed'
    BY <1>1, <1>2, <1>3 DEF PlatformInv, Granted, FileFollowed, Refreshed
<1>. QED  BY <1>5, <1>7, <1>8 DEF PlatformInv

LEMMA PlatformStep ==
    ASSUME PlatformInv, [Platform!Next]_Platform!vars PROVE PlatformInv'
<1>1. ASSUME NEW t \in Browsers, Platform!Callback(t) PROVE PlatformInv'
    <2>1. PICK at \in TabsAt : /\ oTab' = [oTab EXCEPT ![t].at = at] /\ at # "save"
        BY <1>1 DEF Platform!Callback, TabsAt
    <2>2. UNCHANGED <<oRotates, oIssued, oRefreshOf, oGrants, oFile, oCache, oCall, oLost>>
        BY <1>1 DEF Platform!Callback, Platform!token
    <2>3. /\ oTab' \in [Browsers -> [at : TabsAt, token : 0..oIssued]]
          /\ \A u \in Browsers : Signed(u)' => oTab'[u] = oTab[u]
        BY <2>1 DEF PlatformInv, PlatformShape, Signed
    <2>. QED
        BY <2>2, <2>3
        DEF PlatformInv, PlatformShape, Unsaved, Granted, FileFollowed, OnlyHere, Refreshed, Signed
<1>2. ASSUME UNCHANGED <<oRotates, oIssued, oRefreshOf, oGrants, oFile, oCache, oCall, oTab, oLost>>
      PROVE  PlatformInv'
    BY <1>2
    DEF PlatformInv, PlatformShape, Unsaved, Granted, FileFollowed, OnlyHere, Refreshed, Signed
<1>3. CASE Platform!StartSignIn
    BY <1>2, <1>3 DEF Platform!StartSignIn, Platform!token
<1>4. ASSUME NEW n \in Platform!Tokens, Platform!Expires(n) PROVE PlatformInv'
    BY <1>2, <1>4 DEF Platform!Expires, Platform!login
<1>5. CASE UNCHANGED Platform!vars
    BY <1>2, <1>5 DEF Platform!vars, Platform!token, Platform!login
<1>. QED
    BY <1>1, <1>3, <1>4, <1>5, CallKeeps, RefreshKeeps, SaveKeeps, ExchangeKeeps, RestartKeeps
    DEF Platform!Next

\* The state is exchanged by the tab that took it, which is one.
StateTaken ==
    /\ oState # "used" => oExchanged = 0 /\ \A t \in Browsers : oTab[t].at # "exchange"
    /\ \A t, u \in Browsers : oTab[t].at = "exchange" /\ oTab[u].at = "exchange" => t = u
    /\ (\E t \in Browsers : oTab[t].at = "exchange") => oExchanged = 0
    /\ oExchanged \in {0, 1}

LEMMA StateStep ==
    ASSUME PlatformInv, StateTaken, [Platform!Next]_Platform!vars PROVE StateTaken'
<1>1. ASSUME NEW t \in Browsers, Platform!Callback(t) PROVE StateTaken'
    BY <1>1 DEF Platform!Callback, Platform!TakesState, StateTaken, PlatformInv, PlatformShape
<1>2. ASSUME NEW t \in Browsers, Platform!Exchange(t) PROVE StateTaken'
    BY <1>2 DEF Platform!Exchange, StateTaken, PlatformInv, PlatformShape
<1>3. ASSUME NEW t \in Browsers, Platform!SaveSignIn(t) PROVE StateTaken'
    BY <1>3 DEF Platform!SaveSignIn, StateTaken, PlatformInv, PlatformShape
<1>4. ASSUME NEW p \in Servers, Platform!Restart(p) PROVE StateTaken'
    <2>1. oExchanged' = oExchanged /\ (oState' # "used" => oState # "used")
        BY <1>4 DEF Platform!Restart
    <2>2. \A t \in Browsers : oTab'[t].at = "exchange" => oTab[t].at = "exchange"
        BY <1>4 DEF Platform!Restart, Platform!Away
    <2>. QED  BY <2>1, <2>2 DEF StateTaken
<1>5. CASE Platform!StartSignIn
    BY <1>5 DEF Platform!StartSignIn, StateTaken
<1>6. ASSUME UNCHANGED <<oState, oTab, oExchanged>> PROVE StateTaken'
    BY <1>6 DEF StateTaken
<1>. QED
    BY <1>1, <1>2, <1>3, <1>4, <1>5, <1>6
    DEF Platform!Next, Platform!Look, Platform!StartCall, Platform!StartUpload, Platform!Ensure,
        Platform!Refresh, Platform!SaveRefreshed, Platform!SendArticle, Platform!Expires,
        Platform!vars, Platform!login

LEMMA PlatformBehaves == MCSpec => Platform!Spec
<1>1. MCInit => Platform!Init  BY DEF MCInit
<1>2. [MCNext]_MCVars => [Platform!Next]_Platform!vars
  BY DEF MCNext, MCVars, oVars, Platform!vars, Platform!token, Platform!login
<1>. QED  BY <1>1, <1>2, PTL DEF MCSpec, Platform!Spec

\* The token file heals every process that reads it anew, unless one died between the
\* platform's answer and its save, and an OAuth state is good for one code, for any
\* processes, tabs and number of tokens (_refresh_token, _save_token, exchange_oauth_code).
THEOREM TokenHealsHolds == MCSpec => []TokenHeals
<1>. DEFINE Inv == PlatformInv /\ StateTaken
<1>1. Platform!Init => Inv
    <2>1. Platform!Init => StateTaken  BY DEF StateTaken, Platform!Init, Platform!Away
    <2>. QED  BY <2>1, InitPlatform
<1>2. Inv /\ [Platform!Next]_Platform!vars => Inv'  BY PlatformStep, StateStep
<1>3. Inv => TokenHeals
    BY DEF PlatformInv, FileFollowed, StateTaken, TokenHeals, Platform!FileHeals,
           Platform!StateUsedOnce, Refreshed, Platform!Nil
<1>. QED  BY <1>1, <1>2, <1>3, PlatformBehaves, PTL DEF Platform!Spec
-------------------------------------------------------------------------------
(***************************************************************************)
(* Captured clips.  Groups are one level deep: what has a parent is listed *)
(* by it and lists nothing.  An arming is held in one place at a time, by  *)
(* an operator's target or by a capture that encodes, until a clip is      *)
(* folded for it.                                                          *)
(***************************************************************************)
Targets == [clip : Clips \cup {None}, arming : 0..MaxArmings]

GroupsShape ==
    /\ kClips \subseteq Clips
    /\ kParent \in [Clips -> Clips \cup {None}]
    /\ kAttached \in [Clips -> SUBSET Clips]

GroupsWhole ==
    /\ \A c \in Clips : kParent[c] # None =>
          /\ c \in kClips /\ kParent[c] \in kClips
          /\ kParent[kParent[c]] = None /\ c \in kAttached[kParent[c]]
    /\ \A c \in Clips : \A a \in kAttached[c] : kParent[a] = c

ArmingsShape ==
    /\ kTarget \in [Operators -> Targets]
    /\ kEncoding \in [Clips -> [by : Operators \cup {None}, claim : Targets]]
    /\ kFolded \in [1..MaxArmings -> SUBSET Clips]
    /\ kArmings \in 0..MaxArmings

\* A target and a claim are of a captured clip, and of an arming that was.
Claimed(t) == t.arming # 0 => t.arming <= kArmings /\ t.clip \in kClips
ClaimsMade ==
    /\ \A o \in Operators : Claimed(kTarget[o]) /\ (kTarget[o].arming = 0 => kTarget[o] = Captures!NoTarget)
    /\ \A c \in Clips : Claimed(kEncoding[c].claim)
                        /\ (kEncoding[c].claim.arming = 0 => kEncoding[c].claim = Captures!NoTarget)
    /\ \A c \in Clips : kEncoding[c] # Captures!Idle => c \notin kClips /\ kEncoding[c].by \in Operators

HeldOnce ==
    /\ \A o, q \in Operators : kTarget[o].arming # 0 /\ kTarget[o].arming = kTarget[q].arming => o = q
    /\ \A c, d \in Clips :
          kEncoding[c].claim.arming # 0 /\ kEncoding[c].claim.arming = kEncoding[d].claim.arming => c = d
    /\ \A o \in Operators, c \in Clips :
          kTarget[o].arming # 0 => kTarget[o].arming # kEncoding[c].claim.arming
    /\ \A n \in 1..MaxArmings : kFolded[n] # {} =>
          /\ n <= kArmings /\ \A a, b \in kFolded[n] : a = b
          /\ \A o \in Operators : kTarget[o].arming # n
          /\ \A c \in Clips : kEncoding[c].claim.arming # n

CapturesInv == GroupsShape /\ GroupsWhole /\ ArmingsShape /\ ClaimsMade /\ HeldOnce

LEMMA InitCaptures == ASSUME Captures!Init PROVE CapturesInv
BY MonitorAssumption
DEF Captures!Init, CapturesInv, GroupsShape, GroupsWhole, ArmingsShape, ClaimsMade, HeldOnce, Claimed,
    Targets, Captures!NoTarget, Captures!Idle

\* Folding keeps the groups one level deep (_attach_clip).
LEMMA FoldKeeps ==
    ASSUME GroupsShape, GroupsWhole, NEW c \in Clips, NEW m \in kClips,
           c # m, kParent[m] = None, kParent[c] # m, Captures!Fold(c, m),
           kClips' = kClips \cup {c}
    PROVE  GroupsShape' /\ GroupsWhole'
<1>. DEFINE moving == {c} \cup kAttached[c]
<1>1. m \in Clips /\ m \notin moving /\ None \notin Clips
    BY MonitorAssumption DEF GroupsShape, GroupsWhole
<1>2. Captures!Moving(c, m) = moving  BY <1>1 DEF Captures!Moving
<1>3. /\ kParent' = [x \in Clips |-> IF x \in moving THEN m ELSE IF x = m THEN None ELSE kParent[x]]
      /\ kAttached' = [x \in Clips |-> IF x \in moving THEN {}
                                       ELSE IF x = m THEN kAttached[m] \cup moving
                                       ELSE kAttached[x] \ {c}]
    BY <1>2 DEF Captures!Fold
<1>4. moving \subseteq Clips  BY DEF GroupsShape
<1>5. \A x \in moving : x # c => kParent[x] = c  BY DEF GroupsWhole
<1>. HIDE DEF moving
<1>6. GroupsShape'  BY <1>1, <1>3, <1>4 DEF GroupsShape
<1>7. ASSUME NEW x \in Clips, kParent'[x] # None
      PROVE  /\ x \in kClips' /\ kParent'[x] \in kClips'
             /\ kParent'[kParent'[x]] = None /\ x \in kAttached'[kParent'[x]]
    <2>1. CASE x \in moving
        <3>1. kParent'[x] = m /\ kParent'[m] = None /\ x \in kAttached'[m]
            BY <1>1, <1>3, <2>1
        <3>2. x \in kClips'
            BY <1>5, <2>1, MonitorAssumption DEF GroupsWhole
        <3>. QED  BY <3>1, <3>2
    <2>2. CASE x \notin moving
        <3>. DEFINE y == kParent[x]
        <3>1. x # m /\ kParent'[x] = y  BY <1>3, <1>7, <2>2
        <3>2. /\ x \in kClips /\ y \in kClips /\ kParent[y] = None /\ x \in kAttached[y] /\ y \in Clips
            BY <1>7, <3>1 DEF GroupsShape, GroupsWhole
        <3>3. y \notin moving
            <4>1. c \in moving /\ kAttached[c] \subseteq moving  BY DEF moving
            <4>. QED  BY <1>1, <1>5, <2>2, <3>2, <4>1
        <3>4. kParent'[y] = None /\ x \in kAttached'[y]
            <4>1. x # c  BY <2>2 DEF moving
            <4>. QED  BY <1>3, <3>2, <3>3, <4>1
        <3>. QED  BY <3>1, <3>2, <3>4
    <2>. QED  BY <2>1, <2>2
<1>8. ASSUME NEW x \in Clips, NEW a \in kAttached'[x] PROVE kParent'[a] = x
    <2>1. x \notin moving  BY <1>3, <1>8
    <2>2. c \in moving /\ kAttached[c] \subseteq moving /\ moving \subseteq {c} \cup kAttached[c]
        BY DEF moving
    <2>3. CASE a \in moving
        <3>1. x = m
            <4>1. SUFFICES ASSUME x # m PROVE FALSE  OBVIOUS
            <4>2. a \in kAttached[x] /\ a # c  BY <1>3, <1>8, <2>1, <4>1
            <4>. QED  BY <1>5, <2>1, <2>2, <2>3, <4>2 DEF GroupsWhole
        <3>. QED  BY <1>3, <1>4, <2>3, <3>1
    <2>4. CASE a \notin moving
        <3>1. a \in kAttached[x] /\ a \in Clips /\ kParent[a] = x
            BY <1>3, <1>8, <2>1, <2>4 DEF GroupsShape, GroupsWhole
        <3>. QED  BY <1>1, <1>3, <2>4, <3>1
    <2>. QED  BY <2>3, <2>4
<1>. QED  BY <1>6, <1>7, <1>8 DEF GroupsWhole

\* A clip taken out of its group, and one promoted over its main GIF.
LEMMA DetachKeeps ==
    ASSUME CapturesInv, NEW c \in Clips, Captures!Detach(c) PROVE CapturesInv'
<1>1. /\ kParent' = [kParent EXCEPT ![c] = None]
      /\ kAttached' = [kAttached EXCEPT ![kParent[c]] = @ \ {c}]
      /\ UNCHANGED <<kClips, kTarget, kEncoding, kFolded, kArmings>>
    BY DEF Captures!Detach, Captures!append
<1>2. GroupsShape' /\ GroupsWhole'
    BY <1>1 DEF CapturesInv, GroupsShape, GroupsWhole
<1>. QED
    BY <1>1, <1>2 DEF CapturesInv, ArmingsShape, ClaimsMade, HeldOnce, Claimed

LEMMA PromoteGroups ==
    ASSUME CapturesInv, NEW c \in Clips, Captures!SetMain(c) PROVE GroupsShape' /\ GroupsWhole'
<1>0. PICK old : old = kParent[c]  OBVIOUS
<1>1. /\ old # None /\ old \in Clips /\ kParent[old] = None /\ c \in kAttached[old] /\ c # old
      /\ c \in kClips /\ old \in kClips /\ None \notin Clips /\ kAttached[c] = {}
    BY <1>0, MonitorAssumption
    DEF Captures!SetMain, CapturesInv, GroupsShape, GroupsWhole
<1>. DEFINE moved == {old} \cup kAttached[old]
<1>2. /\ kAttached' = [x \in Clips |-> IF x = old THEN {} ELSE IF x = c THEN moved \ {c} ELSE kAttached[x]]
      /\ kParent' = [x \in Clips |-> IF x = c THEN None ELSE IF x \in moved THEN c ELSE kParent[x]]
      /\ kClips' = kClips
    BY <1>0, <1>1 DEF Captures!SetMain, CapturesInv, GroupsShape
<1>3. moved \subseteq Clips /\ \A x \in moved : x # old => kParent[x] = old
    BY <1>1 DEF CapturesInv, GroupsShape, GroupsWhole
<1>4. \A x \in Clips : kParent[x] = old => x \in moved
    BY <1>1 DEF CapturesInv, GroupsWhole
<1>5. old \in moved /\ c \in moved  BY <1>1
<1>. HIDE DEF moved
<1>6. GroupsShape'  BY <1>1, <1>2, <1>3 DEF CapturesInv, GroupsShape
<1>7. ASSUME NEW x \in Clips, kParent'[x] # None
      PROVE  /\ x \in kClips' /\ kParent'[x] \in kClips'
             /\ kParent'[kParent'[x]] = None /\ x \in kAttached'[kParent'[x]]
    <2>1. CASE x \in moved
        BY <1>1, <1>2, <1>3, <1>7, <2>1 DEF CapturesInv, GroupsWhole
    <2>2. CASE x \notin moved
        <3>1. kParent'[x] = kParent[x] /\ kParent[x] # old /\ kParent[x] # c
            BY <1>1, <1>2, <1>4, <1>5, <1>7, <2>2 DEF CapturesInv, GroupsWhole
        <3>2. kParent[x] \notin moved
            BY <1>1, <1>2, <1>3, <1>7, <2>2, <3>1 DEF CapturesInv, GroupsWhole
        <3>. QED
            BY <1>2, <1>7, <3>1, <3>2 DEF CapturesInv, GroupsShape, GroupsWhole
    <2>. QED  BY <2>1, <2>2
<1>8. ASSUME NEW x \in Clips, NEW a \in kAttached'[x] PROVE kParent'[a] = x
    <2>1. CASE x = c  BY <1>1, <1>2, <1>3, <1>8, <2>1
    <2>2. CASE x # c
        <3>1. x # old /\ a \in kAttached[x] /\ a \in Clips /\ kParent[a] = x
            BY <1>2, <1>8, <2>2 DEF CapturesInv, GroupsShape, GroupsWhole
        <3>2. a \notin moved /\ a # c  BY <1>0, <1>1, <1>3, <3>1
        <3>. QED  BY <1>2, <3>1, <3>2
    <2>. QED  BY <2>1, <2>2
<1>. QED  BY <1>6, <1>7, <1>8 DEF GroupsWhole

\* Targets that go away, or follow a promoted clip, hold what they held or nothing.
LEMMA TargetsMove ==
    ASSUME ArmingsShape, ClaimsMade, HeldOnce,
           kTarget' \in [Operators -> Targets],
           \A o \in Operators :
               \/ kTarget'[o] = Captures!NoTarget
               \/ kTarget'[o].arming = kTarget[o].arming /\ Claimed(kTarget'[o])
                  /\ kTarget[o] # Captures!NoTarget,
           kClips' = kClips, UNCHANGED <<kEncoding, kFolded, kArmings>>
    PROVE  ArmingsShape' /\ ClaimsMade' /\ HeldOnce'
<1>1. Captures!NoTarget.arming = 0  BY DEF Captures!NoTarget
<1>2. ArmingsShape'  BY DEF ArmingsShape
<1>3. \A o \in Operators : kTarget'[o].arming \in {0, kTarget[o].arming}  BY <1>1
<1>4. ClaimsMade'  BY <1>1 DEF ClaimsMade, Claimed
<1>5. HeldOnce'  BY <1>3 DEF HeldOnce
<1>. QED  BY <1>2, <1>4, <1>5

LEMMA PromoteKeeps ==
    ASSUME CapturesInv, NEW c \in Clips, Captures!SetMain(c) PROVE CapturesInv'
<1>1. /\ kTarget' = [o \in Operators |-> IF kTarget[o].clip = kParent[c]
                                         THEN [kTarget[o] EXCEPT !.clip = c] ELSE kTarget[o]]
      /\ c \in kClips /\ kParent[c] # None
      /\ UNCHANGED <<kClips, kEncoding, kFolded, kArmings>>
    BY DEF Captures!SetMain
<1>2. ASSUME NEW o \in Operators
      PROVE  /\ kTarget'[o] \in Targets
             /\ \/ kTarget'[o] = Captures!NoTarget
                \/ kTarget'[o].arming = kTarget[o].arming /\ Claimed(kTarget'[o])
                   /\ kTarget[o] # Captures!NoTarget
    <2>1. kTarget[o] \in Targets /\ Claimed(kTarget[o])  BY DEF CapturesInv, ArmingsShape, ClaimsMade
    <2>2. CASE kTarget[o].clip = kParent[c]
        <3>1. kTarget'[o] = [kTarget[o] EXCEPT !.clip = c]  BY <1>1, <2>2
        <3>2. kTarget'[o].arming = kTarget[o].arming /\ kTarget'[o].clip = c /\ kTarget'[o] \in Targets
            BY <2>1, <3>1 DEF Targets
        <3>3. kTarget[o] # Captures!NoTarget  BY <1>1, <2>2 DEF Captures!NoTarget
        <3>. QED  BY <1>1, <2>1, <3>2, <3>3 DEF Claimed
    <2>3. CASE kTarget[o].clip # kParent[c]
        BY <1>1, <2>1, <2>3 DEF Claimed
    <2>. QED  BY <2>2, <2>3
<1>3. kTarget' \in [Operators -> Targets]  BY <1>1, <1>2
<1>. QED
    BY <1>1, <1>2, <1>3, PromoteGroups, TargetsMove DEF CapturesInv

\* Discarding, publishing and switching append mode off.
LEMMA DisarmKeeps ==
    ASSUME CapturesInv,
           \/ \E c \in Clips : Captures!Discard(c) \/ Captures!Publish(c)
           \/ \E o \in Operators : Captures!Disarm(o)
    PROVE  CapturesInv'
<1>1. /\ UNCHANGED <<kClips, kParent, kAttached, kEncoding, kFolded, kArmings>>
      /\ \/ \E c \in Clips : kTarget' = Captures!Disarmed(c)
         \/ \E o \in Operators : kTarget' = [kTarget EXCEPT ![o] = Captures!NoTarget]
    BY DEF Captures!Discard, Captures!Publish, Captures!Disarm, Captures!groups
<1>2. Captures!NoTarget \in Targets
    BY MonitorAssumption DEF Captures!NoTarget, Targets
<1>3. /\ kTarget' \in [Operators -> Targets]
      /\ \A o \in Operators : kTarget'[o] \in {Captures!NoTarget, kTarget[o]}
    BY <1>1, <1>2 DEF CapturesInv, ArmingsShape, Captures!Disarmed
<1>4. ArmingsShape' /\ ClaimsMade' /\ HeldOnce'
    BY <1>1, <1>3, TargetsMove DEF CapturesInv, ClaimsMade, Claimed
<1>. QED
    BY <1>1, <1>4 DEF CapturesInv, GroupsShape, GroupsWhole

\* Append mode is switched on: a new arming, held by the operator's target.
LEMMA ArmKeeps ==
    ASSUME CapturesInv, NEW o \in Operators, NEW c \in Clips, Captures!Arm(o, c)
    PROVE  CapturesInv'
<1>0. PICK n : n = kArmings + 1  OBVIOUS
<1>. PICK new : new = [clip |-> Captures!Main(c), arming |-> n]  OBVIOUS
<1>1. /\ kArmings' = n /\ kTarget' = [kTarget EXCEPT ![o] = new]
      /\ UNCHANGED <<kClips, kParent, kAttached, kEncoding, kFolded>>
      /\ n \in 1..MaxArmings /\ kArmings \in Nat /\ MaxArmings \in Nat /\ c \in kClips
    BY <1>0, MonitorAssumption
    DEF Captures!Arm, Captures!groups, CapturesInv, ArmingsShape
<1>2. new.arming = n /\ new.clip \in kClips /\ new \in Targets /\ n # 0
    BY <1>1 DEF Captures!Main, CapturesInv, GroupsShape, GroupsWhole, Targets
<1>3. kTarget'[o] = new /\ \A q \in Operators : q # o => kTarget'[q] = kTarget[q]
    BY <1>1 DEF CapturesInv, ArmingsShape
<1>4. /\ \A q \in Operators : kTarget[q].arming # n
      /\ \A d \in Clips : kEncoding[d].claim.arming # n
      /\ kFolded[n] = {}
    BY <1>0, <1>1, <1>2 DEF CapturesInv, ClaimsMade, Claimed, HeldOnce
<1>5. ArmingsShape'
    BY <1>1, <1>2 DEF CapturesInv, ArmingsShape
<1>6. ClaimsMade'
    <2>1. \A t : Claimed(t) /\ t \in Targets => Claimed(t)'
        BY <1>0, <1>1 DEF Claimed, Targets
    <2>2. (\A q \in Operators : kTarget[q] \in Targets) /\ \A d \in Clips : kEncoding[d].claim \in Targets
        BY DEF CapturesInv, ArmingsShape
    <2>3. Claimed(new)'  BY <1>1, <1>2 DEF Claimed
    <2>. QED  BY <1>1, <1>2, <1>3, <2>1, <2>2, <2>3 DEF CapturesInv, ClaimsMade
<1>7. HeldOnce'
    <2>1. \A m \in 1..MaxArmings : m <= kArmings => m <= kArmings' /\ m # n
        BY <1>0, <1>1
    <2>. QED  BY <1>1, <1>2, <1>3, <1>4, <2>1 DEF CapturesInv, HeldOnce
<1>. QED
    BY <1>1, <1>5, <1>6, <1>7 DEF CapturesInv, GroupsShape, GroupsWhole

\* A capture claims the target, which is empty then.
LEMMA StartKeeps ==
    ASSUME CapturesInv, NEW o \in Operators, NEW c \in Clips, Captures!StartCapture(o, c)
    PROVE  CapturesInv'
<1>. DEFINE new == [by |-> o, claim |-> kTarget[o]]
<1>1. /\ kEncoding' = [kEncoding EXCEPT ![c] = new]
      /\ kTarget' = [kTarget EXCEPT ![o] = Captures!NoTarget]
      /\ UNCHANGED <<kClips, kParent, kAttached, kArmings, kFolded>>
      /\ c \notin kClips /\ kEncoding[c] = Captures!Idle
    BY DEF Captures!StartCapture, Captures!Takes, Captures!Free, Captures!groups
<1>2. /\ new.by = o /\ new.claim = kTarget[o] /\ kTarget[o] \in Targets
      /\ Captures!NoTarget \in Targets /\ Captures!NoTarget.arming = 0
      /\ kEncoding[c].claim.arming = 0
      /\ new \in [by : Operators \cup {None}, claim : Targets]
    BY <1>1, MonitorAssumption
    DEF Captures!NoTarget, Captures!Idle, CapturesInv, ArmingsShape, Targets
<1>. HIDE DEF new
<1>3. /\ kEncoding'[c] = new /\ \A d \in Clips : d # c => kEncoding'[d] = kEncoding[d]
      /\ kTarget'[o] = Captures!NoTarget /\ \A q \in Operators : q # o => kTarget'[q] = kTarget[q]
    BY <1>1 DEF CapturesInv, ArmingsShape
<1>4. ArmingsShape'  BY <1>1, <1>2 DEF CapturesInv, ArmingsShape
<1>5. ClaimsMade'
    BY <1>1, <1>2, <1>3 DEF CapturesInv, ClaimsMade, Claimed
<1>6. HeldOnce'
    BY <1>1, <1>2, <1>3 DEF CapturesInv, HeldOnce
<1>. QED
    BY <1>1, <1>4, <1>5, <1>6 DEF CapturesInv, GroupsShape, GroupsWhole

\* A capture that fails gives its claim back, unless there is a newer target.
LEMMA FailKeeps ==
    ASSUME CapturesInv, NEW c \in Clips, Captures!CaptureFails(c) PROVE CapturesInv'
<1>0. PICK o, claim : o = kEncoding[c].by /\ claim = kEncoding[c].claim  OBVIOUS
<1>1. /\ kEncoding' = [kEncoding EXCEPT ![c] = Captures!Idle] /\ o # None
      /\ kTarget' = IF kTarget[o] = Captures!NoTarget THEN [kTarget EXCEPT ![o] = claim] ELSE kTarget
      /\ UNCHANGED <<kClips, kParent, kAttached, kArmings, kFolded>>
    BY <1>0 DEF Captures!CaptureFails, Captures!groups
<1>2. /\ o \in Operators /\ claim \in Targets
      /\ Captures!Idle \in [by : Operators \cup {None}, claim : Targets]
      /\ Captures!NoTarget.arming = 0 /\ Captures!Idle.claim = Captures!NoTarget
    BY <1>0, <1>1, MonitorAssumption
    DEF Captures!NoTarget, Captures!Idle, CapturesInv, ArmingsShape, Targets
<1>3. /\ kEncoding'[c] = Captures!Idle /\ \A d \in Clips : d # c => kEncoding'[d] = kEncoding[d]
      /\ \A q \in Operators : kTarget'[q] = kTarget[q] \/ (q = o /\ kTarget'[q] = claim)
    BY <1>1, <1>2 DEF CapturesInv, ArmingsShape
<1>4. ArmingsShape'  BY <1>1, <1>2 DEF CapturesInv, ArmingsShape
<1>5. ClaimsMade'
    BY <1>0, <1>1, <1>2, <1>3 DEF CapturesInv, ClaimsMade, Claimed
<1>6. HeldOnce'
    BY <1>0, <1>1, <1>2, <1>3 DEF CapturesInv, HeldOnce
<1>. QED
    BY <1>1, <1>4, <1>5, <1>6 DEF CapturesInv, GroupsShape, GroupsWhole

\* A capture ends: a clip of its own, or folded under the target it claimed.
LEMMA DoneKeeps ==
    ASSUME CapturesInv, NEW c \in Clips, Captures!CaptureDone(c) PROVE CapturesInv'
<1>0. PICK claim : claim = kEncoding[c].claim  OBVIOUS
<1>1. /\ kEncoding' = [kEncoding EXCEPT ![c] = Captures!Idle] /\ kEncoding[c] # Captures!Idle
      /\ kClips' = kClips \cup {c} /\ Captures!FoldClaimed(c, claim)
      /\ UNCHANGED <<kTarget, kArmings>>
    BY <1>0 DEF Captures!CaptureDone
<1>2. /\ c \notin kClips /\ claim \in Targets /\ Claimed(claim)
      /\ claim.arming = 0 => claim = Captures!NoTarget
      /\ Captures!Idle \in [by : Operators \cup {None}, claim : Targets]
      /\ Captures!Idle.claim = Captures!NoTarget
      /\ Captures!NoTarget.arming = 0
    BY <1>0, <1>1, MonitorAssumption
    DEF Captures!NoTarget, Captures!Idle, CapturesInv, ArmingsShape, ClaimsMade, Targets
<1>3. kEncoding'[c] = Captures!Idle /\ \A d \in Clips : d # c => kEncoding'[d] = kEncoding[d]
    BY <1>1 DEF CapturesInv, ArmingsShape
<1>4. ClaimsMade'
    BY <1>1, <1>2, <1>3 DEF CapturesInv, ClaimsMade, Claimed
<1>5. CASE UNCHANGED <<kParent, kAttached, kFolded>>
    <2>1. GroupsShape' /\ GroupsWhole'
        BY <1>1, <1>5 DEF CapturesInv, GroupsShape, GroupsWhole
    <2>2. ArmingsShape'  BY <1>1, <1>2, <1>5 DEF CapturesInv, ArmingsShape
    <2>3. HeldOnce'  BY <1>1, <1>2, <1>3, <1>5 DEF CapturesInv, HeldOnce
    <2>. QED  BY <1>4, <2>1, <2>2, <2>3 DEF CapturesInv
<1>6. CASE /\ claim # Captures!NoTarget /\ Captures!Fold(c, Captures!Main(claim.clip))
           /\ kFolded' = [kFolded EXCEPT ![claim.arming] = @ \cup {c}]
    <2>0. PICK m : m = Captures!Main(claim.clip)  OBVIOUS
    <2>1. claim.clip \in kClips /\ claim.arming # 0 /\ claim.arming \in 1..MaxArmings
        BY <1>2, <1>6, MonitorAssumption DEF Claimed, Targets
    <2>2. m \in kClips /\ kParent[m] = None /\ m # None
        BY <2>0, <2>1, MonitorAssumption DEF Captures!Main, CapturesInv, GroupsShape, GroupsWhole
    <2>3. kParent[c] = None  BY <1>2 DEF CapturesInv, GroupsWhole
    <2>4. GroupsShape' /\ GroupsWhole'
        BY <1>1, <1>2, <1>6, <2>0, <2>2, <2>3, FoldKeeps DEF CapturesInv
    <2>5. ArmingsShape'  BY <1>1, <1>2, <1>6 DEF CapturesInv, ArmingsShape
    <2>6. kFolded[claim.arming] = {}
        BY <1>0, <2>1 DEF CapturesInv, HeldOnce
    <2>7. /\ kFolded'[claim.arming] = {c}
          /\ \A n \in 1..MaxArmings : n # claim.arming => kFolded'[n] = kFolded[n]
        BY <1>6, <2>1, <2>6 DEF CapturesInv, ArmingsShape
    <2>8. claim.arming <= kArmings  BY <1>2, <2>1 DEF Claimed
    <2>9. \A d \in Clips : kEncoding'[d].claim.arming # claim.arming
        BY <1>0, <1>2, <1>3, <2>1 DEF CapturesInv, HeldOnce
    <2>10. \A o \in Operators : kTarget[o].arming # claim.arming
        BY <1>0, <2>1 DEF CapturesInv, HeldOnce
    <2>11. HeldOnce'
        BY <1>1, <1>2, <1>3, <2>7, <2>8, <2>9, <2>10 DEF CapturesInv, HeldOnce
    <2>. QED  BY <1>4, <2>4, <2>5, <2>11 DEF CapturesInv
<1>. QED  BY <1>1, <1>5, <1>6 DEF Captures!FoldClaimed

LEMMA CapturesStep ==
    ASSUME CapturesInv, [Captures!Next]_Captures!vars PROVE CapturesInv'
<1>1. ASSUME NEW c \in Clips, NEW t \in Clips, Captures!Attach(c, t) PROVE CapturesInv'
    <2>0. PICK m : m = Captures!Main(t)  OBVIOUS
    <2>1. /\ c \in kClips /\ t \in kClips /\ c # m /\ Captures!Fold(c, m)
          /\ kParent[c] # None => kParent[c] # m
          /\ UNCHANGED <<kClips, kTarget, kEncoding, kFolded, kArmings>>
        BY <1>1, <2>0 DEF Captures!Attach, Captures!Attachable, Captures!append
    <2>2. m \in kClips /\ kParent[m] = None /\ m # None
        BY <2>0, <2>1, MonitorAssumption DEF Captures!Main, CapturesInv, GroupsShape, GroupsWhole
    <2>3. GroupsShape' /\ GroupsWhole'  BY <2>1, <2>2, FoldKeeps DEF CapturesInv
    <2>4. ArmingsShape' /\ ClaimsMade' /\ HeldOnce'
        BY <2>1 DEF CapturesInv, ArmingsShape, ClaimsMade, HeldOnce, Claimed
    <2>. QED  BY <2>3, <2>4 DEF CapturesInv
<1>2. ASSUME UNCHANGED <<kClips, kParent, kAttached, kTarget, kEncoding, kFolded, kArmings>>
      PROVE  CapturesInv'
    BY <1>2
    DEF CapturesInv, GroupsShape, GroupsWhole, ArmingsShape, ClaimsMade, HeldOnce, Claimed
<1>3. ASSUME NEW c \in Clips, Captures!Restore(c) \/ Captures!Update(c) PROVE CapturesInv'
    BY <1>2, <1>3 DEF Captures!Restore, Captures!Update, Captures!groups, Captures!append
<1>4. ASSUME NEW k \in Keys, NEW i,
             \/ Captures!Deliver(k) \/ Captures!Retry(k)
             \/ Captures!DeliverUpdate(k, i) \/ Captures!RetryUpdate(k, i)
      PROVE  CapturesInv'
    BY <1>2, <1>4
    DEF Captures!Deliver, Captures!Retry, Captures!DeliverUpdate, Captures!RetryUpdate,
        Captures!groups, Captures!append
<1>5. CASE UNCHANGED Captures!vars
    BY <1>2, <1>5 DEF Captures!vars, Captures!groups, Captures!append
<1>. QED
    BY <1>1, <1>3, <1>4, <1>5, DetachKeeps, PromoteKeeps, DisarmKeeps, ArmKeeps, StartKeeps,
       FailKeeps, DoneKeeps
    DEF Captures!Next, Captures!ClipStep

LEMMA CapturesBehave == MCSpec => Captures!Spec
<1>1. MCInit => Captures!Init  BY DEF MCInit
<1>2. [MCNext]_MCVars => [Captures!Next]_Captures!vars
  BY DEF MCNext, MCVars, kVars, Captures!vars, Captures!groups, Captures!history,
         Captures!delivery, Captures!append
<1>. QED  BY <1>1, <1>2, PTL DEF MCSpec, Captures!Spec

LEMMA CapturesHold ==
    ASSUME CapturesInv PROVE Captures!GroupsIntact /\ Captures!OneCapturePerArming
<1>1. \A m \in kClips : Captures!Under(m) = {a \in kAttached[m] \cap kClips : kParent[a] = m}
    BY DEF Captures!Under
<1>2. \A c \in kClips : c \in Captures!Rows <=> kParent[c] = None
    BY <1>1, MonitorAssumption
    DEF Captures!Rows, CapturesInv, GroupsShape, GroupsWhole
<1>3. Captures!GroupsIntact
    BY <1>1, <1>2 DEF Captures!GroupsIntact, CapturesInv, GroupsShape, GroupsWhole
<1>4. Captures!OneCapturePerArming
    BY DEF Captures!OneCapturePerArming, CapturesInv, HeldOnce
<1>. QED  BY <1>3, <1>4

\* Every captured GIF is a row of the page or listed by one that is, and an armed
\* capture goes to one clip only, for any clips, operators and armings (_attach_clip,
\* monitor_clip_group, _ClipAppendStore.take and restore).
THEOREM ClipsStayGroupedHolds == MCSpec => []ClipsStayGrouped
<1>1. CapturesInv => ClipsStayGrouped  BY CapturesHold DEF ClipsStayGrouped
<1>2. CapturesInv /\ [Captures!Next]_Captures!vars => CapturesInv'  BY CapturesStep
<1>. QED  BY <1>1, <1>2, InitCaptures, CapturesBehave, PTL DEF Captures!Spec
-------------------------------------------------------------------------------
(***************************************************************************)
(* The live preview.  The playlist holds the newest segments of its run    *)
(* without a gap, and what leaves it has been absorbed: the pinned range   *)
(* is held up to where the pins have looked, and in the playlist beyond.   *)
(***************************************************************************)
PreviewShape ==
    /\ lNext \in Nat /\ lAbsorbed \in Nat /\ lAbsorbed <= lNext /\ lRun \in Nat
    /\ lLive \subseteq Nat
    /\ lPin \in [on : BOOLEAN, start : Nat, run : Nat, held : SUBSET Nat]
    /\ lPin.run <= lRun
    /\ lRequest \in [Browsers -> {"idle", "waiting", "loopback", "direct"}]
    /\ lPath \in BOOLEAN /\ lLeaked \in BOOLEAN /\ lReachable \in BOOLEAN

\* Nothing is written where no preview runs, and the playlist ends with the newest.
Playlist ==
    /\ lEntry = "none" => lAlive = FALSE /\ lLive = {}
    /\ \A n \in lLive : n < lNext
    /\ \A n \in lLive, m \in Nat : n <= m /\ m < lNext => m \in lLive

Pinned(n) == lPin.start <= n /\ n < lPin.start + ClipRange
PinKept ==
    lPin.on /\ lPin.run = lRun /\ lEntry # "none" =>
        \A n \in Nat : Pinned(n) /\ n < lNext =>
            n \in lPin.held \cup lLive /\ (n < lAbsorbed => n \in lPin.held)

PreviewInv == PreviewShape /\ Playlist /\ PinKept /\ Preview!PathHasUser

LEMMA InitPreview == ASSUME Preview!Init PROVE PreviewInv
<1>1. PreviewShape
    <2>1. Preview!NoPin \in [on : BOOLEAN, start : Nat, run : Nat, held : SUBSET Nat]
        BY DEF Preview!NoPin
    <2>2. Preview!NoPin.run = 0  BY DEF Preview!NoPin
    <2>3. lNext = 0 /\ lAbsorbed = 0 /\ lRun = 0 /\ lLive = {} /\ lPin = Preview!NoPin
        BY DEF Preview!Init
    <2>4. /\ lRequest \in [Browsers -> {"idle", "waiting", "loopback", "direct"}]
          /\ lPath \in BOOLEAN /\ lLeaked \in BOOLEAN /\ lReachable \in BOOLEAN
        BY DEF Preview!Init
    <2>. QED  BY <2>1, <2>2, <2>3, <2>4 DEF PreviewShape
<1>2. Playlist /\ PinKept /\ Preview!PathHasUser
    BY DEF Preview!Init, Playlist, PinKept, Preview!NoPin, Preview!PathHasUser
<1>. QED  BY <1>1, <1>2 DEF PreviewInv

\* The first segment that leaves is the oldest one.
LEMMA OldestIsFirst ==
    ASSUME PreviewShape, lLive # {}
    PROVE  Preview!Oldest \in lLive /\ \A m \in lLive : Preview!Oldest <= m
<1>0. PICK R : R = OpToRel(<, Nat)  OBVIOUS
<1>1. IsWellFoundedOn(R, Nat)  BY <1>0, NatLessThanWellFounded
<1>4. \A m, n \in Nat : m < n => <<m, n>> \in R  BY <1>0 DEF OpToRel
<1>5. lLive \subseteq Nat  BY DEF PreviewShape
<1>2. PICK n \in lLive : \A m \in lLive : <<m, n>> \notin R
    BY <1>1, <1>5, WFMin
<1>3. ASSUME NEW m \in lLive PROVE n <= m
    <2>1. m \in Nat /\ n \in Nat  BY DEF PreviewShape
    <2>2. ~(m < n)  BY <1>4, <1>2, <2>1
    <2>. QED  BY <2>1, <2>2
<1>. QED  BY <1>3 DEF Preview!Oldest

\* A segment is written, and one that was absorbed leaves.
LEMMA WriteKeeps == ASSUME PreviewInv, Preview!Write PROVE PreviewInv'
<1>1. /\ lLive' = Preview!Rolled \cup {lNext} /\ lNext' = lNext + 1
      /\ \A n \in lLive \ Preview!Rolled : n < lAbsorbed
      /\ lEntry # "none" /\ lAlive' = lAlive
      /\ UNCHANGED <<lEntry, lRun, lPin, lAbsorbed, lPath, lRemembered, lReachable, lLeaked, lRequest>>
    BY DEF Preview!Write, Preview!HasInput, Preview!gateway, Preview!pins, PreviewInv, Playlist
<1>2. /\ Preview!Rolled \subseteq lLive
      /\ \A n \in Preview!Rolled, m \in lLive : n <= m => m \in Preview!Rolled
    <2>1. CASE lLive = {}  BY <2>1 DEF Preview!Rolled
    <2>2. CASE lLive # {}
        <3>1. Preview!Oldest \in lLive /\ \A m \in lLive : Preview!Oldest <= m
            BY <2>2, OldestIsFirst DEF PreviewInv
        <3>. QED  BY <3>1 DEF Preview!Rolled, PreviewInv, PreviewShape
    <2>. QED  BY <2>1, <2>2
<1>3. PreviewShape'  BY <1>1, <1>2 DEF PreviewInv, PreviewShape
<1>4. Playlist'
    <2>1. \A n \in lLive' : n \in Nat /\ n < lNext'
        BY <1>1, <1>2 DEF PreviewInv, PreviewShape, Playlist
    <2>2. ASSUME NEW n \in lLive', NEW m \in Nat, n <= m, m < lNext' PROVE m \in lLive'
        <3>1. CASE m = lNext  BY <1>1, <3>1
        <3>2. CASE m # lNext
            <4>1. m < lNext /\ n \in Preview!Rolled /\ n \in Nat
                BY <1>1, <1>2, <2>2, <3>2 DEF PreviewInv, PreviewShape
            <4>2. m \in lLive  BY <1>2, <2>2, <4>1 DEF PreviewInv, Playlist
            <4>. QED  BY <1>1, <1>2, <2>2, <4>1, <4>2
        <3>. QED  BY <3>1, <3>2
    <2>. QED  BY <1>1, <2>1, <2>2 DEF Playlist
<1>5. PinKept'
    <2>1. SUFFICES ASSUME lPin.on, lPin.run = lRun, NEW n \in Nat, Pinned(n), n < lNext + 1
                   PROVE  n \in lPin.held \cup lLive' /\ (n < lAbsorbed => n \in lPin.held)
        BY <1>1 DEF PinKept, Pinned
    <2>2. CASE n = lNext  BY <1>1, <2>2 DEF PreviewInv, PreviewShape
    <2>3. CASE n < lNext
        <3>1. n \in lPin.held \cup lLive /\ (n < lAbsorbed => n \in lPin.held)
            BY <1>1, <2>1, <2>3 DEF PreviewInv, PinKept
        <3>. QED  BY <1>1, <3>1
    <2>. QED  BY <2>1, <2>2, <2>3 DEF PreviewInv, PreviewShape
<1>6. Preview!PathHasUser'  BY <1>1 DEF Preview!PathHasUser
<1>. QED  BY <1>3, <1>4, <1>5, <1>6 DEF PreviewInv

\* A start is pinned in the playlist, absorbed, and released.
LEMMA PinKeeps ==
    ASSUME PreviewInv,
           \/ \E n \in 0..MaxSegments : Preview!SetStart(n)
           \/ Preview!Absorb \/ Preview!Release
    PROVE  PreviewInv'
<1>1. UNCHANGED <<lEntry, lAlive, lLive, lNext, lRun, lPath, lRemembered, lReachable, lLeaked, lRequest>>
    BY DEF Preview!SetStart, Preview!Absorb, Preview!Release, Preview!process, Preview!gateway,
           Preview!media
<1>2. Playlist' /\ Preview!PathHasUser'
    BY <1>1 DEF PreviewInv, Playlist, Preview!PathHasUser
<1>3. ASSUME NEW n \in 0..MaxSegments, Preview!SetStart(n) PROVE PreviewInv'
    <2>1. /\ lPin' = [on |-> TRUE, start |-> n, run |-> lRun, held |-> Preview!Wanted(n)]
          /\ lAbsorbed' = lAbsorbed /\ n \in lLive /\ n \in Nat
        BY <1>3, MonitorAssumption DEF Preview!SetStart, PreviewInv, PreviewShape
    <2>2. PreviewShape'
        <3>1. lRun \in Nat /\ Preview!Wanted(n) \in SUBSET Nat
            BY DEF PreviewInv, PreviewShape, Preview!Wanted
        <3>2. /\ lPin' \in [on : BOOLEAN, start : Nat, run : Nat, held : SUBSET Nat]
              /\ lPin'.run = lRun
            BY <2>1, <3>1
        <3>. QED  BY <1>1, <2>1, <3>2 DEF PreviewInv, PreviewShape
    <2>3. PinKept'
        BY <1>1, <2>1, MonitorAssumption
        DEF PinKept, Pinned, Preview!Wanted, PreviewInv, PreviewShape, Playlist
    <2>. QED  BY <1>2, <2>2, <2>3 DEF PreviewInv
<1>4. CASE Preview!Absorb
    <2>1. lAbsorbed' = lNext  BY <1>4 DEF Preview!Absorb
    <2>2. CASE lPin.on
        <3>1. lPin' = [lPin EXCEPT !.held = lPin.held \cup Preview!Wanted(lPin.start)]
            BY <1>4, <2>2 DEF Preview!Absorb, Preview!Absorbs
        <3>2. /\ lPin'.on = lPin.on /\ lPin'.start = lPin.start /\ lPin'.run = lPin.run
              /\ lPin'.held = lPin.held \cup Preview!Wanted(lPin.start)
              /\ lPin' \in [on : BOOLEAN, start : Nat, run : Nat, held : SUBSET Nat]
            BY <3>1 DEF PreviewInv, PreviewShape, Preview!Wanted
        <3>3. PreviewShape'  BY <1>1, <2>1, <3>2 DEF PreviewInv, PreviewShape
        <3>4. PinKept'
            BY <1>1, <2>1, <3>2 DEF PreviewInv, PinKept, Pinned, Preview!Wanted
        <3>. QED  BY <1>2, <3>3, <3>4 DEF PreviewInv
    <2>3. CASE ~lPin.on
        <3>1. lPin' = lPin  BY <1>4, <2>3 DEF Preview!Absorb
        <3>. QED  BY <1>1, <1>2, <2>1, <2>3, <3>1 DEF PreviewInv, PreviewShape, PinKept
    <2>. QED  BY <2>2, <2>3
<1>5. CASE Preview!Release
    <2>1. lPin' = Preview!NoPin /\ lAbsorbed' = lAbsorbed  BY <1>5 DEF Preview!Release
    <2>. QED
        BY <1>1, <1>2, <2>1 DEF PreviewInv, PreviewShape, PinKept, Preview!NoPin
<1>. QED  BY <1>3, <1>4, <1>5

\* FFmpeg starts: another source begins a new run.
LEMMA LaunchKeeps ==
    ASSUME PreviewInv, NEW t \in Browsers, Preview!Launch(t) PROVE PreviewInv'
<1>1. /\ lRequest[t] \in {"loopback", "direct"} /\ lRequest' = [lRequest EXCEPT ![t] = "idle"]
      /\ lEntry' = lRequest[t] /\ UNCHANGED <<lPath, lRemembered, lReachable, lLeaked, lPin>>
    BY DEF Preview!Launch, Preview!gateway
<1>2. Preview!PathHasUser'  BY <1>1 DEF Preview!PathHasUser
<1>3. CASE /\ lRun' = lRun + 1 /\ lNext' = 0 /\ lLive' = {} /\ lAbsorbed' = 0
    <2>1. PreviewShape'  BY <1>1, <1>3 DEF PreviewInv, PreviewShape
    <2>2. Playlist' /\ PinKept'
        BY <1>1, <1>3 DEF PreviewInv, PreviewShape, Playlist, PinKept
    <2>. QED  BY <1>2, <2>1, <2>2 DEF PreviewInv
<1>4. CASE lEntry = lRequest[t] /\ UNCHANGED <<lRun, lNext, lLive, lAbsorbed>>
    BY <1>1, <1>2, <1>4 DEF PreviewInv, PreviewShape, Playlist, PinKept, Pinned
<1>. QED  BY <1>3, <1>4 DEF Preview!Launch, Preview!ColdStart, Preview!media

\* Stopping, dying, looking, relaunching, and the gateway: the playlist is left alone
\* or, with the preview, given up, and a path nobody uses is removed.
LEMMA GatewayKeeps ==
    ASSUME PreviewInv,
           \/ \E t \in Browsers : Preview!Ask(t) \/ Preview!Ready(t)
           \/ Preview!Stop \/ Preview!Relaunch \/ Preview!Dies \/ Preview!Touch \/ Preview!Idle
           \/ Preview!SourceChanges \/ Preview!GatewayRestarts \/ Preview!GatewayHangs
    PROVE  PreviewInv'
<1>1. /\ UNCHANGED <<lRun, lNext, lPin, lAbsorbed>>
      /\ \/ lLive' = lLive /\ (lEntry = "none" <=> lEntry' = "none")
            /\ (lEntry = "none" => lAlive' = lAlive)
         \/ lLive' = {} /\ lEntry' = "none" /\ lAlive' = FALSE
    BY DEF Preview!Ask, Preview!Ready, Preview!Stop, Preview!Relaunch, Preview!Dies,
           Preview!Touch, Preview!Idle, Preview!SourceChanges, Preview!GatewayRestarts,
           Preview!GatewayHangs, Preview!BeforeRestart, Preview!process, Preview!media,
           Preview!pins, PreviewInv, Playlist
<1>2. Playlist' /\ PinKept'
    BY <1>1 DEF PreviewInv, PreviewShape, Playlist, PinKept, Pinned
<1>3. PreviewShape'
    BY <1>1
    DEF PreviewInv, PreviewShape, Preview!Ask, Preview!Ready, Preview!Stop, Preview!Relaunch,
        Preview!Dies, Preview!Touch, Preview!Idle, Preview!SourceChanges,
        Preview!GatewayRestarts, Preview!GatewayHangs, Preview!BeforeRestart, Preview!process,
        Preview!gateway, Preview!Removed, Preview!Registered, Preview!ReleaseSibling
<1>4. Preview!PathHasUser'
    BY <1>1
    DEF PreviewInv, PreviewShape, Preview!PathHasUser, Preview!Ask, Preview!Ready, Preview!Stop,
        Preview!Relaunch, Preview!Dies, Preview!Touch, Preview!Idle, Preview!SourceChanges,
        Preview!GatewayRestarts, Preview!GatewayHangs, Preview!BeforeRestart, Preview!process,
        Preview!gateway, Preview!Removed, Preview!Registered, Preview!ReleaseSibling
<1>. QED  BY <1>2, <1>3, <1>4 DEF PreviewInv

LEMMA PreviewStep ==
    ASSUME PreviewInv, [Preview!Next]_Preview!vars PROVE PreviewInv'
<1>1. CASE UNCHANGED Preview!vars
    BY <1>1
    DEF Preview!vars, Preview!process, Preview!gateway, Preview!media, Preview!pins, PreviewInv,
        PreviewShape, Playlist, PinKept, Pinned, Preview!PathHasUser
<1>. QED
    BY <1>1, WriteKeeps, PinKeeps, LaunchKeeps, GatewayKeeps DEF Preview!Next

LEMMA PreviewBehaves == MCSpec => Preview!Spec
<1>1. MCInit => Preview!Init  BY DEF MCInit
<1>2. [MCNext]_MCVars => [Preview!Next]_Preview!vars
  BY DEF MCNext, MCVars, lVars, Preview!vars, Preview!process, Preview!gateway, Preview!media,
         Preview!pins
<1>. QED  BY <1>1, <1>2, PTL DEF MCSpec, Preview!Spec

\* A path of the gateway has a user, and a pinned range keeps its footage, for any
\* tabs, playlist length and pinned range (LivePreviewManager.on_stop,
\* _preview_sources, _absorb_pin_segments).
THEOREM PreviewWholeHolds == MCSpec => []PreviewWhole
<1>1. PreviewInv => PreviewWhole
    <2>1. SUFFICES ASSUME PreviewInv, lPin.on, lPin.run = lRun, lLive # {},
                          NEW n \in lPin.start..lNext - 1, n < lPin.start + ClipRange
                   PROVE  n \in lPin.held \cup lLive
        BY DEF PreviewInv, PreviewWhole, Preview!PinWhole
    <2>2. n \in Nat /\ Pinned(n) /\ n < lNext /\ lEntry # "none"
        <3>1. lPin.start \in Nat /\ lNext \in Nat  BY <2>1 DEF PreviewInv, PreviewShape
        <3>2. n \in Nat /\ lPin.start <= n /\ n < lNext  BY <2>1, <3>1
        <3>. QED  BY <2>1, <3>2 DEF PreviewInv, Playlist, Pinned
    <2>. QED  BY <2>1, <2>2 DEF PreviewInv, PinKept
<1>2. PreviewInv /\ [Preview!Next]_Preview!vars => PreviewInv'  BY PreviewStep
<1>. QED  BY <1>1, <1>2, InitPreview, PreviewBehaves, PTL DEF Preview!Spec
================================================================================

----------------------------- MODULE OpenPlatform -----------------------------
(***************************************************************************)
(* OpenPlatformClient: the OAuth sign-in and the token that Dashboard and  *)
(* monitor share through one file.  Each process reads the file once and   *)
(* then trusts its copy; a refresh holds the lock of its process over the  *)
(* request and the save; a sign-in (two browser tabs may answer the same   *)
(* redirect) does not hold it.                                             *)
(*                                                                         *)
(* Tokens are numbered in the order the platform issued them: n stands for *)
(* an access token and the refresh token it came with.  What the platform  *)
(* does with old refresh tokens is not in this repository: the model       *)
(* allows both that a refresh uses its token up and that it does not.      *)
(***************************************************************************)
EXTENDS Naturals, FiniteSets

CONSTANTS Processes,    \* "dashboard" signs in, all publish
          Tabs,         \* browser tabs that come back from the platform
          MaxTokens,    \* tokens the platform issues (bound)
          MaxCalls,     \* articles asked for (bound)
          MaxRestarts   \* process restarts (bound)

Tokens == 1..MaxTokens
Nil == 0
Unset == MaxTokens + 1      \* _UNSET: the file has not been read
Signer == "dashboard"

VARIABLES
    rotates,    \* the platform's refresh uses its refresh token up
    issued,     \* tokens issued so far
    grants,     \* refresh tokens the platform accepts
    alive,      \* access tokens the platform accepts
    due,        \* access tokens past expires_at less the leeway
    refreshOf,  \* refresh token saved with an access token
    file,       \* the token file
    cache,      \* per process: _token_cache
    call,       \* per process: an article call, its token and what it tried
    state,      \* the OAuth state: unknown, pending or used
    tab,        \* what each tab's callback is doing
    exchanged,  \* codes exchanged for the state
    lost,       \* a process died between an answer and its save
    calls, restarts

token == <<rotates, issued, grants, alive, due, refreshOf>>
login == <<state, tab, exchanged>>
vars == <<token, file, cache, call, login, lost, calls, restarts>>

Away == [at |-> "away", token |-> Nil]
NoCall == [at |-> "idle", token |-> Nil, tried |-> 0]
Answer(p, at, t) == [call EXCEPT ![p].at = at, ![p].token = t]

\* _read_token: the first look at the file counts for the process's life.
Read(p) == IF cache[p] = Unset THEN file ELSE cache[p]

Issue(refresh) ==
    /\ issued < MaxTokens
    /\ issued' = issued + 1
    /\ alive' = alive \cup {issued'}
    /\ refreshOf' = [refreshOf EXCEPT ![issued'] = refresh]

\* _save_token: a temporary file renamed, and the process's own copy.
Save(p, t) == file' = t /\ cache' = [cache EXCEPT ![p] = t]

\* status, which the pages poll, may be the first to look.
Look(p) ==
    /\ cache[p] = Unset
    /\ cache' = [cache EXCEPT ![p] = file]
    /\ UNCHANGED <<token, file, call, login, lost, calls, restarts>>

(***************************************************************************)
(* create_article and upload_images                                        *)
(***************************************************************************)

StartCall(p) ==
    /\ call[p].at = "idle" /\ calls < MaxCalls
    /\ calls' = calls + 1
    /\ call' = [call EXCEPT ![p].at = "ensure"]
    /\ UNCHANGED <<token, file, cache, login, lost, restarts>>

\* An upload reads its two files first: one that cannot be sent ends it.
StartUpload(p) ==
    /\ call[p].at = "idle" /\ calls < MaxCalls
    /\ calls' = calls + 1
    /\ \E readable \in BOOLEAN :
         call' = IF readable THEN [call EXCEPT ![p].at = "ensure"] ELSE call
    /\ UNCHANGED <<token, file, cache, login, lost, restarts>>

\* _ensure_access_token, under the lock: no token, a usable one, or a refresh.
\* After a refusal (10008) the refresh is forced.
Ensure(p) ==
    /\ call[p].at = "ensure"
    /\ cache' = [cache EXCEPT ![p] = Read(p)]
    /\ call' = IF Read(p) = Nil THEN [call EXCEPT ![p] = NoCall]
               ELSE IF Read(p) \in due \/ call[p].tried > 0
               THEN Answer(p, "refreshing", Read(p))
               ELSE Answer(p, "sending", Read(p))
    /\ UNCHANGED <<token, file, login, lost, calls, restarts>>

\* The refresh token is saved only when the answer brought one.
CarriedNever(old, new) == new

\* An answer without a refresh token keeps the one that was used.
Carried(old, new) == IF new = Nil THEN old ELSE new

\* The platform's answer to a refresh; it may name no new refresh token.
Refresh(p) ==
    /\ call[p].at = "refreshing"
    /\ LET used == refreshOf[call[p].token] IN
         \/ /\ used \in grants
            /\ LET new == IF rotates THEN issued + 1 ELSE Nil IN
                 /\ Issue(Carried(used, new))
                 /\ grants' = IF rotates THEN (grants \ {used}) \cup {new} ELSE grants
            /\ call' = Answer(p, "refreshed", issued')
            /\ UNCHANGED <<rotates, due>>
         \/ call' = [call EXCEPT ![p] = NoCall] /\ UNCHANGED token
    /\ UNCHANGED <<file, cache, login, lost, calls, restarts>>

SaveRefreshed(p) ==
    /\ call[p].at = "refreshed"
    /\ Save(p, call[p].token)
    /\ call' = Answer(p, "sending", call[p].token)
    /\ UNCHANGED <<token, login, lost, calls, restarts>>

\* The token is refused (10008) and no fresh one was asked for yet.
Expired(p) == call[p].token \notin alive /\ call[p].tried = 0

\* An article is made, a GIF uploaded, the call fails, or the token is refused:
\* once more with a fresh one, then not again.
SendArticle(p) ==
    /\ call[p].at = "sending"
    /\ call' = IF Expired(p)
               THEN [call EXCEPT ![p].at = "ensure", ![p].tried = 1]
               ELSE [call EXCEPT ![p] = NoCall]
    /\ UNCHANGED <<token, file, cache, login, lost, calls, restarts>>

(***************************************************************************)
(* Sign-in.                                                                *)
(***************************************************************************)

\* authorization_url
StartSignIn ==
    /\ state = "unknown"
    /\ state' = "pending"
    /\ UNCHANGED <<token, file, cache, call, tab, exchanged, lost, calls, restarts>>

\* The state is taken out of the table under the lock.
TakesState == state' = "used"

\* exchange_oauth_code: a tab brings the state back in time, or too late.
Callback(t) ==
    /\ tab[t].at = "away" /\ state # "unknown"
    /\ IF state = "pending"
       THEN /\ \E inTime \in BOOLEAN :
                 tab' = [tab EXCEPT ![t].at = IF inTime THEN "exchange" ELSE "done"]
            /\ TakesState
       ELSE tab' = [tab EXCEPT ![t].at = "done"] /\ UNCHANGED state
    /\ UNCHANGED <<token, file, cache, call, exchanged, lost, calls, restarts>>

\* The platform answers the code with a token of a new grant.
Exchange(t) ==
    /\ tab[t].at = "exchange"
    /\ Issue(issued + 1)
    /\ grants' = grants \cup {issued'}
    /\ exchanged' = exchanged + 1
    /\ tab' = [tab EXCEPT ![t] = [at |-> "save", token |-> issued']]
    /\ UNCHANGED <<rotates, due, file, cache, call, state, lost, calls, restarts>>

SaveSignIn(t) ==
    /\ tab[t].at = "save"
    /\ Save(Signer, tab[t].token)
    /\ tab' = [tab EXCEPT ![t].at = "done"]
    /\ UNCHANGED <<token, call, state, exchanged, lost, calls, restarts>>

(***************************************************************************)
(* Time and restarts.                                                      *)
(***************************************************************************)

\* A token nears its end, and a due one ends.
Expires(t) ==
    /\ t \in alive
    /\ IF t \in due THEN alive' = alive \ {t} /\ UNCHANGED due
       ELSE due' = due \cup {t} /\ UNCHANGED alive
    /\ UNCHANGED <<rotates, issued, grants, refreshOf, file, cache, call, login, lost, calls, restarts>>

Restart(p) ==
    /\ restarts < MaxRestarts
    /\ restarts' = restarts + 1
    /\ cache' = [cache EXCEPT ![p] = Unset]
    /\ call' = [call EXCEPT ![p] = NoCall]
    /\ lost' = (lost \/ call[p].at = "refreshed"
                     \/ (p = Signer /\ \E t \in Tabs : tab[t].at = "save"))
    /\ tab' = IF p # Signer THEN tab
              ELSE [t \in Tabs |-> IF tab[t].at = "away" THEN Away ELSE [Away EXCEPT !.at = "done"]]
    /\ state' = IF p = Signer /\ state = "pending" THEN "used" ELSE state
    /\ UNCHANGED <<token, file, exchanged, calls>>

Init ==
    /\ rotates \in BOOLEAN
    /\ issued = 0 /\ grants = {} /\ alive = {} /\ due = {}
    /\ refreshOf = [t \in Tokens |-> Nil]
    /\ file = Nil
    /\ cache = [p \in Processes |-> Unset]
    /\ call = [p \in Processes |-> NoCall]
    /\ state = "unknown" /\ tab = [t \in Tabs |-> Away] /\ exchanged = 0
    /\ lost = FALSE /\ calls = 0 /\ restarts = 0

Next ==
    \/ \E p \in Processes :
         \/ Look(p) \/ StartCall(p) \/ StartUpload(p) \/ Ensure(p) \/ Refresh(p) \/ SaveRefreshed(p) \/ SendArticle(p)
         \/ Restart(p)
    \/ StartSignIn
    \/ \E t \in Tabs : Callback(t) \/ Exchange(t) \/ SaveSignIn(t)
    \/ \E t \in Tokens : Expires(t)

Spec == Init /\ [][Next]_vars
------------------------------------------------------------------------------
TypeOK ==
    /\ rotates \in BOOLEAN
    /\ issued \in 0..MaxTokens
    /\ grants \subseteq Tokens /\ alive \subseteq Tokens /\ due \subseteq Tokens
    /\ refreshOf \in [Tokens -> {Nil} \cup Tokens]
    /\ file \in {Nil} \cup Tokens
    /\ cache \in [Processes -> {Nil, Unset} \cup Tokens]
    /\ call \in [Processes -> [at : {"idle", "ensure", "refreshing", "refreshed", "sending"},
                                token : {Nil} \cup Tokens, tried : 0..1]]
    /\ state \in {"unknown", "pending", "used"}
    /\ tab \in [Tabs -> [at : {"away", "exchange", "save", "done"}, token : {Nil} \cup Tokens]]
    /\ exchanged \in Nat /\ lost \in BOOLEAN
    /\ calls \in 0..MaxCalls /\ restarts \in 0..MaxRestarts

(***************************************************************************)
(* The token file never goes back to a grant the platform has dropped, in  *)
(* whatever order two processes and a sign-in refresh and save: a restart  *)
(* heals every process without asking a human, unless one died between the *)
(* platform's answer and its save (_refresh_token, _save_token; the        *)
(* processes themselves may hold a token that another has used up).        *)
(***************************************************************************)
FileHeals ==
    file # Nil /\ ~lost /\ (\A p \in Processes : call[p].at # "refreshed")
        => refreshOf[file] \in grants

(***************************************************************************)
(* One redirect signs in once, whichever of two tabs answers it first.     *)
(***************************************************************************)
StateUsedOnce == exchanged <= 1
==============================================================================

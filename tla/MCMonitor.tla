----------------------------- MODULE MCMonitor -------------------------------
(***************************************************************************)
(* What the monitor and the Dashboard's pages do, on small instances: the  *)
(* author and the GIF of an article, the platform's token, the captured    *)
(* clips, the live preview and the sign-in.  Each has variables of its own;*)
(* a behaviour follows one of them, as focus says.                         *)
(***************************************************************************)
EXTENDS Naturals, TLC

CONSTANTS
    Processes, Publishes, Events, Match, Gifs, Accounts, MaxCalls, MaxChanges, \* publisher
    Servers, MaxTokens, MaxArticles, MaxRestarts,                              \* platform
    Clips, Keys, Operators, MaxArmings, MaxUpdates,                            \* captures
    Window, ClipRange, MaxSegments, MaxRuns,                                       \* preview
    Browsers, Users, Guests, Boss, None                                        \* sign-in

\* browsers and clips are numbered by the same values, of which two may be swapped
Symmetry == Permutations(Browsers)

\* every event is of one match
MCMatch == [e \in Events |-> "match"]

VARIABLES focus,
    pSource, pStored, pUploaded, pAssigned, pPool, pRule, pRecords, pArticles, pCall,
    pCalls, pChanges,
    oRotates, oIssued, oGrants, oAlive, oDue, oRefreshOf, oFile, oCache, oCall, oState,
    oTab, oExchanged, oLost, oCalls, oRestarts,
    kClips, kParent, kAttached, kDiscarded, kKey, kSentWith, kUpdates, kTask, kEdit,
    kArticle, kTarget, kEncoding, kArmings, kFolded,
    lEntry, lAlive, lFrozen, lWatched, lPath, lRemembered, lReachable, lLeaked,
    lUpstream, lRequest, lRun, lNext, lLive, lPin, lAbsorbed,
    sRecord, sLinked, sSession, sParked, sCookie, sRecovery, sDesk, sTold

------------------------------------------------------------------------------
(* The constants, with the values of Monitor.cfg: two processes, of which one has  *)
(* pages that publish, and two events of a match.                                  *)
Publisher == INSTANCE ArticlePublisher WITH
    Processes <- Processes, Publishes <- Publishes, Events <- Events,
    Match <- Match, Gifs <- Gifs, Accounts <- Accounts,
    None <- None, MaxCalls <- MaxCalls, MaxChanges <- MaxChanges, source <- pSource, stored <- pStored,
    uploaded <- pUploaded, assigned <- pAssigned, pool <- pPool, rule <- pRule,
    records <- pRecords, articles <- pArticles, call <- pCall, calls <- pCalls,
    changes <- pChanges
pVars == <<pSource, pStored, pUploaded, pAssigned, pPool, pRule, pRecords, pArticles,
           pCall, pCalls, pChanges>>

(* The Dashboard signs in from two tabs; it and the monitor publish. *)
Platform == INSTANCE OpenPlatform WITH
    Processes <- Servers, Tabs <- Browsers, MaxTokens <- MaxTokens,
    MaxCalls <- MaxArticles, MaxRestarts <- MaxRestarts, rotates <- oRotates, issued <- oIssued,
    grants <- oGrants, alive <- oAlive, due <- oDue, refreshOf <- oRefreshOf,
    file <- oFile, cache <- oCache, call <- oCall, state <- oState, tab <- oTab,
    exchanged <- oExchanged, lost <- oLost, calls <- oCalls, restarts <- oRestarts
oVars == <<oRotates, oIssued, oGrants, oAlive, oDue, oRefreshOf, oFile, oCache, oCall,
           oState, oTab, oExchanged, oLost, oCalls, oRestarts>>

(* Three captures of one operator at two seconds of a match. *)
Captures == INSTANCE MonitorClips WITH
    Clips <- Clips, Keys <- Keys, Operators <- Operators, None <- None,
    MaxArmings <- MaxArmings, MaxUpdates <- MaxUpdates, clips <- kClips, parent <- kParent,
    attached <- kAttached, discarded <- kDiscarded, key <- kKey, sentWith <- kSentWith,
    updates <- kUpdates, task <- kTask, edit <- kEdit, article <- kArticle,
    target <- kTarget, encoding <- kEncoding, armings <- kArmings, folded <- kFolded
kVars == <<kClips, kParent, kAttached, kDiscarded, kKey, kSentWith, kUpdates, kTask,
           kEdit, kArticle, kTarget, kEncoding, kArmings, kFolded>>

(* Two tabs of one preview with a playlist of two segments. *)
Preview == INSTANCE LivePreview WITH
    Tabs <- Browsers, Window <- Window, Range <- ClipRange, MaxSegments <- MaxSegments,
    MaxRuns <- MaxRuns,
    entry <- lEntry, alive <- lAlive, frozen <- lFrozen, watched <- lWatched,
    path <- lPath, remembered <- lRemembered, reachable <- lReachable,
    leaked <- lLeaked, upstream <- lUpstream, request <- lRequest, run <- lRun,
    next <- lNext, live <- lLive, pin <- lPin, absorbed <- lAbsorbed
lVars == <<lEntry, lAlive, lFrozen, lWatched, lPath, lRemembered, lReachable, lLeaked,
           lUpstream, lRequest, lRun, lNext, lLive, lPin, lAbsorbed>>

(* Two browsers, one Feishu account, one guest and the configured administrator. *)
Access == INSTANCE SignIn WITH
    Browsers <- Browsers, Users <- Users, Guests <- Guests, Boss <- Boss,
    Nobody <- None, record <- sRecord, linked <- sLinked, session <- sSession,
    parked <- sParked, cookie <- sCookie, recovery <- sRecovery, desk <- sDesk,
    told <- sTold
sVars == <<sRecord, sLinked, sSession, sParked, sCookie, sRecovery, sDesk, sTold>>

(* No clip, operator or list of clips is None; publish() is called by the pages of *)
(* one process; the platform, the playlist and append mode count from one.         *)
ASSUME MonitorAssumption ==
    /\ \A p, q \in Publishes : p = q
    /\ MaxTokens \in Nat
    /\ None \notin Clips /\ None \notin Operators /\ MaxArmings \in Nat
    /\ Window \in Nat /\ ClipRange \in Nat /\ MaxSegments \in Nat /\ MaxRuns \in Nat

------------------------------------------------------------------------------
MCVars == <<focus, pVars, oVars, kVars, lVars, sVars>>
MCInit ==
    /\ focus \in {"publish", "platform", "clips", "preview", "access"}
    /\ Publisher!Init /\ Platform!Init /\ Captures!Init /\ Preview!Init /\ Access!Init
    \* what a behaviour does not follow starts in one way
    /\ focus # "publish" => pSource = [e \in Events |-> CHOOSE g \in Gifs : TRUE]
    /\ focus # "platform" => oRotates
    /\ focus # "preview" => lReachable /\ lUpstream
MCNext ==
    \/ focus = "publish" /\ Publisher!Next /\ UNCHANGED <<focus, oVars, kVars, lVars, sVars>>
    \/ focus = "platform" /\ Platform!Next /\ UNCHANGED <<focus, pVars, kVars, lVars, sVars>>
    \/ focus = "clips" /\ Captures!Next /\ UNCHANGED <<focus, pVars, oVars, lVars, sVars>>
    \/ focus = "preview" /\ Preview!Next /\ UNCHANGED <<focus, pVars, oVars, kVars, sVars>>
    \/ focus = "access" /\ Access!Next /\ UNCHANGED <<focus, pVars, oVars, kVars, lVars>>
MCSpec == MCInit /\ [][MCNext]_MCVars
------------------------------------------------------------------------------
\* All articles of a match have one author, the article shows the GIF that was read
\* for it, and an event's GIF is published once, though processes crash and GIFs and
\* the pool change under way (ArticlePublisher._publish_event, the records).
PublishedTruly ==
    /\ [](focus = "publish" => Publisher!OneAuthor /\ Publisher!ShownIsRead)
    /\ [][focus = "publish" => Publisher!StaysPublished]_pVars

\* A token that another process refreshed is taken from the file before anyone gives
\* up, and an OAuth state is good for one code (_with_token, consume_oauth_state).
TokenHeals == focus = "platform" => Platform!FileHeals /\ Platform!StateUsedOnce

\* A folded clip is listed by its main GIF and by no other, and an armed capture goes
\* to one clip only (_attach_clip, _move_attachment, _ClipAppendStore.take).
ClipsStayGrouped == focus = "clips" => Captures!GroupsIntact /\ Captures!OneCapturePerArming

\* A path of the gateway has someone who watches it, and a pinned range keeps every
\* segment the playlist has shown since (release of siblings, _absorb_pin_segments).
PreviewWhole == focus = "preview" => Preview!PathHasUser /\ Preview!PinWhole

\* Only an approved applicant has an administrator's role, and a request is
\* notified and answered once (AccessStore, the approval callbacks).
AccessIsGranted ==
    /\ [](focus = "access" => Access!AdminsAreApproved)
    /\ [][focus = "access" => Access!Answering]_sVars
=============================================================================

----------------------------- MODULE MCScreens ------------------------------
(***************************************************************************)
(* The browser, on small instances: the inbox screen, the operator's       *)
(* triage, the tabs' session at a provider that gives a new refresh token  *)
(* at each refresh, and the service that tells the pages the frontend's    *)
(* version.  They share no state, and each behaviour is of one of them.    *)
(***************************************************************************)
EXTENDS InboxPage, Triage, FrontendVersion

VARIABLES
    part,
    stream, registry, shutting, ending, sends, events, jar, idp, request, worker, tab,
    sessionFaults, failed, over

sessionVars ==
    <<stream, registry, shutting, ending, sends, events, jar, idp, request, worker, tab,
      sessionFaults, failed, over>>

MCRequestOf == <<11, 11>>

Session == INSTANCE SseSession
    WITH Rotates <- {TRUE}, Tabs <- {"t1", "t2"}, Streams <- 1..2, Ids <- 1..3,
         MaxFrames <- 1, MaxEvents <- 1, MaxWaiting <- 2, MaxFaults <- 1,
         faults <- sessionFaults

\* The tabs' access token is spent, so that every request of theirs is one to refresh.
ScreensInit ==
    /\ part \in {"inbox", "triage", "session", "version"}
    /\ InboxPageInit /\ TriageInit /\ VersionInit
    /\ part # "inbox" => newest = NoTask
    /\ jar = Session!Cookies(0, 1) /\ Session!Init
ScreensNext ==
    \/ /\ part = "inbox" /\ InboxPageNext
       /\ UNCHANGED <<triageVars, versionVars, sessionVars>>
    \/ /\ part = "triage" /\ TriageNext
       /\ UNCHANGED <<inboxPageVars, versionVars, sessionVars>>
    \/ /\ part = "session" /\ Session!Next
       /\ UNCHANGED <<inboxPageVars, triageVars, versionVars>>
    \/ /\ part = "version" /\ VersionNext
       /\ UNCHANGED <<inboxPageVars, triageVars, sessionVars>>
screensVars == <<part, inboxPageVars, triageVars, versionVars, sessionVars>>
ScreensSpec == ScreensInit /\ [][ScreensNext /\ UNCHANGED part]_screensVars

\* SseSession's.
SignedOutIsOver == Session!SignedOutIsOver
=============================================================================

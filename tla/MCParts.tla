------------------------------- MODULE MCParts -------------------------------
(***************************************************************************)
(* Parts side by side that share no state: each behaviour is of one of     *)
(* them, and the others stay as they began.                                *)
(***************************************************************************)
EXTENDS Board, Posts, Document, SuiteRunner, RoleMap, LoginFlow, Lexical, Readiness

VARIABLE part

AnyOf(S) == CHOOSE x \in S : TRUE
PostsRest ==
    /\ call = [c \in Calls |-> Unmade(AnyOf(CallsAsked))] /\ cached = {AnyOf(Texts)}
    /\ PostsInit
DocumentRests ==
    front = <<Inline("last_seen"), Inline("repos")>> /\ body = <<Heading("reactions")>>
    /\ DocumentInit
RunnerRests == chosen = AnyOf(Arguments) /\ report = NoReports /\ RunnerInit
LoginRests == jar = Cookies(1, 1) /\ LoginInit

\* Tiers that are of one role or of two, with and without the other roles.
Implied == {S \in SUBSET Roles : S # {} /\ S # Roles}
SmallSettings ==
    [read : {NoRole, "r"}, write : {NoRole, "w", "r"}, admin : {NoRole, "p", "r"},
     extra : {{}, Roles}, hierarchy : UNION {[D -> Implied] : D \in SUBSET Roles}]
NoSettings ==
    [read |-> NoRole, write |-> NoRole, admin |-> NoRole, extra |-> {},
     hierarchy |-> [r \in {} |-> {}]]

PartsInit ==
    /\ part \in {"board", "posts", "document", "runner", "roles", "login", "lexical", "readiness"}
    /\ BoardInit /\ LexicalInit /\ ReadinessInit
    /\ IF part = "posts" THEN PostsInit ELSE PostsRest
    /\ IF part = "document" THEN DocumentInit ELSE DocumentRests
    /\ IF part = "runner" THEN RunnerInit ELSE RunnerRests
    /\ IF part = "login" THEN LoginInit ELSE LoginRests
    /\ IF part = "roles" THEN settings \in SmallSettings ELSE settings = NoSettings
    /\ RolesInit

PartsNext ==
    \/ /\ part = "board" /\ BoardNext
       /\ UNCHANGED <<postsVars, documentVars, runnerVars, roleVars, loginVars, lexicalVars,
                      readyVars>>
    \/ /\ part = "posts" /\ PostsNext
       /\ UNCHANGED <<boardVars, documentVars, runnerVars, roleVars, loginVars, lexicalVars,
                      readyVars>>
    \/ /\ part = "document" /\ DocumentNext
       /\ UNCHANGED <<boardVars, postsVars, runnerVars, roleVars, loginVars, lexicalVars,
                      readyVars>>
    \/ /\ part = "runner" /\ RunnerNext
       /\ UNCHANGED <<boardVars, postsVars, documentVars, roleVars, loginVars, lexicalVars,
                      readyVars>>
    \/ /\ part = "roles" /\ RolesNext
       /\ UNCHANGED <<boardVars, postsVars, documentVars, runnerVars, loginVars, lexicalVars,
                      readyVars>>
    \/ /\ part = "login" /\ LoginNext
       /\ UNCHANGED <<boardVars, postsVars, documentVars, runnerVars, roleVars, lexicalVars,
                      readyVars>>
    \/ /\ part = "lexical" /\ LexicalNext
       /\ UNCHANGED <<boardVars, postsVars, documentVars, runnerVars, roleVars, loginVars,
                      readyVars>>
    \/ /\ part = "readiness" /\ ReadinessNext
       /\ UNCHANGED <<boardVars, postsVars, documentVars, runnerVars, roleVars, loginVars,
                      lexicalVars>>

partsVars ==
    <<part, boardVars, postsVars, documentVars, runnerVars, roleVars, loginVars, lexicalVars,
      readyVars>>
PartsSpec == PartsInit /\ [][PartsNext /\ UNCHANGED part]_partsVars
=============================================================================

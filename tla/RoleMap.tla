------------------------------ MODULE RoleMap ------------------------------
(***************************************************************************)
(* The roles of the API's callers: the map from a role to those it implies *)
(* that AuthService builds at startup (backend/app/services/               *)
(* auth_service.py), from the three tiers and the implications on top of   *)
(* them, or refuses to; and the check of a caller's roles it is used in    *)
(* (backend/app/utils/auth.py).  A role to come next is the first of those *)
(* left, in an order that is fixed.                                        *)
(***************************************************************************)
EXTENDS Integers, Sequences

CONSTANTS Roles, NoRole

ASSUME RolesAssumption == NoRole \notin Roles

VARIABLES
    settings,       \* the tiers' roles, additional_roles and role_hierarchy
    built,          \* how far the constructor is
    expansion,      \* _hierarchy_map: a role it does not hold implies itself
    colour, path,   \* of the depth-first search
    unclosed,       \* the roles whose closure is to come
    closure         \* the one under way: its role, what it reached and its stack

roleVars == <<settings, built, expansion, colour, path, unclosed, closure>>

Hierarchies == UNION {[D -> SUBSET Roles] : D \in SUBSET Roles}
Settings ==
    [read : Roles \cup {NoRole}, write : Roles \cup {NoRole}, admin : Roles \cup {NoRole},
     extra : SUBSET Roles, hierarchy : Hierarchies]

Tiers == {settings.read, settings.write, settings.admin} \ {NoRole}
Configured == Tiers \cup settings.extra
Named == DOMAIN settings.hierarchy

\* What a tier's role implies: the admin's every tier below, the writer's the reader's.
Tier(r) ==
    IF r = settings.admin THEN Tiers
    ELSE IF r = settings.write THEN {r, settings.read} \ {NoRole}
    ELSE {r}

\* `edges`: a role's direct implications, and the roles that have an entry there.
Direct(r) == (Tier(r) \cup IF r \in Named THEN settings.hierarchy[r] ELSE {}) \ {r}
Edged == Tiers \cup Named

NoClosure == [of |-> NoRole, reached |-> {}, stack |-> {}]
NextRole(S) == CHOOSE r \in S : TRUE

RolesInit ==
    /\ settings \in Settings
    /\ built = "checks"
    /\ expansion = [r \in Roles |-> {r}]
    /\ colour = [r \in Roles |-> "white"] /\ path = << >>
    /\ unclosed = {} /\ closure = NoClosure

----------------------------------------------------------------------------
(* AuthService.__init__.                                                   *)

\* Reads are gated and no role could write.
Unwritable ==
    settings.read # NoRole /\ settings.write = NoRole /\ settings.admin = NoRole
Unknown == (Named \cup UNION {settings.hierarchy[r] : r \in Named}) \ Configured

Checks ==
    /\ built = "checks"
    /\ built' = IF Unwritable \/ Unknown # {} THEN "refused"
                ELSE IF Named = {} THEN "built" ELSE "visits"
    /\ expansion' = [r \in Roles |-> Tier(r)]
    /\ UNCHANGED <<settings, colour, path, unclosed, closure>>

----------------------------------------------------------------------------
(* _merge_role_hierarchy.                                                  *)

\* visit: what is left for it to look at.
ToVisit ==
    {r \in IF path = << >> THEN Edged ELSE Direct(path[Len(path)]) : colour[r] # "black"}

EntersRole ==
    /\ built = "visits" /\ ToVisit # {}
    /\ colour[NextRole(ToVisit)] = "white"
    /\ colour' = [colour EXCEPT ![NextRole(ToVisit)] = "grey"]
    /\ path' = Append(path, NextRole(ToVisit))
    /\ UNCHANGED <<settings, built, expansion, unclosed, closure>>

\* A role on the current path: a cycle.
FindsCycle ==
    /\ built = "visits" /\ ToVisit # {}
    /\ colour[NextRole(ToVisit)] = "grey"
    /\ built' = "refused"
    /\ UNCHANGED <<settings, expansion, colour, path, unclosed, closure>>

LeavesRole ==
    /\ built = "visits" /\ ToVisit = {} /\ path # << >>
    /\ colour' = [colour EXCEPT ![path[Len(path)]] = "black"]
    /\ path' = SubSeq(path, 1, Len(path) - 1)
    /\ UNCHANGED <<settings, built, expansion, unclosed, closure>>

Visited ==
    /\ built = "visits" /\ ToVisit = {} /\ path = << >>
    /\ built' = "closes" /\ unclosed' = Edged
    /\ UNCHANGED <<settings, expansion, colour, path, closure>>

\* The transitive closure, role by role.
ClosureBegins ==
    /\ built = "closes" /\ closure = NoClosure /\ unclosed # {}
    /\ LET r == NextRole(unclosed) IN
       closure' = [of |-> r, reached |-> {r}, stack |-> Direct(r)]
    /\ UNCHANGED <<settings, built, expansion, colour, path, unclosed>>

\* Mutant: what a role it reaches implies is not followed.
ClosureTakesOnly ==
    /\ closure.stack # {}
    /\ LET r == NextRole(closure.stack) IN
       closure' = [closure EXCEPT !.reached = @ \cup {r}, !.stack = @ \ {r}]
    /\ UNCHANGED <<settings, built, expansion, colour, path, unclosed>>

ClosureTakes ==
    /\ closure.stack # {}
    /\ LET r == NextRole(closure.stack) IN
       closure' = [closure EXCEPT
           !.reached = @ \cup {r},
           !.stack = (@ \ {r}) \cup IF r \in closure.reached THEN {} ELSE Direct(r)]
    /\ UNCHANGED <<settings, built, expansion, colour, path, unclosed>>

ClosureEnds ==
    /\ closure # NoClosure /\ closure.stack = {}
    /\ expansion' = [expansion EXCEPT ![closure.of] = closure.reached]
    /\ unclosed' = unclosed \ {closure.of}
    /\ closure' = NoClosure
    /\ UNCHANGED <<settings, built, colour, path>>

Merged ==
    /\ built = "closes" /\ closure = NoClosure /\ unclosed = {}
    /\ built' = "built"
    /\ UNCHANGED <<settings, expansion, colour, path, unclosed, closure>>

RolesNext ==
    \/ Checks
    \/ EntersRole \/ FindsCycle \/ LeavesRole \/ Visited
    \/ ClosureBegins \/ ClosureTakes \/ ClosureEnds \/ Merged

RolesSpec == RolesInit /\ [][RolesNext]_roleVars

----------------------------------------------------------------------------
(* A request's check.                                                      *)

\* A token's roles, of the realm and of the client, which count alike.
RoleTokens == [realm : SUBSET Roles, client : SUBSET Roles]
RawRoles(token) == token.realm \cup token.client

Expanded(raw) == UNION {expansion[r] : r \in raw}

\* @allow_roles may name the configured roles; others stop the startup.
Allowable == SUBSET Configured

\* A view's decorators: @no_role_check, @safe_query, and the roles of @allow_roles.
Views == [noRoleCheck : BOOLEAN, safe : BOOLEAN, allowed : Allowable]

\* resolve_required_role: any of these; none where nothing is gated.
Required(method, view) ==
    (IF view.allowed # {} THEN view.allowed
     ELSE IF view.safe \/ method = "GET" THEN {settings.read}
     ELSE IF settings.write # NoRole THEN {settings.write}
     ELSE {settings.admin}) \ {NoRole}

\* check_authorization.
MayCall(held, method, view) ==
    \/ view.noRoleCheck
    \/ /\ Configured # {} => held \cap Configured # {}
       /\ Required(method, view) # {} => held \cap Required(method, view) # {}

----------------------------------------------------------------------------
\* The path, the search's colours and the closures are of the roles the settings name.
RolesTypeOK ==
    /\ settings \in Settings
    /\ built \in {"checks", "visits", "closes", "built", "refused"}
    /\ expansion \in [Roles -> SUBSET Roles]
    /\ colour \in [Roles -> {"white", "grey", "black"}] /\ path \in Seq(Roles)
    /\ unclosed \subseteq Roles
    /\ closure \in [of : Roles \cup {NoRole}, reached : SUBSET Roles, stack : SUBSET Roles]

\* What a role implies at any number of steps: it is in every set that holds the
\* role and what its members imply.
Reachable(r) ==
    {x \in Roles : \A S \in SUBSET Roles :
        r \in S /\ (\A s \in S : Direct(s) \subseteq S) => x \in S}

\* Some roles imply each other in a circle: each of them another of them.
Circular == \E S \in SUBSET Roles : S # {} /\ \A r \in S : Direct(r) \cap S # {}

\* "The graph must have no cycle, and each role then implies itself and every role
\* it reaches" (_merge_role_hierarchy): the map is built of the settings that are
\* right and of no others, whatever their order, and a role implies in it what it
\* reaches, through the tiers and role_hierarchy together.
RolesAreReach ==
    /\ built = "built" =>
         ~Unwritable /\ (Named # {} => Unknown = {} /\ ~Circular)
    /\ built = "refused" => Unwritable \/ Unknown # {} \/ Circular
    /\ built = "built" => \A r \in Roles : expansion[r] = Reachable(r)

\* The tiers are a chain (AuthService's docstring): a caller whose roles let it call a
\* view as a writer may call it as a reader.
WritersMayRead ==
    built = "built" => \A token \in RoleTokens, view \in Views :
        LET held == Expanded(RawRoles(token)) IN
        MayCall(held, "POST", view) => MayCall(held, "GET", view)
=============================================================================

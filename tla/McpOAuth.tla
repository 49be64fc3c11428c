------------------------------- MODULE McpOAuth -------------------------------
(***************************************************************************)
(* Signing in to the MCP server: an authorization code wraps a Supabase    *)
(* session, /token exchanges it, and tools/list later looks up which       *)
(* client the session was issued to.  Minting codes (mcp-auth) and         *)
(* sessions (Supabase) are external.  Requests interleave between their    *)
(* statements; each may fail at any of them.                               *)
(***************************************************************************)
EXTENDS Naturals, FiniteSets

CONSTANTS
  Codes,       \* authorization codes, each with a session of its own
  Clients,     \* registered clients
  ClientOf,    \* the client a code was minted for
  Osaurus,     \* the clients named Osaurus
  Requests,    \* calls of /token and of tools/list
  None

OAuthAssumption ==
  /\ ClientOf \in [Codes -> Clients] /\ Osaurus \subseteq Clients
  /\ None \notin Clients \cup Codes

VARIABLES
  code,        \* mcp_oauth_codes: "live", "used", "gone", "none"
  expired,     \* codes whose expires_at has passed
  alive,       \* codes whose session exists at Supabase
  recorded,    \* mcp_oauth_sessions.client_id of a code's session, or None
  at, on,      \* where each request stands, and its code
  honest,      \* history: the request showed the client and the verifier
  closed       \* history: sessions that were listed closed-world while alive

vars == <<code, expired, alive, recorded, at, on, honest, closed>>

TypeOK ==
  /\ code \in [Codes -> {"none", "live", "used", "gone"}]
  /\ expired \subseteq Codes /\ alive \subseteq Codes /\ closed \subseteq Codes
  /\ recorded \in [Codes -> Clients \cup {None}]
  /\ at \in [Requests -> {"idle", "loaded", "recorded", "answered", "listing",
                          "over"}]
  /\ on \in [Requests -> Codes \cup {None}]
  /\ honest \subseteq Requests

Init ==
  /\ code = [c \in Codes |-> "none"] /\ recorded = [c \in Codes |-> None]
  /\ expired = {} /\ alive = {} /\ honest = {} /\ closed = {}
  /\ at = [r \in Requests |-> "idle"] /\ on = [r \in Requests |-> None]

Go(r, from, to) == at[r] = from /\ at' = [at EXCEPT ![r] = to]

-----------------------------------------------------------------------------
(* mcp-auth, Supabase and the crons                                        *)

Mint(c) ==
  /\ code[c] = "none" /\ code' = [code EXCEPT ![c] = "live"]
  /\ alive' = alive \cup {c}
  /\ UNCHANGED <<expired, recorded, at, on, honest, closed>>

TenMinutesPass(c) ==
  /\ code[c] \in {"live", "used"} /\ expired' = expired \cup {c}
  /\ UNCHANGED <<code, alive, recorded, at, on, honest, closed>>

SignOut(c) ==
  /\ c \in alive /\ alive' = alive \ {c}
  /\ UNCHANGED <<code, expired, recorded, at, on, honest, closed>>

\* cleanup_mcp_oauth_codes, cleanup_mcp_oauth_sessions
CleanUp ==
  /\ code' = [c \in Codes |->
       IF code[c] # "none" /\ (c \in expired \/ code[c] = "used") THEN "gone"
                                                              ELSE code[c]]
  /\ recorded' = [c \in Codes |-> IF c \in alive THEN recorded[c] ELSE None]
  /\ UNCHANGED <<expired, alive, at, on, honest, closed>>

-----------------------------------------------------------------------------
(* handleAuthorizationCode                                                 *)

\* A request presents a code for a client, with its redirect URI, secret and
\* verifier or not.
Load(r, c, client, proof) ==
  /\ code[c] # "none" /\ on' = [on EXCEPT ![r] = c]
  /\ LET good == code[c] = "live" /\ c \notin expired
                 /\ client = ClientOf[c] /\ proof
     IN Go(r, "idle", IF good THEN "loaded" ELSE "over")
  /\ honest' = IF client = ClientOf[c] /\ proof THEN honest \cup {r} ELSE honest
  /\ UNCHANGED <<code, expired, alive, recorded, closed>>

\* mutant of RecordSession: a record that cannot be saved is no reason to fail
RecordSessionOrNot(r) ==
  /\ \/ /\ Go(r, "loaded", "recorded")
        /\ recorded' = [recorded EXCEPT ![on[r]] = ClientOf[on[r]]]
     \/ Go(r, "loaded", "recorded") /\ UNCHANGED recorded
  /\ UNCHANGED <<code, expired, alive, on, honest, closed>>

\* recordSessionClient: if the upsert fails, so does the exchange, and the code
\* is not spent.
RecordSession(r) ==
  /\ \/ /\ Go(r, "loaded", "recorded")
        /\ recorded' = [recorded EXCEPT ![on[r]] = ClientOf[on[r]]]
     \/ Go(r, "loaded", "over") /\ UNCHANGED recorded
  /\ UNCHANGED <<code, expired, alive, on, honest, closed>>

\* mutant of Spend: the row need not be unused, only there
SpendAgain(r) ==
  /\ Go(r, "recorded", IF code[on[r]] \in {"live", "used"} THEN "answered" ELSE "over")
  /\ code' = [code EXCEPT ![on[r]] = IF @ = "live" THEN "used" ELSE @]
  /\ UNCHANGED <<expired, alive, recorded, on, honest, closed>>

\* UPDATE ... SET used_at WHERE used_at IS NULL: the one request that changes
\* the row gets the session's tokens.
Spend(r) ==
  /\ Go(r, "recorded", IF code[on[r]] = "live" THEN "answered" ELSE "over")
  /\ code' = [code EXCEPT ![on[r]] = IF @ = "live" THEN "used" ELSE @]
  /\ UNCHANGED <<expired, alive, recorded, on, honest, closed>>

\* A statement fails, or the request dies, before the answer.
Fail(r) ==
  /\ Go(r, "loaded", "over") \/ Go(r, "recorded", "over")
  /\ UNCHANGED <<code, expired, alive, recorded, on, honest, closed>>

-----------------------------------------------------------------------------
(* tools/list                                                              *)

HasTokens(c) == \E r \in Requests : at[r] = "answered" /\ on[r] = c

\* requireUser asks Supabase, which knows the session while it lives.
AskTools(r, c) ==
  /\ HasTokens(c) /\ c \in alive
  /\ Go(r, "idle", "listing") /\ on' = [on EXCEPT ![r] = c]
  /\ UNCHANGED <<code, expired, alive, recorded, honest, closed>>

\* listsAsOpenWorld: open for Osaurus, and when the lookup fails.
OpenWorld(r) == recorded[on[r]] \in Osaurus

ListTools(r) ==
  /\ Go(r, "listing", "over")
  /\ closed' = IF on[r] \in alive /\ ~OpenWorld(r) THEN closed \cup {on[r]}
                                                   ELSE closed
  /\ UNCHANGED <<code, expired, alive, recorded, on, honest>>

ListToolsUnknown(r) ==
  /\ Go(r, "listing", "over")
  /\ UNCHANGED <<code, expired, alive, recorded, on, honest, closed>>

Next ==
  \/ \E c \in Codes : Mint(c) \/ TenMinutesPass(c) \/ SignOut(c)
  \/ CleanUp
  \/ \E r \in Requests, c \in Codes :
       \/ \E client \in Clients, proof \in BOOLEAN : Load(r, c, client, proof)
       \/ AskTools(r, c)
  \/ \E r \in Requests :
       RecordSession(r) \/ Spend(r) \/ Fail(r) \/ ListTools(r) \/ ListToolsUnknown(r)

Spec == Init /\ [][Next]_vars

-----------------------------------------------------------------------------
(* Properties                                                              *)

\* The tokens of a code's session are handed out once, to a request that showed
\* the client the code was minted for and the verifier, whatever other requests
\* present the code at the same time.
TokensHandedOutOnce ==
  \A r, s \in {q \in Requests : at[q] = "answered"} :
    /\ r \in honest
    /\ on[r] = on[s] => r = s

\* A living session that was signed in through Osaurus is never listed
\* closed-world: Osaurus would run its tools without asking.
OsaurusAsksFirst == \A c \in closed : ClientOf[c] \notin Osaurus
=============================================================================

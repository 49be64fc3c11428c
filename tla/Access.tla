-------------------------------- MODULE Access --------------------------------
(***************************************************************************)
(* The two ways to sign in without the web application: the device login   *)
(* of the CLI (DeviceAuth) and the authorization codes of the MCP server   *)
(* (McpOAuth).  They share no state.                                       *)
(***************************************************************************)
EXTENDS DeviceAuth

CONSTANTS
  Codes, Clients, ClientOf, Osaurus,
  Exchanges    \* calls of /token and of tools/list

VARIABLES code, expired, alive, recorded, at, on, honest, closed

oauth == <<code, expired, alive, recorded, at, on, honest, closed>>

OAuth == INSTANCE McpOAuth WITH Requests <- Exchanges

ASSUME OAuthAssumed == OAuth!OAuthAssumption

-----------------------------------------------------------------------------
(* The properties of McpOAuth, under one roof                              *)

\* A code's tokens are handed out once, to a request that proved itself.
TokensHandedOutOnce == OAuth!TokensHandedOutOnce

\* A living Osaurus session is never listed closed-world.
OsaurusAsksFirst == OAuth!OsaurusAsksFirst
=============================================================================

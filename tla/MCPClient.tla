----------------------------- MODULE MCPClient -----------------------------
(***************************************************************************)
(* tools/mcp_client.go and tools/mcp.go: callers of tools of one MCP       *)
(* server.  Every call of the client sends Initialize first and takes an   *)
(* error whose text has "already" in it for success, whatever it is about;  *)
(* the server may restart and forget the session between two requests.     *)
(* The library and the server are external.                                *)
(***************************************************************************)
CONSTANT Users   \* goroutines that call MCP tools

VARIABLES
    mcp,       \* [Users -> "idle" or "ready"]: ready after ensureInitialized
    session,   \* the server knows the session of the client
    restarted, \* ghost: ready users whose server restarted since they were
    misled     \* ghost: ready users who took an error for a session

mcpVars == <<mcp, session, restarted, misled>>

NewMCPClient ==
    /\ mcp = [c \in Users |-> "idle"]
    /\ session = FALSE
    /\ restarted = {}
    /\ misled = {}

Ready(c) ==
    /\ mcp' = [mcp EXCEPT ![c] = "ready"]
    /\ UNCHANGED restarted

(* Initialize succeeds, perhaps again, or fails with "already" in the text *)
(* of the error, whether the server knows the session or not.              *)
Initialize(c) ==
    \/ session' = TRUE /\ UNCHANGED misled
    \/ UNCHANGED session /\ misled' = IF session THEN misled ELSE misled \cup {c}

(* Mutant: a user that finds another one ready does not initialize. *)
ensureInitializedOnce(c) ==
    /\ mcp[c] = "idle"
    /\ IF \E d \in Users : mcp[d] = "ready" THEN UNCHANGED <<session, misled>> ELSE Initialize(c)
    /\ Ready(c)

(* Any other error ends the call (DiscoverTools, CallTool, Execute). *)
ensureInitialized(c) ==
    /\ mcp[c] = "idle"
    /\ Initialize(c)
    /\ Ready(c)

(* The request itself; its result or error goes to the caller. *)
CallTool(c) ==
    /\ mcp[c] = "ready"
    /\ mcp' = [mcp EXCEPT ![c] = "idle"]
    /\ restarted' = restarted \ {c}
    /\ misled' = misled \ {c}
    /\ UNCHANGED session

ServerRestarts ==
    /\ session' = FALSE
    /\ restarted' = restarted \cup {c \in Users : mcp[c] = "ready"}
    /\ UNCHANGED <<mcp, misled>>

(* A request meets a server that does not know the session only if the     *)
(* server restarted after the Initialize of that same call, or answered it *)
(* with an error about something else that has "already" in its text: a    *)
(* restart is noticed by the next call of every user, whoever initialized  *)
(* the session before and whoever was misled.                              *)
SessionFresh ==
    \A c \in Users : mcp[c] = "ready" => session \/ c \in restarted \/ c \in misled
=============================================================================

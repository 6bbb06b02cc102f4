-------------------------------- MODULE Requests --------------------------------
(***************************************************************************)
(* What cpk-server's HTTP and MCP surfaces tell apart of a request.        *)
(***************************************************************************)

CONSTANTS
    Credential,    \* bearer tokens a caller may present
    Command,       \* operations whose route changes state
    Read,          \* operations whose route is read-only (their method is GET)
    None           \* no operation, no credential, no answer, no call

Operation == Command \cup Read

\* What the surfaces distinguish of a request.  "fatal" stands for a text on
\* which json.loads raises something other than a decoding error.
HttpRequest == [surface : {"http"},
                operation : Operation \cup {None},
                credential : Credential \cup {None},
                body : {"empty", "object", "other value", "garbled", "fatal", "oversized"},
                query : {"empty", "arguments", "garbled", "oversized"}]

McpRequest == [surface : {"mcp"},
               headers : {"missing", "other method", "agreeing"},
               operation : Operation \cup {None},
               credential : Credential \cup {None},
               method : {"tools/call", "resources/read", "other"},
               body : {"object", "other envelope", "misshapen", "other value", "garbled", "fatal", "oversized"}]

HealthRequest == [surface : {"health"}]
=============================================================================

------------------------------ MODULE McpParser -----------------------------
(***************************************************************************)
(* MCP parsing and the canonical body, crates/arbiter-mcp: which bodies    *)
(* count as MCP, what is taken from each JSON-RPC item, and what is        *)
(* forwarded in its place.                                                 *)
(*                                                                         *)
(* Abstracted: a body is malformed, or a JSON array or object; an item is  *)
(* the fields the parser looks at, and the rest of its params; a name is   *)
(* the sequence of its words and of the marks between them.                *)
(***************************************************************************)
EXTENDS Integers, Sequences

CONSTANTS
    None,               \* Option::None
    MAX_BATCH_SIZE,     \* 100 in the code
    ALLOWED_MCP_METHODS,
    InvalidTokens,      \* words and marks with characters a tool name may not have
    DangerousUris       \* URIs of the refused schemes

NonMcp == <<>>
UriMethods == {<<"resources", "/", "read">>, <<"resources", "/", "subscribe">>}

is_valid_tool_name(name) == \A i \in DOMAIN name : name[i] \notin InvalidTokens

LooksLikeJsonRpc(item) == item.jsonrpc # None \/ item.method # None

(* try_parse_single succeeds: version 2.0, an id of a permitted kind, a    *)
(* known method.                                                           *)
Parses(item) ==
    item.jsonrpc = "2.0" /\ item.id # "invalid" /\ item.method \in ALLOWED_MCP_METHODS

(* try_parse_single: what it takes from the params.  An invalid name,      *)
(* oversized arguments and a dangerous URI are left out.                   *)
McpRequest(item) ==
    LET call == item.method = <<"tools", "/", "call">> IN
    [id |-> item.id,
     method |-> item.method,
     tool_name |-> IF call /\ item.name # None /\ is_valid_tool_name(item.name)
                   THEN item.name ELSE None,
     arguments |-> IF call /\ ~item.oversized THEN item.arguments ELSE None,
     resource_uri |-> IF item.method \in UriMethods /\ item.uri \notin DangerousUris
                      THEN item.uri ELSE None]

ParseAll(items) ==
    LET valid == SelectSeq(items, Parses)
    IN  [i \in DOMAIN valid |-> McpRequest(valid[i])]

(* parse_mcp_body: the requests found, NonMcp if none.  One item that      *)
(* looks like JSON-RPC and does not parse makes all of the body NonMcp;    *)
(* other items of a batch are passed over.                                 *)
parse_mcp_body(body) ==
    IF \/ body.kind = "malformed"
       \/ body.kind = "array" /\ Len(body.items) > MAX_BATCH_SIZE
       \/ \E i \in DOMAIN body.items :
             LooksLikeJsonRpc(body.items[i]) /\ ~Parses(body.items[i])
    THEN NonMcp
    ELSE ParseAll(body.items)

(* Faulty variant: the arguments are left out. *)
to_jsonrpc_bare(q) ==
    [jsonrpc |-> "2.0", id |-> q.id, method |-> q.method, name |-> q.tool_name,
     arguments |-> None, oversized |-> FALSE, uri |-> q.resource_uri]

(* to_jsonrpc: rebuilt from the fields taken, nothing else. *)
to_jsonrpc(q) ==
    [jsonrpc |-> "2.0", id |-> q.id, method |-> q.method, name |-> q.tool_name,
     arguments |-> q.arguments, oversized |-> FALSE, uri |-> q.resource_uri]

(* to_canonical_body: one request is an object, several an array.          *)
to_canonical_body(requests) ==
    [kind |-> IF Len(requests) = 1 THEN "object" ELSE "array",
     items |-> [i \in DOMAIN requests |-> to_jsonrpc(requests[i])]]
=============================================================================

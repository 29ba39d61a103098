-------------------------- MODULE MC_RequestContent -------------------------
(* RequestContent on a handful of bodies, two configurations and two       *)
(* sessions.                                                               *)
EXTENDS RequestContent

ReadFile == <<"read", "_", "file">>
DeleteFile == <<"delete", "_", "file">>
ReadDelete == <<"read", "-", "Delete">>
ReadColonDelete == <<"read", ":", "delete">>
GetDeleteFile == <<"get", "_", "delete", "File">>
ResourcesRead == <<"resources", "/", "read">>

MCLowerOf == [Read |-> "read", Delete |-> "delete", File |-> "file"]
MCMethods == {ToolsCall, ResourcesRead, <<"tools", "/", "list">>}

Text(t) == [kind |-> "string", text |-> t, number |-> 0, long |-> FALSE]
Number(n) == [kind |-> "number", text |-> "", number |-> n, long |-> FALSE]

Item(method) ==
    [jsonrpc |-> "2.0", id |-> "number", method |-> method, name |-> None,
     arguments |-> None, oversized |-> FALSE, uri |-> None]
Call(tool, args) == [Item(ToolsCall) EXCEPT !.name = tool, !.arguments = args]
Junk == [Item(None) EXCEPT !.jsonrpc = None]

Object(item) == [kind |-> "object", items |-> <<item>>]
Array(items) == [kind |-> "array", items |-> items]

MCRefsIn ==
    [x \in {"${CRED:a}", "${CRED:b}", "${CRED:a}${CRED:b}", "Bearer ${CRED:a}"} |->
        IF x = "${CRED:b}" THEN {"b"} ELSE IF x = "${CRED:a}${CRED:b}" THEN {"a", "b"} ELSE {"a"}]

(* One secret is a part of another. *)
MCSecretLen == [x \in {"abc", "abcdef", "xyzw"} |-> IF x = "abcdef" THEN 6 ELSE IF x = "abc" THEN 3 ELSE 4]
MCInside == [x \in {"abc", "abcdef", "xyzw"} |-> IF x = "abcdef" THEN {"abc"} ELSE {}]
MCProviders == {[a |-> "abc", b |-> "abcdef"], [a |-> "xyzw"]}

Context(intent, chain) ==
    [agent_id |-> "agent", trust_level |-> 1, capabilities |-> {"fs"}, declared_intent |-> intent,
     principal_sub |-> "user", principal_groups |-> {}, delegation_chain |-> chain]
MCHeaderContext == [Context({}, {}) EXCEPT !.trust_level = 0, !.capabilities = {}]
Reader ==
    [ctx |-> Context({"read", "files"}, {}), authorized_credentials |-> {"a"},
     data_sensitivity_ceiling |-> 1]
Manager ==
    [ctx |-> Context({"manage", "files"}, {{}, {ReadFile, ReadDelete}}), authorized_credentials |-> {},
     data_sensitivity_ceiling |-> 3]

Plain == <<"application/json">>
Bearer == <<"Bearer ${CRED:a}">>
TwoKeys == <<"${CRED:a}", "application/json", "${CRED:a}">>
Request(body, headers, session) == [body |-> body, headers |-> headers, session |-> session]
WithRef(t) == [path |-> Text(t)]
MCCalls ==
    {Request(Object(Call(ReadFile, WithRef("${CRED:a}"))), Bearer, Reader),
     Request(Object(Call(ReadFile, WithRef("${CRED:b}"))), Bearer, Reader),
     Request(Object(Call(ReadFile, WithRef("p"))), TwoKeys, Reader),
     Request(Array(<<Call(ReadColonDelete, None), Call(GetDeleteFile, None)>>), Plain, Reader),
     Request(Object(Call(<<"Read", "_", "file">>, [path |-> Text("${CRED:b}"), n |-> Number(9)])), Bearer, Manager),
     Request(Array(<<Call(ReadDelete, WithRef("${CRED:a}${CRED:b}"))>>), Plain, Manager),
     Request(Array(<<Call(ReadDelete, None)>>), Plain, Reader),
     Request(Array(<<Call(ReadFile, WithRef("p")), Junk, Call(DeleteFile, [n |-> Number(1)])>>), Plain, Reader),
     Request(Object(Call(ReadFile, WithRef("rm -rf"))), Plain, Reader),
     Request(Object(Call(<<"read", "_", "file;">>, None)), Plain, Reader),
     Request(Object(Call(ReadFile, WithRef("p"))), Bearer, None),
     Request(Object([Item(ResourcesRead) EXCEPT !.uri = "file:///etc"]), Plain, Reader),
     Request(Object([Item(ResourcesRead) EXCEPT !.uri = "db://t"]), Plain, Reader),
     Request(Array(<<Call(ReadFile, None), Item(<<"tools", "/", "run">>)>>), Plain, Reader),
     Request(Array(<<Call(ReadFile, None), Call(ReadFile, None), Call(ReadFile, None), Call(ReadFile, None)>>),
             Plain, None)}
MCFound == {{}, {1, 3}}
MCForms == {[encoding |-> "identity", utf8 |-> TRUE], [encoding |-> "identity", utf8 |-> FALSE],
            [encoding |-> "gzip", utf8 |-> TRUE], [encoding |-> "br", utf8 |-> TRUE]}

----------------------------------------------------------------------------
Readers == [AnyPolicy EXCEPT !.id = "readers", !.effect = "Allow", !.allowed_tools = {ReadFile}]
Tables ==
    [AnyPolicy EXCEPT !.id = "tables", !.effect = "Allow", !.trust_level = 1,
                      !.resource_match = {{"db://t", "db://u"}}]
NoManagers == [AnyPolicy EXCEPT !.id = "no-managers", !.keywords = {"manage"}]
Operators ==
    [AnyPolicy EXCEPT !.id = "operators", !.effect = "Allow", !.capabilities = {"fs"},
                      !.allowed_tools = {ReadFile, <<"read", "-", "delete">>, DeleteFile,
                                          ReadColonDelete, GetDeleteFile}]
Watch ==
    [AnyPolicy EXCEPT !.id = "watch", !.disposition = "Annotate", !.priority = 500,
                      !.allowed_tools = {DeleteFile},
                      !.parameter_constraints = {[key |-> "n", max_value |-> 5, min_value |-> None,
                                                  allowed_values |-> {}]}]
Ask == [AnyPolicy EXCEPT !.id = "ask", !.effect = "Escalate", !.allowed_tools = {Star}, !.sub = "other"]
Blanket == [AnyPolicy EXCEPT !.id = "blanket", !.effect = "Allow"]

TextOf(policies) == [empty |-> FALSE, toml |-> TRUE, policies |-> policies]
MCTexts ==
    {TextOf(<<Readers, Tables, NoManagers>>), TextOf(<<Operators, Watch, Ask>>), TextOf(<<Blanket>>),
     [empty |-> TRUE, toml |-> TRUE, policies |-> <<>>]}
=============================================================================

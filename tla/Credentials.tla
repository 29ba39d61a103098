---------------------------- MODULE Credentials -----------------------------
(***************************************************************************)
(* Credential injection, scrubbing and response classification,            *)
(* crates/arbiter-credential: references in a request are replaced by      *)
(* secrets on the way out, and secrets by a marker on the way back.        *)
(*                                                                         *)
(* Abstracted: a text is the set of references in it; a response is the    *)
(* set of its fragments, each a secret in some encoding or what is left of *)
(* one a shorter secret was cut out of.  A provider is a function from     *)
(* references to secrets, and the references of one text are resolved in   *)
(* one step.                                                               *)
(***************************************************************************)
EXTENDS Integers, Sequences, FiniteSets

LOCAL INSTANCE SequencesExt
LOCAL INSTANCE TLC

CONSTANTS
    None,
    RefsIn,         \* RefsIn[t]: the references in text t
    Secret,         \* the values of credentials
    SecretLen,      \* SecretLen[s]: length in bytes
    Inside          \* Inside[s]: the secrets that occur strictly inside s

(* The encodings scrub_single_value looks for. *)
ScrubbedEncodings ==
    {"direct", "url", "url_lower", "json", "hex", "hex_upper", "base64", "base64url", "unicode",
     "double_url", "html_decimal", "html_hex"}

(* Those that work byte by byte, so that a secret inside another is still  *)
(* one in the encoded text.                                                *)
Bytewise == ScrubbedEncodings \ {"base64", "base64url"}

Whole(s, e) == [secret |-> s, encoding |-> e]
RestOf(s) == [secret |-> s, encoding |-> "mangled"]

----------------------------------------------------------------------------
find_refs(text) == IF text \in DOMAIN RefsIn THEN RefsIn[text] ELSE {}

(* What inject_credentials has captured: the value of each reference.      *)
NothingResolved == <<>>

Resolvable(refs, provider) == refs \subseteq DOMAIN provider

(* replace_refs, of references that all resolve: the value is captured as  *)
(* it is put in; a reference met before is not captured again.             *)
capture(resolved, refs, provider) == resolved @@ [ref \in refs |-> provider[ref]]

(* The values that take the references' places. *)
Substituted(refs, provider) == {provider[ref] : ref \in refs}

----------------------------------------------------------------------------
(* scrub_single_value *)
scrub_single_value(fragments, s) ==
    {IF f.secret # s /\ s \in Inside[f.secret] /\ f.encoding \in Bytewise THEN RestOf(f.secret) ELSE f :
        f \in {g \in fragments : ~(g.secret = s /\ g.encoding \in ScrubbedEncodings)}}

Longer(a, b) == SecretLen[a] > SecretLen[b]

(* Faulty variant: the shortest first. *)
scrub_shortest_first(fragments, known_values) ==
    FoldLeft(scrub_single_value, fragments,
             SortSeq(SetToSeq(known_values), LAMBDA a, b : Longer(b, a)))

(* scrub_response: the longest first. *)
scrub_response(fragments, known_values) ==
    FoldLeft(scrub_single_value, fragments, SortSeq(SetToSeq(known_values), Longer))

----------------------------------------------------------------------------
(* DataSensitivity: Public, Internal, Confidential, Restricted. *)
Sensitivity == 0..3
Restricted == 3

(* max_sensitivity of what scan_response finds. *)
max_sensitivity(findings) == CHOOSE l \in findings : \A k \in findings : k <= l

(* Stage 10.6: only restricted data over the ceiling is held back.         *)
Blocked(findings, ceiling) ==
    findings # {} /\ max_sensitivity(findings) > ceiling /\ max_sensitivity(findings) = Restricted
=============================================================================

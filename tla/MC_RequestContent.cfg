\* The content of one request at a time, under policy and credential reloads.
SPECIFICATION Spec

CONSTANTS
    None = None
    LowerOf <- MCLowerOf
    Texts <- MCTexts
    Channel = 1
    MaxEdits = 1
    MAX_BATCH_SIZE = 3
    ALLOWED_MCP_METHODS <- MCMethods
    InvalidTokens = {"file;", " "}
    DangerousUris = {"file:///etc"}
    SuspiciousTexts = {"rm -rf"}
    SuspiciousKeys = {"command"}
    RefsIn <- MCRefsIn
    Secret = {"abc", "abcdef", "xyzw"}
    SecretLen <- MCSecretLen
    Inside <- MCInside
    Calls <- MCCalls
    HeaderContext <- MCHeaderContext
    Providers <- MCProviders
    Encodings = {"direct", "base64"}
    Found <- MCFound
    Forms <- MCForms

INVARIANTS
    ForwardedIsAllowed
    CanonicalIsWhatWasJudged
    EchoScrubbed
    ReadSessionsOnlyRead
    UnnamedIsDenied
    ValidatorAgrees

PROPERTIES
    LastEditLoaded

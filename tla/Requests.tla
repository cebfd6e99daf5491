------------------------------ MODULE Requests ------------------------------
(***************************************************************************)
(* The values that travel between the components of a generation: the      *)
(* providers, the AI requests and the result codes of IAIProvider.h.       *)
(*                                                                         *)
(* The code gives requests no identity.  Every request here carries a      *)
(* number, the order in which AppController::startRequest accepted it, so  *)
(* that the properties can say which request an answer belongs to; no      *)
(* guard of the model reads it.  Texts are named by the number of the      *)
(* request that produced them and prompts by the request whose selection   *)
(* they carry.                                                             *)
(***************************************************************************)
EXTENDS Naturals

CONSTANTS
    Providers,        \* provider identifiers with an adapter and a credential store
    DefaultProvider,  \* the "openai" every default-constructed member starts with
    NoProvider,       \* a null IAIProvider pointer
    NoKey,            \* an empty API key
    ReplyErrors,      \* error codes the adapters' parsers report for an answer
    MaxRequests       \* bound: accepted requests in a behaviour

ASSUME ProvidersAssumption ==
    /\ DefaultProvider \in Providers
    /\ NoProvider \notin Providers
    /\ NoKey \notin Providers

ASSUME MaxRequestsAssumption == MaxRequests \in Nat

Ids   == 1..MaxRequests
IdOr0 == 0..MaxRequests    \* 0: no request, no text

\* A stored key is known by the account it was saved under.
Keys == Providers \cup {NoKey}

\* enum AIError; "None" is success.
AIErrors == {"None", "MissingKey", "MissingModel", "Authentication",
             "RateLimited", "Network", "Timeout", "Cancelled", "InvalidJson",
             "EmptyResponse", "Server", "Refused", "Incomplete", "TooLarge"}

\* What an adapter finds wrong before posting.
LocalErrors == {"MissingKey", "MissingModel", "Network"}

\* abortReason_ takes precedence over these; a parser never reports them.
ASSUME ReplyErrorsAssumption ==
    ReplyErrors \subseteq AIErrors \ {"None", "Timeout", "Cancelled", "TooLarge"}

(***************************************************************************)
(* AIRequest.  origin is the request that snapshotted the selection, the   *)
(* profile and the settings (0 for the synthetic connection test); basis   *)
(* is the request whose text is sent along as "previous result".           *)
(***************************************************************************)
Request == [id : IdOr0, provider : Providers, apiKey : Keys,
            origin : IdOr0, basis : IdOr0]

EmptyRequest == [id |-> 0, provider |-> DefaultProvider, apiKey |-> NoKey,
                 origin |-> 0, basis |-> 0]
=============================================================================

------------------------ MODULE GenerationRefinement ------------------------
(***************************************************************************)
(* Generation implements Conversation: the request that may still be       *)
(* answered is the last one issued, as long as completions are accepted,   *)
(* and the session is AppController's context_.                            *)
(***************************************************************************)
EXTENDS Generation

Abstract == INSTANCE Conversation WITH
    current <- IF acceptCompletion THEN issued ELSE 0,
    session <- context

(***************************************************************************)
(* The flags and the order of calls in AppController, AIService and        *)
(* CredentialService give every request one answer, of its own, although   *)
(* nothing in the code names a request.                                    *)
(***************************************************************************)
ImplementsConversation == Abstract!ConvSpec
=============================================================================

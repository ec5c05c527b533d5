---------------------------- MODULE SigningKeys ----------------------------
(***************************************************************************)
(* The key pair that access tokens are signed with                         *)
(* (app/services/auth_service.py): generated on first use into two files,  *)
(* kept in two attributes, used by requests that issue a token             *)
(* (app/routers/auth.py) or present one (authentication_service.py).       *)
(*                                                                         *)
(* A request is a thread; each access to a file or to both attributes is   *)
(* an action.  A key is named by its pair; a token by the pair that signed *)
(* it.                                                                     *)
(***************************************************************************)
EXTENDS FiniteSets

CONSTANTS
    Pair,       \* key pairs there will ever be
    Thread,
    None,
    Torn        \* what a file holds between its truncation and its write

VARIABLES
    privateFile, publicFile,    \* the files of keys_dir; None where there is none
    privateKey, publicKey,      \* AuthService's attributes
    tokens,                     \* per token held by a client, the pair that signed it
    thread,                     \* per request, its place in the code and its local variables
    raced                       \* whether requests or a crash met a pair half written

files == <<privateFile, publicFile>>
attributes == <<privateKey, publicKey>>
signingVars == <<privateFile, publicFile, privateKey, publicKey, tokens, thread, raced>>

Idle == [pc |-> "idle", token |-> None, private |-> None, public |-> None]

\* Between finding no pair of files and having kept the one generated.
MakesPair(t) == thread[t].pc \in {"generate", "private", "fill_private", "public", "fill_public"}

Unused(pair) ==
    pair \notin {privateFile, publicFile, privateKey, publicKey} \cup tokens
                    \cup {thread[t].private : t \in Thread}

-----------------------------------------------------------------------------
Init ==
    /\ privateFile = None /\ publicFile = None
    /\ privateKey = None /\ publicKey = None
    /\ tokens = {}
    /\ thread = [t \in Thread |-> Idle]
    /\ raced = FALSE

\* A request asks for a token for a user that exists and may use tokens, or
\* presents one; either starts with _keys.
Arrive(t, token) ==
    /\ thread[t].pc = "idle"
    /\ token \in tokens \cup {None}
    /\ thread' = [thread EXCEPT ![t].pc = "memory", ![t].token = token]
    /\ UNCHANGED <<files, attributes, tokens, raced>>

\* Both attributes set, or else both files there.
LookInMemory(t) ==
    /\ thread[t].pc = "memory"
    /\ thread' = [thread EXCEPT ![t] =
           IF privateKey # None /\ publicKey # None
           THEN [@ EXCEPT !.pc = "use", !.private = privateKey, !.public = publicKey]
           ELSE [@ EXCEPT !.pc = "files"]]
    /\ UNCHANGED <<files, attributes, tokens, raced>>

LookForPrivateFile(t) ==
    /\ thread[t].pc = "files"
    /\ thread' = [thread EXCEPT ![t].pc = IF privateFile # None THEN "load" ELSE "generate"]
    /\ raced' = (raced \/ (privateFile = None /\ \E s \in Thread : MakesPair(s)))
    /\ UNCHANGED <<files, attributes, tokens>>

\* private_key_path.exists() and public_key_path.exists().
LookForFiles(t) ==
    /\ thread[t].pc = "files"
    /\ LET found == privateFile # None /\ publicFile # None
       IN  /\ thread' = [thread EXCEPT ![t].pc = IF found THEN "load" ELSE "generate"]
           /\ raced' = (raced \/ \E s \in Thread : MakesPair(s))
    /\ UNCHANGED <<files, attributes, tokens>>

LoadPrivate(t) ==
    /\ thread[t].pc = "load"
    /\ thread' = [thread EXCEPT ![t].pc = "load_public", ![t].private = privateFile]
    /\ UNCHANGED <<files, attributes, tokens, raced>>

LoadPublic(t) ==
    /\ thread[t].pc = "load_public"
    /\ thread' = [thread EXCEPT ![t].pc = "keep", ![t].public = publicFile]
    /\ UNCHANGED <<files, attributes, tokens, raced>>

\* _generate_key_pair, and the directory is made.
Generate(t, pair) ==
    /\ thread[t].pc = "generate"
    /\ Unused(pair)
    /\ thread' = [thread EXCEPT ![t].pc = "private", ![t].private = pair, ![t].public = pair]
    /\ UNCHANGED <<files, attributes, tokens, raced>>

\* write_bytes truncates the file, then fills it.
WritePrivate(t) ==
    /\ \/ /\ thread[t].pc = "private" /\ privateFile' = Torn
          /\ thread' = [thread EXCEPT ![t].pc = "fill_private"]
       \/ /\ thread[t].pc = "fill_private" /\ privateFile' = thread[t].private
          /\ thread' = [thread EXCEPT ![t].pc = "public"]
    /\ UNCHANGED <<publicFile, attributes, tokens, raced>>

WritePublic(t) ==
    /\ \/ /\ thread[t].pc = "public" /\ publicFile' = Torn
          /\ thread' = [thread EXCEPT ![t].pc = "fill_public"]
       \/ /\ thread[t].pc = "fill_public" /\ publicFile' = thread[t].public
          /\ thread' = [thread EXCEPT ![t].pc = "keep"]
    /\ UNCHANGED <<privateFile, attributes, tokens, raced>>

\* The attributes are set one after the other.
Keep(t) ==
    /\ \/ /\ thread[t].pc = "keep" /\ privateKey' = thread[t].private
          /\ thread' = [thread EXCEPT ![t].pc = "keep_public"]
          /\ UNCHANGED publicKey
       \/ /\ thread[t].pc = "keep_public" /\ publicKey' = thread[t].public
          /\ thread' = [thread EXCEPT ![t].pc = "use"]
          /\ UNCHANGED privateKey
    /\ UNCHANGED <<files, tokens, raced>>

\* create_access_token.  Nothing can be signed with half a key: 500.
Sign(t) ==
    /\ thread[t].pc = "use" /\ thread[t].token = None
    /\ tokens' = IF thread[t].private \in Pair THEN tokens \cup {thread[t].private} ELSE tokens
    /\ thread' = [thread EXCEPT ![t] = Idle]
    /\ UNCHANGED <<files, attributes, raced>>

\* decode_access_token: a token of another pair is refused.
Verify(t) ==
    /\ thread[t].pc = "use" /\ thread[t].token # None
    /\ thread' = [thread EXCEPT ![t] =
           [Idle EXCEPT !.pc = IF thread[t].public = thread[t].token THEN "accepted" ELSE "refused"]]
    /\ UNCHANGED <<files, attributes, tokens, raced>>

Return(t) ==
    /\ thread[t].pc \in {"accepted", "refused"}
    /\ thread' = [thread EXCEPT ![t] = Idle]
    /\ UNCHANGED <<files, attributes, tokens, raced>>

\* A day later a token has expired.
Expire(token) ==
    /\ token \in tokens
    /\ \A t \in Thread : thread[t].token # token
    /\ tokens' = tokens \ {token}
    /\ UNCHANGED <<files, attributes, thread, raced>>

\* The process ends, by itself or not.
End ==
    /\ privateKey' = None /\ publicKey' = None
    /\ thread' = [t \in Thread |-> Idle]
    /\ raced' = (raced \/ \E t \in Thread : thread[t].pc = "fill_public")
    /\ UNCHANGED <<files, tokens>>

-----------------------------------------------------------------------------
Arrives(t) == \E token \in Pair \cup {None} : Arrive(t, token)

Handle(t) ==
    \/ LookInMemory(t) \/ LookForFiles(t) \/ LoadPrivate(t) \/ LoadPublic(t)
    \/ \E pair \in Pair : Generate(t, pair)
    \/ WritePrivate(t) \/ WritePublic(t) \/ Keep(t)
    \/ Sign(t) \/ Verify(t) \/ Return(t)

\* Every file, attribute and local variable holds what its declaration says.
TypeOK ==
    /\ {privateFile, publicFile} \subseteq Pair \cup {None, Torn}
    /\ {privateKey, publicKey} \subseteq Pair \cup {None, Torn}
    /\ tokens \subseteq Pair
    /\ thread \in [Thread ->
           [pc : {"idle", "memory", "files", "load", "load_public", "generate", "private",
                  "fill_private", "public", "fill_public", "keep", "keep_public", "use",
                  "accepted", "refused"},
            token : Pair \cup {None},
            private : Pair \cup {None, Torn}, public : Pair \cup {None, Torn}]]
    /\ raced \in BOOLEAN
=============================================================================

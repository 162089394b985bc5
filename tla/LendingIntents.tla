---------------------------- MODULE LendingIntents ----------------------------
(***************************************************************************)
(* The lending intents of the API: MemoryIntentStore (packages/fx-telarana *)
(* intent-store.ts) behind the routes of apps/api routes/fx-telarana.ts.   *)
(* A client creates an intent under a nonce it has asked for, and posts a  *)
(* wallet's signature of it.  What is lent is left out, and so are the     *)
(* deadlines, which are looked at only while an intent is built.           *)
(***************************************************************************)
EXTENDS Naturals

CONSTANTS
    Ids,          \* of intents
    Scopes,       \* nonceScope: [account, action], on one chain
    Signers,      \* wallets
    MaxNonce,     \* bound on the nonces that clients write into intents
    Posts,        \* signature posts that may be under way together
    NoIntent, Nothing

ASSUME LendingIntentsAssumption ==
    /\ \A s \in Scopes : s.account \in Signers
    /\ MaxNonce \in Nat

VARIABLES
    intent,       \* the store
    nextNonce,    \* and its next nonce of each scope
    post          \* what each post is doing

intentVars == <<intent, nextNonce, post>>

\* A stored intent; its signer is Nothing until one has been verified.
Intent == [scope : Scopes, nonce : 0..MaxNonce, signer : Signers \cup {Nothing}]

\* A post that awaits the check of its signature, with the intent it has read.
Post == [id : Ids, signer : Signers, copy : Intent]

ASSUME AbsenceAssumption ==
    NoIntent \notin Intent /\ Nothing \notin Post /\ Nothing \notin Signers

IntentTypeOK ==
    /\ intent \in [Ids -> Intent \cup {NoIntent}]
    /\ nextNonce \in [Scopes -> Nat]
    /\ post \in [Posts -> Post \cup {Nothing}]

IntentInit ==
    /\ intent = [i \in Ids |-> NoIntent]
    /\ nextNonce = [s \in Scopes |-> 0]
    /\ post = [p \in Posts |-> Nothing]

-----------------------------------------------------------------------------
\* POST /<action>/intents: whatever nonce the body holds.
CreateIntent(i, s, n) ==
    /\ intent[i] = NoIntent
    /\ intent' = [intent EXCEPT ![i] = [scope |-> s, nonce |-> n, signer |-> Nothing]]
    /\ UNCHANGED <<nextNonce, post>>

\* POST /<action>/intents/:id/signature, up to the check of the signature.  An
\* intent that is verified already is answered at once.
PostSignature(p, i, signer) ==
    /\ post[p] = Nothing
    /\ intent[i] # NoIntent /\ intent[i].signer = Nothing
    /\ post' = [post EXCEPT ![p] = [id |-> i, signer |-> signer, copy |-> intent[i]]]
    /\ UNCHANGED <<intent, nextNonce>>

\* Mutant of NonceFits: only a nonce that is behind is refused.
NonceNotBehind(r) == r.copy.nonce >= nextNonce[r.copy.scope]

\* The store's nonce is read after the check has been awaited.
NonceFits(r) == r.copy.nonce = nextNonce[r.copy.scope]

\* verify goes on with the copy it has read before: the intent is stored as
\* verified and the nonce moves on, in one stretch.
SignatureVerified(p) ==
    LET r == post[p] IN
    /\ r # Nothing
    /\ r.signer = r.copy.scope.account
    /\ NonceFits(r)
    /\ intent' = [intent EXCEPT ![r.id] = [r.copy EXCEPT !.signer = r.signer]]
    /\ nextNonce' = [nextNonce EXCEPT ![r.copy.scope] = @ + 1]
    /\ post' = [post EXCEPT ![p] = Nothing]

\* A signature that does not fit, another wallet's, or a nonce that is not the
\* next: nothing is stored.
SignatureRefused(p) ==
    /\ post[p] # Nothing
    /\ post' = [post EXCEPT ![p] = Nothing]
    /\ UNCHANGED <<intent, nextNonce>>

\* The store is memory: with a restart of the API it is empty, nonces included.
StoreIsLost ==
    /\ \E i \in Ids : intent[i] # NoIntent
    /\ intent' = [i \in Ids |-> NoIntent]
    /\ nextNonce' = [s \in Scopes |-> 0]
    /\ post' = [p \in Posts |-> Nothing]

IntentNext ==
    \/ StoreIsLost
    \/ \E i \in Ids, s \in Scopes, n \in 0..MaxNonce : CreateIntent(i, s, n)
    \/ \E p \in Posts :
         \/ SignatureVerified(p) \/ SignatureRefused(p)
         \/ \E i \in Ids, signer \in Signers : PostSignature(p, i, signer)

-----------------------------------------------------------------------------
(* Properties.                                                             *)

Verified(s) == {i \in Ids : intent[i] # NoIntent /\ intent[i].scope = s
                                /\ intent[i].signer # Nothing}

\* However the posts of several clients interleave across the check, each nonce
\* of a scope is spent by one intent only, none is left out, and the intent has
\* been signed by the account it is on behalf of.
NoncesSpentInOrder ==
    \A s \in Scopes :
        /\ \A i, j \in Verified(s) : intent[i].nonce = intent[j].nonce => i = j
        /\ \A n \in 0..MaxNonce :
             n < nextNonce[s] <=> \E i \in Verified(s) : intent[i].nonce = n
        /\ \A i \in Verified(s) : intent[i].signer = s.account
=============================================================================

--------------------------- MODULE Authentication ---------------------------
(***************************************************************************)
(* API keys, signed tokens and the authenticator that combines them        *)
(* (security/auth.py), over key stores in memory or in SQLite              *)
(* (security/key_store.py), across restarts of the process.                *)
(*                                                                         *)
(* A key ring is an APIKeyAuthenticator with its store.  Keys and random   *)
(* secrets are never made twice, and a signature is the secret it was made *)
(* with: SHA-256, HMAC and the encodings are external.                     *)
(***************************************************************************)
EXTENDS Naturals, FiniteSets

CONSTANTS
  Rings, DurableRings,  \* the key rings, those over a SQLite store
  Keys, Holders,        \* the keys ever made, the agents they are made for
  Configured, Random,   \* secrets: those the program passes, those made up
  Nil,
  Lifetimes,            \* expires_in_seconds
  MaxTokens,            \* bound: the tokens ever made
  MaxNow                \* bound: the last second

ASSUME AuthenticationConstantsOK ==
  /\ DurableRings \subseteq Rings /\ Nil \notin Rings \cup Holders \cup Configured \cup Random
  /\ Lifetimes \subseteq Nat /\ MaxTokens \in Nat /\ MaxNow \in Nat

VARIABLES
  ring,     \* the store of each ring: who a key was made for
  made,     \* the keys that were made
  multi,    \* MultiAuthenticator: its ring and its secret
  tokens,   \* the tokens that were made
  now,
  held,     \* the last AuthResult: what it came from and for whom
  revoked   \* history: keys that revoke_key() or revoke_agent_keys() took back

authVars == <<ring, made, multi, tokens, now, held, revoked>>

Failed == [agent |-> Nil, from |-> Nil, until |-> Nil]

-----------------------------------------------------------------------------
(* API keys.                                                               *)

CreateKey(r, k, a) ==
  /\ k \notin made /\ made' = made \cup {k}
  /\ ring' = [ring EXCEPT ![r][k] = a]
  /\ UNCHANGED <<multi, tokens, now, held, revoked>>

RevokeKey(r, k) ==
  /\ ring[r][k] # Nil
  /\ ring' = [ring EXCEPT ![r][k] = Nil]
  /\ revoked' = revoked \cup {k}
  /\ UNCHANGED <<made, multi, tokens, now, held>>

KeysOf(r, a) == {k \in Keys : ring[r][k] = a}

\* A fault: one key of the agent is deleted.
RevokeAnAgentKey(r, a) ==
  /\ KeysOf(r, a) # {}
  /\ ring' = [ring EXCEPT ![r][CHOOSE k \in KeysOf(r, a) : TRUE] = Nil]
  /\ revoked' = revoked \cup KeysOf(r, a)
  /\ UNCHANGED <<made, multi, tokens, now, held>>

RevokeAgentKeys(r, a) ==
  /\ ring' = [ring EXCEPT ![r] = [k \in Keys |-> IF @[k] = a THEN Nil ELSE @[k]]]
  /\ revoked' = revoked \cup KeysOf(r, a)
  /\ UNCHANGED <<made, multi, tokens, now, held>>

KeyResult(r, k) ==
  IF r = Nil THEN Failed
  ELSE IF ring[r][k] = Nil THEN Failed
  ELSE [agent |-> ring[r][k], from |-> k, until |-> Nil]

-----------------------------------------------------------------------------
(* Tokens.                                                                 *)

CreateToken(s, a, ttl) ==
  /\ Cardinality(tokens) < MaxTokens
  /\ tokens' = tokens \cup {[agent |-> a, secret |-> s, until |-> now + ttl]}
  /\ UNCHANGED <<ring, made, multi, now, held, revoked>>

TokenResult(s, t) ==
  IF s = Nil \/ t.secret # s \/ now > t.until THEN Failed
  ELSE [agent |-> t.agent, from |-> t, until |-> t.until]

-----------------------------------------------------------------------------
(* MultiAuthenticator.  Adding a method again replaces what was there.     *)

AddApiKey(r) ==
  /\ r \notin DurableRings /\ \A k \in Keys : ring[r][k] = Nil
  /\ multi' = [multi EXCEPT !.ring = r]
  /\ UNCHANGED <<ring, made, tokens, now, held, revoked>>

\* Without a secret of its own the program gets one that signed nothing yet.
AddJwt(s) ==
  /\ s \in Random => \A t \in tokens : t.secret # s
  /\ multi' = [multi EXCEPT !.secret = s]
  /\ UNCHANGED <<ring, made, tokens, now, held, revoked>>

AuthenticateWithKey(r, k) ==
  /\ held' = KeyResult(r, k)
  /\ UNCHANGED <<ring, made, multi, tokens, now, revoked>>

AuthenticateWithToken(t) ==
  /\ held' = TokenResult(multi.secret, t)
  /\ UNCHANGED <<ring, made, multi, tokens, now, revoked>>

\* authenticate_any(): the first method that succeeds, in the caller's order.
AuthenticateAny(k, t) ==
  /\ LET byKey == KeyResult(multi.ring, k)
         byToken == TokenResult(multi.secret, t)
     IN  \/ held' = IF byKey # Failed THEN byKey ELSE byToken
         \/ held' = IF byToken # Failed THEN byToken ELSE byKey
  /\ UNCHANGED <<ring, made, multi, tokens, now, revoked>>

-----------------------------------------------------------------------------

PassTime == now < MaxNow /\ now' = now + 1 /\ UNCHANGED <<ring, made, multi, tokens, held, revoked>>

Reboot ==
  /\ ring' = [r \in Rings |-> IF r \in DurableRings THEN ring[r] ELSE [k \in Keys |-> Nil]]
  /\ multi' = [ring |-> Nil, secret |-> Nil]
  /\ held' = Failed
  /\ UNCHANGED <<made, tokens, now, revoked>>

AuthInit ==
  /\ ring = [r \in Rings |-> [k \in Keys |-> Nil]] /\ made = {} /\ tokens = {}
  /\ multi = [ring |-> Nil, secret |-> Nil]
  /\ now = 0 /\ held = Failed /\ revoked = {}

AuthNext ==
  \/ \E r \in Rings, k \in Keys, a \in Holders : CreateKey(r, k, a)
  \/ \E r \in Rings, k \in Keys : RevokeKey(r, k) \/ AuthenticateWithKey(r, k)
  \/ \E r \in Rings, a \in Holders : RevokeAgentKeys(r, a)
  \/ \E s \in Configured \cup {multi.secret}, a \in Holders, ttl \in Lifetimes :
       s # Nil /\ CreateToken(s, a, ttl)
  \/ \E r \in Rings : AddApiKey(r)
  \/ \E s \in Configured \cup Random : AddJwt(s)
  \/ \E t \in tokens : AuthenticateWithToken(t) \/ \E k \in Keys : AuthenticateAny(k, t)
  \/ PassTime \/ Reboot

AuthSpec == AuthInit /\ [][AuthNext]_authVars

-----------------------------------------------------------------------------

AuthTypeOK ==
  /\ ring \in [Rings -> [Keys -> Holders \cup {Nil}]]
  /\ made \subseteq Keys /\ revoked \subseteq made
  /\ multi \in [ring : Rings \cup {Nil}, secret : Configured \cup Random \cup {Nil}]
  /\ now \in 0 .. MaxNow /\ held.agent \in Holders \cup {Nil}

\* Whichever method accepts, the credential still stands at that moment: a key was
\* made and not taken back since, one by one or with all of its agent's, through
\* any restart; a token has not run out, and was signed with the secret in use.
CredentialStillStands ==
  [][held' # held /\ held'.agent # Nil =>
       \/ held'.from \in made \ revoked
       \/ held'.from \in tokens /\ now <= held'.from.until /\ held'.from.secret = multi.secret
    ]_authVars
=============================================================================

----------------------------- MODULE Delegation -----------------------------
(***************************************************************************)
(* Delegation chains (security/delegation.py, security/signing.py): the    *)
(* builder that makes one hop by hop, the agents that sign, forward and    *)
(* rewrite its hops, and the validator that accepts or refuses the chain.  *)
(*                                                                         *)
(* A signature is the pair of its key and what was signed: it verifies     *)
(* when the hop still says the same (Ed25519 and SHA-256 are external).    *)
(***************************************************************************)
EXTENDS Naturals, Sequences, FiniteSets

CONSTANTS
  Parties,    \* agents
  Grants,     \* the sets of scopes a hop may give
  KeyIds,
  NoKey,
  Forwarded,  \* hops that other processes made, in whatever way
  MaxDepth,   \* max_depth of the validator
  MaxHops,    \* bound: the length of a chain
  MaxStamp    \* bound: the last reading of the wall clock

\* What a hop may be; signed is what its signature was made of.
Hops ==
  [from : Parties, to : Parties, scopes : Grants, stamp : Nat, key : KeyIds \cup {NoKey},
   signed : {<<>>} \cup (Parties \X Parties \X Grants \X Nat)]

ASSUME DelegationConstantsOK ==
  /\ NoKey \notin KeyIds
  /\ Forwarded \subseteq Hops
  /\ MaxDepth \in Nat /\ MaxHops \in Nat /\ MaxStamp \in Nat

VARIABLES
  strict,   \* require_signatures of the validator
  chain,    \* the hops
  known,    \* _public_keys: the keys the validator knows
  genuine,  \* history: every hop was added by add_hop()
  setBack   \* history: the wall clock was set back in between

chainVars == <<strict, chain, known, genuine, setBack>>

-----------------------------------------------------------------------------
(* Hops and their signatures.                                              *)

Content(hop) == <<hop.from, hop.to, hop.scopes, hop.stamp>>

Hop(f, t, s, now) == [from |-> f, to |-> t, scopes |-> s, stamp |-> now,
                      key |-> NoKey, signed |-> <<>>]

Signed(hop, k) == [hop EXCEPT !.key = k, !.signed = Content(hop)]

SignatureOf(hop) ==
  IF hop.key = NoKey THEN "none"
  ELSE IF hop.key \notin known THEN "unknown key"
  ELSE IF hop.signed = Content(hop) THEN "good" ELSE "bad"

-----------------------------------------------------------------------------
(* DelegationValidator.validate(): the first check that fails gives its    *)
(* name to the verdict.                                                    *)

\* A fault: each hop is compared with the first one.
NarrowsFirst(c) == \A i \in 2 .. Len(c) : c[i].scopes \subseteq c[1].scopes

Narrows(c) == \A i \in 2 .. Len(c) : c[i].scopes \subseteq c[i - 1].scopes

\* A hop that goes from an agent to itself passes.
Circular(c) == \E i, j \in DOMAIN c : i < j /\ c[j].to = c[i].from

Ordered(c) == \A i \in 2 .. Len(c) : c[i].stamp >= c[i - 1].stamp

\* Hops without a signature are skipped; one with is enough for the strict one.  The
\* first hop that is wrong tells why.
SignatureVerdict(c) ==
  LET Wrong(i) == SignatureOf(c[i]) \in {"unknown key", "bad"}
      First(why) == \E i \in DOMAIN c : /\ SignatureOf(c[i]) = why
                                        /\ \A j \in DOMAIN c : j < i => ~ Wrong(j)
  IN  IF First("bad") THEN "bad"
      ELSE IF First("unknown key") THEN "unknown key"
      ELSE IF strict /\ \A i \in DOMAIN c : SignatureOf(c[i]) = "none" THEN "unsigned"
      ELSE "valid"

Validate(c) ==
  IF c = <<>> THEN "valid"
  ELSE IF Len(c) > MaxDepth THEN "too deep"
  ELSE IF ~ Narrows(c) THEN "widened"
  ELSE IF Circular(c) THEN "circular"
  ELSE IF ~ Ordered(c) THEN "disorder"
  ELSE SignatureVerdict(c)

\* validate_effective_scopes(): with no delegation the direct scopes count.
EffectiveScopes(c, direct) == IF c = <<>> THEN direct ELSE c[Len(c)].scopes

Suffices(c, direct, required) ==
  Validate(c) = "valid" /\ required \subseteq EffectiveScopes(c, direct)

-----------------------------------------------------------------------------
(* The chain in the making.                                                *)

\* A fault: only the length of the scopes is looked at.
AddHopByNumber(f, t, s, now) ==
  /\ genuine /\ Len(chain) < MaxHops
  /\ chain # <<>> => /\ Cardinality(s) <= Cardinality(chain[Len(chain)].scopes)
                     /\ f = chain[Len(chain)].to
  /\ chain' = Append(chain, Hop(f, t, s, now))
  /\ setBack' = (setBack \/ (chain # <<>> /\ now < chain[Len(chain)].stamp))
  /\ UNCHANGED <<strict, known, genuine>>

\* add_hop() raises, and changes nothing, when it would widen or break the chain.
AddHop(f, t, s, now) ==
  /\ genuine /\ Len(chain) < MaxHops
  /\ chain # <<>> => /\ s \subseteq chain[Len(chain)].scopes
                     /\ f = chain[Len(chain)].to
  /\ chain' = Append(chain, Hop(f, t, s, now))
  /\ setBack' = (setBack \/ (chain # <<>> /\ now < chain[Len(chain)].stamp))
  /\ UNCHANGED <<strict, known, genuine>>

\* A hop from elsewhere is put at the end of the list that is sent.
ForwardHop(hop) ==
  /\ Len(chain) < MaxHops
  /\ chain' = Append(chain, hop)
  /\ genuine' = FALSE
  /\ UNCHANGED <<strict, known, setBack>>

\* sign_delegation_hop() changes the hop itself; a signature it has is replaced.
Sign(i, k) ==
  /\ genuine
  /\ chain' = [chain EXCEPT ![i] = Signed(@, k)]
  /\ UNCHANGED <<strict, known, genuine, setBack>>

RegisterPublicKey(k) ==
  /\ known' = known \cup {k}
  /\ UNCHANGED <<strict, chain, genuine, setBack>>

ChainInit ==
  strict \in BOOLEAN /\ chain = <<>> /\ known = {} /\ genuine = TRUE /\ setBack = FALSE

ChainNext ==
  \/ \E f, t \in Parties, s \in Grants, now \in 0 .. MaxStamp : AddHop(f, t, s, now)
  \/ \E hop \in Forwarded : ForwardHop(hop)
  \/ \E i \in DOMAIN chain, k \in KeyIds : Sign(i, k)
  \/ \E k \in KeyIds : RegisterPublicKey(k)

ChainSpec == ChainInit /\ [][ChainNext]_chainVars

-----------------------------------------------------------------------------

ChainTypeOK ==
  /\ known \subseteq KeyIds /\ Len(chain) <= MaxHops
  /\ strict \in BOOLEAN /\ genuine \in BOOLEAN /\ setBack \in BOOLEAN
  /\ chain \in Seq(Hops)

\* The scopes that count for an accepted chain are those that every hop of it
\* granted ("the intersection of all scopes in the chain", delegation.py:192),
\* although the code reads the last hop only.
EffectiveIsIntersection ==
  Validate(chain) = "valid" =>
    \A s \in UNION Grants :
      Suffices(chain, UNION Grants, {s}) <=> \A i \in DOMAIN chain : s \in chain[i].scopes

\* What add_hop() built on a clock that was never set back is refused only for what
\* add_hop() does not look at: its length, an agent that comes back, its signatures.
BuilderIsAccepted ==
  genuine /\ ~ setBack => Validate(chain) \notin {"widened", "disorder", "bad"}
=============================================================================

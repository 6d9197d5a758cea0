---------------------------- MODULE SecurityProofs ----------------------------
(***************************************************************************)
(* What delegation chains, the authenticators and the guards promise.      *)
(***************************************************************************)
EXTENDS Delegation, Authentication, Authorization, FiniteSetTheorems, WellFoundedInduction, TLAPS

-----------------------------------------------------------------------------
(***************************************************************************)
(* What the validator of delegation chains promises, for chains of any     *)
(* length, any agents, scopes and keys, and whatever hops are forwarded.   *)
(*                                                                         *)
(* The validator compares neighbours only.  That the last hop is within    *)
(* every hop before it would be an induction over the chain; here it is    *)
(* one over the steps that make the chain, and so is the part of an        *)
(* invariant: Nested.                                                      *)
(***************************************************************************)

LEMMA ChainTypeInit == ChainInit => ChainTypeOK
<1>1. <<>> \in Seq(Hops) /\ Len(<<>>) <= MaxHops
  BY DelegationConstantsOK DEF DelegationConstantsOK
<1> QED BY <1>1 DEF ChainInit, ChainTypeOK

LEMMA ChainTypeStep == ChainTypeOK /\ [ChainNext]_chainVars => ChainTypeOK'
<1> SUFFICES ASSUME ChainTypeOK, [ChainNext]_chainVars PROVE ChainTypeOK'
  OBVIOUS
<1> USE DelegationConstantsOK DEF DelegationConstantsOK, ChainTypeOK
<1>1. ASSUME NEW hop \in Hops, Len(chain) < MaxHops
      PROVE  Append(chain, hop) \in Seq(Hops) /\ Len(Append(chain, hop)) <= MaxHops
  BY <1>1
<1>2. ASSUME NEW f \in Parties, NEW t \in Parties, NEW s \in Grants, NEW when \in 0 .. MaxStamp,
             AddHop(f, t, s, when)
      PROVE  ChainTypeOK'
  <2>1. Hop(f, t, s, when) \in Hops
    BY DEF Hop, Hops
  <2> QED
    BY <1>1, <1>2, <2>1 DEF AddHop
<1>3. ASSUME NEW hop \in Forwarded, ForwardHop(hop) PROVE ChainTypeOK'
  BY <1>1, <1>3 DEF ForwardHop
<1>4. ASSUME NEW i \in DOMAIN chain, NEW k \in KeyIds, Sign(i, k) PROVE ChainTypeOK'
  <2>1. chain[i] \in Hops
    OBVIOUS
  <2>2. Signed(chain[i], k) \in Hops
    BY <2>1 DEF Signed, Content, Hops
  <2> QED
    BY <1>4, <2>2 DEF Sign
<1>5. ASSUME NEW k \in KeyIds, RegisterPublicKey(k) PROVE ChainTypeOK'
  BY <1>5 DEF RegisterPublicKey
<1>6. CASE UNCHANGED chainVars
  BY <1>6 DEF chainVars
<1> QED
  BY <1>2, <1>3, <1>4, <1>5, <1>6 DEF ChainNext

\* Chains are sequences of hops, no longer than the bound.
THEOREM ChainTypeCorrect == ChainSpec => []ChainTypeOK
BY ChainTypeInit, ChainTypeStep, PTL DEF ChainSpec

-----------------------------------------------------------------------------
(* The inductive invariant.                                                *)

\* In a chain that narrows from hop to hop, every hop is within all before it.
Nested ==
  Narrows(chain) =>
    \A i, j \in DOMAIN chain : i <= j => chain[j].scopes \subseteq chain[i].scopes

\* What add_hop() builds narrows, is in the order of its clock, and its signatures are
\* of what the hops say.
Built ==
  genuine =>
    /\ Narrows(chain)
    /\ ~ setBack => Ordered(chain)
    /\ \A i \in DOMAIN chain : chain[i].key # NoKey => chain[i].signed = Content(chain[i])

ChainInv == ChainTypeOK /\ Nested /\ Built

\* A hop at the end leaves the hops before it as they are.
LEMMA Longer ==
  ASSUME chain \in Seq(Hops), NEW hop \in Hops, chain' = Append(chain, hop)
  PROVE  /\ DOMAIN chain = 1 .. Len(chain) /\ DOMAIN chain' = 1 .. Len(chain) + 1
         /\ Len(chain') = Len(chain) + 1 /\ Len(chain) \in Nat
         /\ \A i \in DOMAIN chain : chain'[i] = chain[i]
         /\ chain'[Len(chain) + 1] = hop
OBVIOUS

\* A hop at the end, whatever it is, leaves the chain nested.
LEMMA LongerNested ==
  ASSUME chain \in Seq(Hops), NEW hop \in Hops, chain' = Append(chain, hop), Nested
  PROVE  Nested'
<1> DEFINE n == Len(chain)
<1>1. /\ DOMAIN chain = 1 .. n /\ DOMAIN chain' = 1 .. n + 1 /\ Len(chain') = n + 1
      /\ n \in Nat /\ \A i \in 1 .. n : chain'[i] = chain[i]
      /\ chain'[n + 1] = hop
  BY Longer
<1> HIDE DEF n
<1> SUFFICES ASSUME \A i \in 2 .. n + 1 : chain'[i].scopes \subseteq chain'[i - 1].scopes,
                    NEW i \in 1 .. n + 1, NEW j \in 1 .. n + 1, i <= j
             PROVE  chain'[j].scopes \subseteq chain'[i].scopes
  BY <1>1 DEF Nested, Narrows
<1>2. \A k \in 2 .. n : chain[k].scopes \subseteq chain[k - 1].scopes
  <2> TAKE k \in 2 .. n
  <2>1. k \in 2 .. n + 1 /\ k \in 1 .. n /\ k - 1 \in 1 .. n
    BY <1>1
  <2>2. chain'[k].scopes \subseteq chain'[k - 1].scopes
    BY <2>1
  <2> QED BY <1>1, <2>1, <2>2
<1>3. \A k, l \in 1 .. n : k <= l => chain[l].scopes \subseteq chain[k].scopes
  BY <1>1, <1>2 DEF Nested, Narrows, n
<1>4. CASE j <= n
  <2>1. i \in 1 .. n /\ j \in 1 .. n
    BY <1>1, <1>4
  <2> QED BY <1>1, <1>3, <2>1
<1>5. CASE j = n + 1 /\ i <= n
  <2>1. n + 1 \in 2 .. n + 1 /\ n \in 1 .. n /\ i \in 1 .. n /\ (n + 1) - 1 = n
    BY <1>1, <1>5
  <2>2. chain'[n + 1].scopes \subseteq chain'[n].scopes
    BY <2>1
  <2>3. chain[n].scopes \subseteq chain[i].scopes
    BY <1>3, <2>1
  <2> QED BY <1>1, <1>5, <2>1, <2>2, <2>3
<1>6. CASE j = n + 1 /\ i = n + 1
  BY <1>6
<1> QED BY <1>1, <1>4, <1>5, <1>6

\* add_hop() keeps what it built well-formed.
LEMMA LongerBuilt ==
  ASSUME ChainTypeOK, Built,
         NEW f \in Parties, NEW t \in Parties, NEW s \in Grants, NEW when \in 0 .. MaxStamp,
         AddHop(f, t, s, when)
  PROVE  Built'
<1> DEFINE n == Len(chain)  hop == Hop(f, t, s, when)
<1>1. hop \in Hops /\ hop.scopes = s /\ hop.stamp = when /\ hop.key = NoKey
  BY DelegationConstantsOK DEF Hop, Hops, DelegationConstantsOK
<1>2. /\ DOMAIN chain = 1 .. n /\ DOMAIN chain' = 1 .. n + 1 /\ Len(chain') = n + 1
      /\ n \in Nat /\ \A i \in 1 .. n : chain'[i] = chain[i]
      /\ chain'[n + 1] = hop
  BY <1>1, Longer DEF ChainTypeOK, AddHop
<1>3. genuine /\ genuine' = genuine
  BY DEF AddHop
<1>4. n # 0 => s \subseteq chain[n].scopes
  BY <1>2 DEF AddHop, ChainTypeOK
<1>5. ASSUME NEW i \in 1 .. n PROVE chain[i].stamp \in Nat
  <2>1. chain[i] \in Hops
    BY <1>2 DEF ChainTypeOK
  <2> QED BY <2>1 DEF Hops
<1>6. when \in Nat
  BY DelegationConstantsOK DEF DelegationConstantsOK
<1>7. ~ setBack' => ~ setBack /\ (n # 0 => when >= chain[n].stamp)
  <2>1. setBack' <=> setBack \/ (chain # <<>> /\ when < chain[n].stamp)
    BY DEF AddHop, ChainTypeOK
  <2>2. n # 0 => chain # <<>> /\ n \in 1 .. n
    BY <1>2
  <2>3. n # 0 => chain[n].stamp \in Nat
    BY <1>5, <2>2
  <2> QED BY <1>6, <2>1, <2>2, <2>3
<1> HIDE DEF n, hop
<1>8. Narrows(chain')
  <2> SUFFICES ASSUME NEW i \in 2 .. n + 1
               PROVE  chain'[i].scopes \subseteq chain'[i - 1].scopes
    BY <1>2 DEF Narrows
  <2>1. CASE i <= n
    <3>1. i \in 2 .. n /\ i \in 1 .. n /\ i - 1 \in 1 .. n
      BY <1>2, <2>1
    <3> QED BY <1>2, <1>3, <3>1 DEF Built, Narrows, n
  <2>2. CASE i = n + 1
    <3>1. n # 0 /\ n \in 1 .. n /\ i - 1 = n
      BY <1>2, <2>2
    <3> QED BY <1>1, <1>2, <1>4, <2>2, <3>1
  <2> QED BY <1>2, <2>1, <2>2
<1>9. ASSUME ~ setBack' PROVE Ordered(chain')
  <2> SUFFICES ASSUME NEW i \in 2 .. n + 1
               PROVE  chain'[i].stamp >= chain'[i - 1].stamp
    BY <1>2 DEF Ordered
  <2>1. CASE i <= n
    <3>1. i \in 2 .. n /\ i \in 1 .. n /\ i - 1 \in 1 .. n
      BY <1>2, <2>1
    <3>2. chain[i].stamp >= chain[i - 1].stamp
      BY <1>3, <1>7, <1>9, <3>1 DEF Built, Ordered, n
    <3> QED BY <1>2, <3>1, <3>2
  <2>2. CASE i = n + 1
    <3>1. n # 0 /\ n \in 1 .. n /\ i - 1 = n
      BY <1>2, <2>2
    <3> QED BY <1>1, <1>2, <1>7, <1>9, <2>2, <3>1
  <2> QED BY <1>2, <2>1, <2>2
<1>10. \A i \in DOMAIN chain' : chain'[i].key # NoKey => chain'[i].signed = Content(chain'[i])
  <2> SUFFICES ASSUME NEW i \in 1 .. n + 1, chain'[i].key # NoKey
               PROVE  chain'[i].signed = Content(chain'[i])
    BY <1>2
  <2>1. i \in 1 .. n
    BY <1>1, <1>2
  <2> QED BY <1>2, <1>3, <2>1 DEF Built
<1> QED BY <1>8, <1>9, <1>10 DEF Built

\* A signature changes nothing that narrows or orders a chain, and is of the hop it is put on.
LEMMA SignedStays ==
  ASSUME ChainTypeOK, Nested, Built, NEW i \in DOMAIN chain, NEW k \in KeyIds, Sign(i, k)
  PROVE  Nested' /\ Built'
<1>1. DOMAIN chain' = DOMAIN chain /\ Len(chain') = Len(chain)
  BY DEF Sign, ChainTypeOK
<1>2. chain[i] \in Hops
  BY DEF ChainTypeOK
<1>3. /\ Signed(chain[i], k).scopes = chain[i].scopes
      /\ Signed(chain[i], k).stamp = chain[i].stamp
      /\ Signed(chain[i], k).signed = Content(chain[i])
      /\ Content(Signed(chain[i], k)) = Content(chain[i])
  BY <1>2 DEF Signed, Content, Hops
<1>4. /\ chain'[i] = Signed(chain[i], k)
      /\ \A j \in DOMAIN chain \ {i} : chain'[j] = chain[j]
  BY DEF Sign, ChainTypeOK
<1>5. \A j \in DOMAIN chain : chain'[j].scopes = chain[j].scopes /\ chain'[j].stamp = chain[j].stamp
  BY <1>3, <1>4
<1>6. DOMAIN chain = 1 .. Len(chain) /\ Len(chain) \in Nat
  BY DEF ChainTypeOK
<1>7. \A j \in 2 .. Len(chain) : j \in DOMAIN chain /\ j - 1 \in DOMAIN chain
  BY <1>6
<1>8. Narrows(chain') <=> Narrows(chain)
  BY <1>1, <1>5, <1>7 DEF Narrows
<1>9. Ordered(chain') <=> Ordered(chain)
  BY <1>1, <1>5, <1>7 DEF Ordered
<1>10. ASSUME NEW j \in DOMAIN chain', chain'[j].key # NoKey, genuine
       PROVE  chain'[j].signed = Content(chain'[j])
  <2>1. CASE j = i
    BY <1>3, <1>4, <2>1
  <2>2. CASE j # i
    BY <1>1, <1>4, <1>10, <2>2 DEF Built
  <2> QED BY <2>1, <2>2
<1>11. genuine' = genuine /\ setBack' = setBack
  BY DEF Sign
<1>12. Nested'
  BY <1>1, <1>5, <1>8 DEF Nested
<1> QED BY <1>8, <1>9, <1>10, <1>11, <1>12 DEF Built

LEMMA ChainInvInit == ChainInit => ChainInv
<1> SUFFICES ASSUME ChainInit PROVE ChainInv
  OBVIOUS
<1>1. ChainTypeOK
  BY ChainTypeInit
<1>2. chain = <<>> /\ DOMAIN chain = {} /\ Len(chain) = 0
  BY DEF ChainInit
<1>3. Narrows(chain) /\ Ordered(chain)
  BY <1>2 DEF Narrows, Ordered
<1> QED BY <1>1, <1>2, <1>3 DEF ChainInv, Nested, Built

LEMMA ChainInvStep == ChainInv /\ [ChainNext]_chainVars => ChainInv'
<1> SUFFICES ASSUME ChainInv, [ChainNext]_chainVars PROVE ChainInv'
  OBVIOUS
<1>1. ChainTypeOK /\ Nested /\ Built /\ ChainTypeOK'
  BY ChainTypeStep DEF ChainInv
<1>2. ASSUME NEW f \in Parties, NEW t \in Parties, NEW s \in Grants, NEW when \in 0 .. MaxStamp,
             AddHop(f, t, s, when)
      PROVE  ChainInv'
  <2>1. Hop(f, t, s, when) \in Hops
    BY DelegationConstantsOK DEF Hop, Hops, DelegationConstantsOK
  <2>2. Nested'
    BY <1>1, <1>2, <2>1, LongerNested DEF AddHop, ChainTypeOK
  <2> QED BY <1>1, <1>2, <2>2, LongerBuilt DEF ChainInv
<1>3. ASSUME NEW hop \in Forwarded, ForwardHop(hop) PROVE ChainInv'
  <2>1. hop \in Hops
    BY DelegationConstantsOK DEF DelegationConstantsOK
  <2>2. Nested'
    BY <1>1, <1>3, <2>1, LongerNested DEF ForwardHop, ChainTypeOK
  <2>3. Built'
    BY <1>3 DEF ForwardHop, Built
  <2> QED BY <1>1, <2>2, <2>3 DEF ChainInv
<1>4. ASSUME NEW i \in DOMAIN chain, NEW k \in KeyIds, Sign(i, k) PROVE ChainInv'
  BY <1>1, <1>4, SignedStays DEF ChainInv
<1>5. CASE UNCHANGED <<chain, genuine, setBack>>
  BY <1>1, <1>5 DEF ChainInv, Nested, Built, Narrows, Ordered, Content
<1> QED
  BY <1>2, <1>3, <1>4, <1>5 DEF ChainNext, RegisterPublicKey, chainVars

-----------------------------------------------------------------------------

\* The scopes of an accepted chain are those that every hop of it granted, though the
\* validator reads the last hop only and compares neighbours only.
THEOREM AcceptedIsIntersection == ChainSpec => []EffectiveIsIntersection
<1>1. ChainInv => EffectiveIsIntersection
  <2> SUFFICES ASSUME ChainInv, Validate(chain) = "valid", NEW s \in UNION Grants
               PROVE  Suffices(chain, UNION Grants, {s}) <=>
                        \A i \in DOMAIN chain : s \in chain[i].scopes
    BY DEF EffectiveIsIntersection
  <2>1. CASE chain = <<>>
    BY <2>1 DEF Suffices, EffectiveScopes
  <2>2. CASE chain # <<>>
    <3>1. DOMAIN chain = 1 .. Len(chain) /\ Len(chain) \in DOMAIN chain
          /\ \A i \in DOMAIN chain : i <= Len(chain)
      BY <2>2 DEF ChainInv, ChainTypeOK
    <3>2. Narrows(chain)
      BY <2>2 DEF Validate
    <3>3. \A i \in DOMAIN chain : chain[Len(chain)].scopes \subseteq chain[i].scopes
      BY <3>1, <3>2 DEF ChainInv, Nested
    <3>4. Suffices(chain, UNION Grants, {s}) <=> s \in chain[Len(chain)].scopes
      BY <2>2 DEF Suffices, EffectiveScopes
    <3> QED BY <3>1, <3>3, <3>4
  <2> QED BY <2>1, <2>2
<1> QED
  BY ChainInvInit, ChainInvStep, <1>1, PTL DEF ChainSpec

\* A chain that add_hop() built on a clock that was never set back, and whose hops were
\* signed or not, is never refused as widened, out of order or badly signed.
THEOREM BuiltIsAccepted == ChainSpec => []BuilderIsAccepted
<1>1. ChainInv => BuilderIsAccepted
  <2> SUFFICES ASSUME ChainInv, genuine, ~ setBack
               PROVE  Validate(chain) \notin {"widened", "disorder", "bad"}
    BY DEF BuilderIsAccepted
  <2>1. Narrows(chain) /\ Ordered(chain)
    BY DEF ChainInv, Built
  <2>2. \A i \in DOMAIN chain : SignatureOf(chain[i]) # "bad"
    BY DEF ChainInv, Built, SignatureOf
  <2>3. SignatureVerdict(chain) # "bad"
    BY <2>2 DEF SignatureVerdict
  <2>4. SignatureVerdict(chain) \in {"bad", "unknown key", "unsigned", "valid"}
    BY DEF SignatureVerdict
  <2> QED BY <2>1, <2>3, <2>4 DEF Validate
<1> QED
  BY ChainInvInit, ChainInvStep, <1>1, PTL DEF ChainSpec

-----------------------------------------------------------------------------
(***************************************************************************)
(* What the authenticators promise, for any key rings, keys and secrets,   *)
(* any lifetimes and any number of restarts.                               *)
(*                                                                         *)
(* revoke_key() deletes a key from one store.  That this takes it back     *)
(* everywhere needs that no two stores hold it: a key is made once, and    *)
(* what is not made yet is in no store.                                    *)
(***************************************************************************)

Standing ==
  /\ \A r \in Rings, k \in Keys : ring[r][k] # Nil => k \in made \ revoked
  /\ \A r, q \in Rings, k \in Keys : ring[r][k] # Nil /\ ring[q][k] # Nil => r = q

AuthInv ==
  /\ AuthTypeOK
  /\ tokens \subseteq [agent : Holders, secret : Configured \cup Random, until : Nat]
  /\ Standing

\* A result is that of a key of the ring, or of no agent.
LEMMA ResultOfKey ==
  ASSUME AuthTypeOK, NEW r \in Rings \cup {Nil}, NEW k \in Keys
  PROVE  /\ KeyResult(r, k).agent \in Holders \cup {Nil}
         /\ KeyResult(r, k).agent # Nil => r \in Rings /\ KeyResult(r, k).from = k /\ ring[r][k] # Nil
BY DEF KeyResult, Failed, AuthTypeOK

\* A result is that of a token that stands, or of no agent.
LEMMA ResultOfToken ==
  ASSUME AuthInv, NEW s, NEW t \in tokens
  PROVE  /\ TokenResult(s, t).agent \in Holders \cup {Nil}
         /\ TokenResult(s, t).agent # Nil =>
              TokenResult(s, t).from = t /\ t.secret = s /\ now <= t.until
<1>1. t.agent \in Holders /\ t.until \in Nat /\ now \in Nat
  BY AuthenticationConstantsOK DEF AuthInv, AuthTypeOK, AuthenticationConstantsOK
<1>2. now > t.until \/ now <= t.until
  BY <1>1
<1> QED BY <1>1, <1>2 DEF TokenResult, Failed

\* What the stores hold after some entries are deleted stands still.
LEMMA Fewer ==
  ASSUME AuthInv, ring' \in [Rings -> [Keys -> Holders \cup {Nil}]], made' = made,
         \A r \in Rings, k \in Keys : ring'[r][k] # Nil => ring[r][k] # Nil,
         \A r \in Rings, k \in Keys : ring'[r][k] # Nil => k \notin revoked'
  PROVE  Standing'
BY DEF AuthInv, Standing

LEMMA AuthInvInit == AuthInit => AuthInv
BY AuthenticationConstantsOK DEF AuthInit, AuthInv, AuthTypeOK, Standing, Failed, AuthenticationConstantsOK

LEMMA AuthInvStep == AuthInv /\ [AuthNext]_authVars => AuthInv'
<1> SUFFICES ASSUME AuthInv, [AuthNext]_authVars PROVE AuthInv'
  OBVIOUS
<1>1. ASSUME NEW r \in Rings, NEW k \in Keys, NEW a \in Holders, CreateKey(r, k, a)
      PROVE  AuthInv'
  <2>1. ring' \in [Rings -> [Keys -> Holders \cup {Nil}]]
    BY <1>1 DEF CreateKey, AuthInv, AuthTypeOK
  <2>2. /\ k \notin made /\ made' = made \cup {k} /\ revoked' = revoked
        /\ k \notin revoked
    BY <1>1 DEF CreateKey, AuthInv, AuthTypeOK
  <2>3. \A q \in Rings : ring[q][k] = Nil
    BY <2>2 DEF AuthInv, Standing
  <2>4. ASSUME NEW q \in Rings, NEW l \in Keys
        PROVE  ring'[q][l] # Nil => (l = k /\ q = r) \/ (l # k /\ ring[q][l] # Nil)
    BY <1>1, <2>3 DEF CreateKey, AuthInv, AuthTypeOK
  <2>5. Standing'
    BY <2>2, <2>4 DEF AuthInv, Standing
  <2> QED BY <1>1, <2>1, <2>2, <2>5 DEF CreateKey, AuthInv, AuthTypeOK
<1>2. ASSUME NEW r \in Rings, NEW k \in Keys, RevokeKey(r, k)
      PROVE  AuthInv'
  <2>1. ring' \in [Rings -> [Keys -> Holders \cup {Nil}]]
    BY <1>2 DEF RevokeKey, AuthInv, AuthTypeOK
  <2>2. ring[r][k] # Nil /\ made' = made /\ revoked' = revoked \cup {k} /\ k \in made
    BY <1>2 DEF RevokeKey, AuthInv, Standing
  <2>3. ASSUME NEW q \in Rings, NEW l \in Keys, ring'[q][l] # Nil
        PROVE  ring[q][l] # Nil /\ ~ (q = r /\ l = k)
    BY <1>2, <2>3 DEF RevokeKey, AuthInv, AuthTypeOK
  <2>4. ASSUME NEW q \in Rings, NEW l \in Keys, ring'[q][l] # Nil
        PROVE  l \notin revoked'
    BY <2>2, <2>3, <2>4 DEF AuthInv, Standing
  <2>5. Standing'
    BY <2>1, <2>2, <2>3, <2>4, Fewer
  <2> QED BY <1>2, <2>1, <2>2, <2>5 DEF RevokeKey, AuthInv, AuthTypeOK
<1>3. ASSUME NEW r \in Rings, NEW a \in Holders, RevokeAgentKeys(r, a)
      PROVE  AuthInv'
  <2>1. a # Nil
    BY AuthenticationConstantsOK DEF AuthenticationConstantsOK
  <2>2. ring' \in [Rings -> [Keys -> Holders \cup {Nil}]]
    BY <1>3 DEF RevokeAgentKeys, AuthInv, AuthTypeOK
  <2>3. ASSUME NEW q \in Rings, NEW l \in Keys, ring'[q][l] # Nil
        PROVE  ring[q][l] # Nil /\ ~ (q = r /\ ring[r][l] = a)
    BY <1>3, <2>1, <2>3 DEF RevokeAgentKeys, AuthInv, AuthTypeOK
  <2>4. \A l \in KeysOf(r, a) : l \in Keys /\ ring[r][l] = a
    BY DEF KeysOf
  <2>5. ASSUME NEW q \in Rings, NEW l \in Keys, ring'[q][l] # Nil
        PROVE  l \notin revoked'
    <3>1. l \notin revoked
      BY <2>3, <2>5 DEF AuthInv, Standing
    <3>2. l \notin KeysOf(r, a)
      BY <2>1, <2>3, <2>4, <2>5 DEF AuthInv, Standing
    <3> QED BY <1>3, <3>1, <3>2 DEF RevokeAgentKeys
  <2>6. Standing'
    BY <1>3, <2>2, <2>3, <2>5, Fewer DEF RevokeAgentKeys
  <2>7. revoked' \subseteq made'
    BY <1>3, <2>1, <2>4 DEF RevokeAgentKeys, AuthInv, AuthTypeOK, Standing
  <2> QED BY <1>3, <2>2, <2>6, <2>7 DEF RevokeAgentKeys, AuthInv, AuthTypeOK
<1>4. ASSUME NEW s \in Configured \cup {multi.secret}, NEW a \in Holders, NEW ttl \in Lifetimes,
             s # Nil, CreateToken(s, a, ttl)
      PROVE  AuthInv'
  <2>1. s \in Configured \cup Random
    BY <1>4 DEF AuthInv, AuthTypeOK
  <2>2. now + ttl \in Nat
    BY AuthenticationConstantsOK DEF AuthenticationConstantsOK, AuthInv, AuthTypeOK
  <2>3. tokens' \subseteq [agent : Holders, secret : Configured \cup Random, until : Nat]
    BY <1>4, <2>1, <2>2 DEF CreateToken, AuthInv
  <2> QED BY <1>4, <2>3 DEF CreateToken, AuthInv, AuthTypeOK, Standing
<1>5. ASSUME NEW r \in Rings, AddApiKey(r) PROVE AuthInv'
  BY <1>5 DEF AddApiKey, AuthInv, AuthTypeOK, Standing
<1>6. ASSUME NEW s \in Configured \cup Random, AddJwt(s) PROVE AuthInv'
  BY <1>6 DEF AddJwt, AuthInv, AuthTypeOK, Standing
<1>7. ASSUME held'.agent \in Holders \cup {Nil},
             UNCHANGED <<ring, made, multi, tokens, now, revoked>>
      PROVE  AuthInv'
  BY <1>7 DEF AuthInv, AuthTypeOK, Standing
<1>8. ASSUME NEW r \in Rings, NEW k \in Keys, AuthenticateWithKey(r, k) PROVE AuthInv'
  BY <1>7, <1>8, ResultOfKey DEF AuthenticateWithKey, AuthInv
<1>9. ASSUME NEW t \in tokens, AuthenticateWithToken(t) PROVE AuthInv'
  BY <1>7, <1>9, ResultOfToken DEF AuthenticateWithToken
<1>10. ASSUME NEW t \in tokens, NEW k \in Keys, AuthenticateAny(k, t) PROVE AuthInv'
  <2>1. multi.ring \in Rings \cup {Nil}
    BY DEF AuthInv, AuthTypeOK
  <2>2. held' = KeyResult(multi.ring, k) \/ held' = TokenResult(multi.secret, t)
    BY <1>10 DEF AuthenticateAny
  <2>3. held'.agent \in Holders \cup {Nil}
    BY <2>1, <2>2, ResultOfKey, ResultOfToken DEF AuthInv
  <2> QED BY <1>7, <1>10, <2>3 DEF AuthenticateAny
<1>11. CASE PassTime
  BY <1>11, AuthenticationConstantsOK
  DEF PassTime, AuthInv, AuthTypeOK, Standing, AuthenticationConstantsOK
<1>12. CASE Reboot
  <2>1. ring' \in [Rings -> [Keys -> Holders \cup {Nil}]]
    BY <1>12 DEF Reboot, AuthInv, AuthTypeOK
  <2>2. \A r \in Rings, k \in Keys : ring'[r][k] # Nil => ring[r][k] # Nil
    BY <1>12 DEF Reboot
  <2>3. Standing'
    BY <1>12, <2>1, <2>2, Fewer DEF Reboot, AuthInv, Standing
  <2> QED BY <1>12, <2>1, <2>3 DEF Reboot, Failed, AuthInv, AuthTypeOK
<1>13. CASE UNCHANGED authVars
  BY <1>13 DEF authVars, AuthInv, AuthTypeOK, Standing
<1> QED
  BY <1>1, <1>2, <1>3, <1>4, <1>5, <1>6, <1>8, <1>9, <1>10, <1>11, <1>12, <1>13 DEF AuthNext

\* Whoever is accepted, by key or by token, holds a credential that stands.
LEMMA AcceptedStands ==
  ASSUME AuthInv, AuthNext, held' # held, held'.agent # Nil
  PROVE  \/ held'.from \in made \ revoked
         \/ held'.from \in tokens /\ now <= held'.from.until /\ held'.from.secret = multi.secret
<1>1. AuthTypeOK /\ multi.ring \in Rings \cup {Nil}
  BY DEF AuthInv, AuthTypeOK
<1>2. ASSUME NEW r \in Rings \cup {Nil}, NEW k \in Keys, held' = KeyResult(r, k)
      PROVE  held'.from \in made \ revoked
  BY <1>1, <1>2, ResultOfKey DEF AuthInv, Standing
<1>3. ASSUME NEW t \in tokens, held' = TokenResult(multi.secret, t)
      PROVE  held'.from \in tokens /\ now <= held'.from.until /\ held'.from.secret = multi.secret
  BY <1>3, ResultOfToken
<1>4. ASSUME NEW r \in Rings, NEW k \in Keys, AuthenticateWithKey(r, k)
      PROVE  held'.from \in made \ revoked
  BY <1>2, <1>4 DEF AuthenticateWithKey
<1>5. CASE Reboot
  BY <1>5 DEF Reboot, Failed
<1>6. ASSUME NEW t \in tokens, NEW k \in Keys, AuthenticateAny(k, t)
      PROVE  held' = KeyResult(multi.ring, k) \/ held' = TokenResult(multi.secret, t)
  BY <1>6 DEF AuthenticateAny
<1> QED
  BY <1>1, <1>2, <1>3, <1>4, <1>5, <1>6
  DEF AuthNext, CreateKey, RevokeKey, RevokeAgentKeys, CreateToken, AddApiKey, AddJwt,
      AuthenticateWithToken, PassTime

\* Rings, tokens and results are what they are taken for, and who is accepted came by a
\* credential of its own.
THEOREM AuthTypeCorrect == AuthSpec => []AuthTypeOK
<1>1. AuthInv => AuthTypeOK
  BY DEF AuthInv
<1> QED BY AuthInvInit, AuthInvStep, <1>1, PTL DEF AuthSpec

\* An agent is accepted only by a key that was made and not taken back since, or by a
\* token that has not run out and was signed with the secret in use.
THEOREM AcceptedByWhatStands == AuthSpec => CredentialStillStands
<1>1. AuthInv /\ [AuthNext]_authVars =>
        [held' # held /\ held'.agent # Nil =>
           \/ held'.from \in made \ revoked
           \/ held'.from \in tokens /\ now <= held'.from.until /\ held'.from.secret = multi.secret
        ]_authVars
  BY AcceptedStands
<1> QED
  BY AuthInvInit, AuthInvStep, <1>1, PTL DEF AuthSpec, CredentialStillStands

-----------------------------------------------------------------------------
(***************************************************************************)
(* What the route guard and its audit log promise, for any policies,       *)
(* messages, clock and limits.                                             *)
(*                                                                         *)
(* The counters, the log and its file are written one after the other, and *)
(* the last may fail.  The invariant adds to the property the types that   *)
(* make it a sum of numbers, and that a log that is not attached is empty: *)
(* attaching it then balances the sums.                                    *)
(***************************************************************************)

Rulings == {"allow", "deny"}
Counts  == [Rulings -> Nat]
Trails  == [attached : BOOLEAN, entries : Counts, lines : Counts,
            before : [allow : Nat, deny : Nat, passed : Nat]]

AuditInv ==
  /\ allowed \in [Guards -> Nat] /\ denied \in [Guards -> Nat]
  /\ trail \in Trails /\ passed \in Nat
  /\ ~ trail.attached => \A v \in Rulings : trail.entries[v] = 0 /\ trail.lines[v] = 0
  /\ NothingPassesUnrecorded

LEMMA NoTrailIsEmpty ==
  /\ NoTrail \in Trails /\ NoTrail.attached = FALSE
  /\ \A v \in Rulings : NoTrail.entries[v] = 0 /\ NoTrail.lines[v] = 0
<1> DEFINE none == [v \in Rulings |-> 0]  zero == [allow |-> 0, deny |-> 0, passed |-> 0]
<1>1. none \in Counts /\ zero \in [allow : Nat, deny : Nat, passed : Nat]
  BY DEF Counts
<1>2. \A v \in Rulings : none[v] = 0
  OBVIOUS
<1>3. NoTrail = [attached |-> FALSE, entries |-> none, lines |-> none, before |-> zero]
  BY DEF NoTrail, Rulings
<1> HIDE DEF none, zero
<1> QED BY <1>1, <1>2, <1>3 DEF Trails

LEMMA BeginsUnaudited ==
  ASSUME trail' = NoTrail, passed' = 0,
         allowed' = [g \in Guards |-> 0], denied' = [g \in Guards |-> 0]
  PROVE  AuditInv'
BY NoTrailIsEmpty DEF AuditInv, NothingPassesUnrecorded

LEMMA AuditInvInit == AuthzInit => AuditInv
BY NoTrailIsEmpty DEF AuthzInit, AuditInv, NothingPassesUnrecorded

\* What a message adds to the counters, the log and its file.
LEMMA GuardKeepsAudit ==
  ASSUME AuditInv, NEW m, GuardRoute(m) PROVE AuditInv'
<1>1. PICK verdict \in {"allow", "deny", "raise"}, written \in BOOLEAN :
        /\ Counted("route", verdict)
        /\ Recorded(verdict, written)
        /\ passed' = IF verdict = "allow" /\ (trail.attached => written)
                     THEN passed + 1 ELSE passed
  BY DEF GuardRoute
<1>2. /\ allowed' \in [Guards -> Nat] /\ denied' \in [Guards -> Nat]
      /\ allowed'["route"] = allowed["route"] + (IF verdict = "allow" THEN 1 ELSE 0)
      /\ denied'["route"] = denied["route"] + (IF verdict = "deny" THEN 1 ELSE 0)
      /\ allowed["route"] \in Nat /\ denied["route"] \in Nat
  BY <1>1 DEF Counted, AuditInv, Guards
<1>3. passed' \in Nat
  BY <1>1 DEF AuditInv
<1>4. /\ trail.entries \in Counts /\ trail.lines \in Counts /\ trail.attached \in BOOLEAN
      /\ trail.before \in [allow : Nat, deny : Nat, passed : Nat] /\ passed \in Nat
  BY DEF AuditInv, Trails
<1>5. CASE ~ trail.attached \/ verdict = "raise"
  <2>1. trail' = trail
    BY <1>1, <1>5 DEF Recorded
  <2>2. ASSUME trail.attached PROVE verdict = "raise" /\ passed' = passed
    BY <1>1, <1>5, <2>2
  <2>3. NothingPassesUnrecorded'
    BY <1>2, <2>1, <2>2 DEF NothingPassesUnrecorded, AuditInv
  <2> QED BY <1>2, <1>3, <2>1, <2>3 DEF AuditInv
<1>6. CASE trail.attached /\ verdict \in Rulings
  <2> DEFINE entries == [trail.entries EXCEPT ![verdict] = @ + 1]
             lines   == [trail.lines EXCEPT ![verdict] = IF written THEN @ + 1 ELSE @]
  <2>1. entries \in Counts /\ lines \in Counts
    BY <1>4, <1>6 DEF Counts
  <2>2. /\ entries["allow"] = trail.entries["allow"] + (IF verdict = "allow" THEN 1 ELSE 0)
        /\ entries["deny"] = trail.entries["deny"] + (IF verdict = "deny" THEN 1 ELSE 0)
        /\ lines["allow"] = trail.lines["allow"] + (IF verdict = "allow" /\ written THEN 1 ELSE 0)
    BY <1>4, <1>6 DEF Counts, Rulings
  <2>3. trail' = [trail EXCEPT !.entries = entries, !.lines = lines]
    BY <1>1, <1>4, <1>6 DEF Recorded, Rulings, AuditInv, Trails
  <2> HIDE DEF entries, lines
  <2>4. /\ trail' = [attached |-> trail.attached, entries |-> entries, lines |-> lines,
                     before |-> trail.before]
        /\ trail' \in Trails
    BY <1>4, <2>1, <2>3 DEF AuditInv, Trails
  <2>5. passed' = passed + (IF verdict = "allow" /\ written THEN 1 ELSE 0)
    BY <1>1, <1>4, <1>6
  <2>6. /\ trail.lines["allow"] \in Nat /\ trail.entries["allow"] \in Nat
        /\ trail.entries["deny"] \in Nat
        /\ trail.before.allow \in Nat /\ trail.before.deny \in Nat /\ trail.before.passed \in Nat
    BY <1>4 DEF Counts, Rulings
  <2>7. NothingPassesUnrecorded'
    <3>1. /\ trail.lines["allow"] + trail.before.passed = passed
          /\ trail.entries["allow"] + trail.before.allow = allowed["route"]
          /\ trail.entries["deny"] + trail.before.deny = denied["route"]
      BY <1>6 DEF AuditInv, NothingPassesUnrecorded
    <3>2. /\ lines["allow"] + trail.before.passed = passed'
          /\ entries["allow"] + trail.before.allow = allowed'["route"]
          /\ entries["deny"] + trail.before.deny = denied'["route"]
      BY <1>2, <1>4, <2>2, <2>5, <2>6, <3>1
    <3> QED BY <2>4, <3>2 DEF NothingPassesUnrecorded
  <2> QED BY <1>2, <1>3, <1>6, <2>4, <2>7 DEF AuditInv
<1> QED BY <1>4, <1>5, <1>6 DEF Rulings

\* The sums of the route guard do not mind what the bridge guard counts.
LEMMA AuditInvStep == AuditInv /\ [AuthzNext]_authzVars => AuditInv'
<1> SUFFICES ASSUME AuditInv, [AuthzNext]_authzVars PROVE AuditInv'
  OBVIOUS
<1>1. ASSUME UNCHANGED counts PROVE AuditInv'
  BY <1>1 DEF counts, AuditInv, NothingPassesUnrecorded
<1>2. ASSUME NEW m \in Messages, Decide(m) PROVE AuditInv'
  <2>1. CASE GuardBridge(m)
    <3>1. /\ trail' = trail /\ passed' = passed
          /\ allowed' \in [Guards -> Nat] /\ denied' \in [Guards -> Nat]
          /\ allowed'["route"] = allowed["route"] /\ denied'["route"] = denied["route"]
      BY <2>1 DEF GuardBridge, Counted, AuditInv, Guards
    <3> QED BY <3>1 DEF AuditInv, NothingPassesUnrecorded
  <2> QED BY <1>1, <1>2, <2>1, GuardKeepsAudit DEF Decide, AskEngine
<1>3. CASE AttachAudit
  <2> DEFINE sofar == [allow |-> allowed["route"], deny |-> denied["route"], passed |-> passed]
  <2>1. /\ trail' = [trail EXCEPT !.attached = TRUE, !.before = sofar]
        /\ ~ trail.attached /\ UNCHANGED <<allowed, denied, passed>>
    BY <1>3 DEF AttachAudit
  <2>2. /\ sofar \in [allow : Nat, deny : Nat, passed : Nat]
        /\ sofar.allow = allowed["route"] /\ sofar.deny = denied["route"] /\ sofar.passed = passed
        /\ allowed["route"] \in Nat /\ denied["route"] \in Nat /\ passed \in Nat
    BY DEF AuditInv, Guards
  <2> HIDE DEF sofar
  <2>3. /\ trail' \in Trails /\ trail'.attached = TRUE /\ trail'.before = sofar
        /\ trail'.entries = trail.entries /\ trail'.lines = trail.lines
    BY <2>1, <2>2 DEF AuditInv, Trails
  <2>4. /\ trail.entries["allow"] = 0 /\ trail.entries["deny"] = 0 /\ trail.lines["allow"] = 0
    BY <2>1 DEF AuditInv, Rulings
  <2> QED BY <2>1, <2>2, <2>3, <2>4 DEF AuditInv, NothingPassesUnrecorded
<1>4. CASE Restart
  BY <1>4, BeginsUnaudited DEF Restart
<1>5. ASSUME NEW a \in Agents, NEW p, SetPolicy(a, p) PROVE AuditInv'
  BY <1>1, <1>5 DEF SetPolicy
<1>6. ASSUME NEW agents, ResetRates(agents) PROVE AuditInv'
  BY <1>1, <1>6 DEF ResetRates
<1>7. CASE Tick \/ UNCHANGED authzVars
  BY <1>1, <1>7 DEF Tick, authzVars
<1> QED
  BY <1>2, <1>3, <1>4, <1>5, <1>6, <1>7 DEF AuthzNext, RemovePolicy

AuthzSpec == AuthzInit /\ [][AuthzNext]_authzVars

\* From the moment a log is attached, no message goes through without its line in the
\* file, and no decision is without its entry, whatever else asks, fails or restarts.
THEOREM AllIsRecorded == AuthzSpec => []NothingPassesUnrecorded
<1>1. AuditInv => NothingPassesUnrecorded
  BY DEF AuditInv
<1> QED BY AuditInvInit, AuditInvStep, <1>1, PTL DEF AuthzSpec

-----------------------------------------------------------------------------
(***************************************************************************)
(* What the rate limiter promises, for any rules, limits and hour.         *)
(*                                                                         *)
(* The limiter knows times only, those of the grants it has not forgotten. *)
(* The invariant is that it has forgotten none that is within the hour, so *)
(* what it counts is what the property counts.                             *)
(***************************************************************************)

RateKeys == (Agents \cup {"unknown"}) \X (Resources \cup {"unknown"})

WithinLimit(k) ==
  \A i \in DOMAIN grants[k] :
    Cardinality({j \in 1 .. i : grants[k][j].at + Hour > grants[k][i].at}) <= grants[k][i].limit

\* The window of a key and its grants.
Remembers(k) ==
  /\ DOMAIN window[k] \subseteq DOMAIN grants[k]
  /\ \A n \in DOMAIN window[k] : window[k][n] = grants[k][n].at
  /\ \A n \in DOMAIN grants[k] : grants[k][n].at + Hour > clock => n \in DOMAIN window[k]

RatesInv ==
  /\ clock \in Nat /\ policies \in [Agents -> PolicySet \cup {None}]
  /\ window = [k \in RateKeys |-> window[k]]
  /\ grants \in [RateKeys -> Seq([at : Nat, limit : Int])]
  /\ \A k \in RateKeys : Remembers(k) /\ WithinLimit(k)

LEMMA NothingIsForgotten ==
  /\ Nothing = [k \in RateKeys |-> <<>>] /\ Nothing \in [RateKeys -> Seq([at : Nat, limit : Int])]
  /\ \A k \in RateKeys : Nothing[k] = <<>> /\ DOMAIN Nothing[k] = {}
BY DEF Nothing, RateKeys

LEMMA RatesInvInit == AuthzInit => RatesInv
BY NothingIsForgotten DEF AuthzInit, RatesInv, Remembers, WithinLimit

\* A set of natural numbers that is not empty has a least element, which First() is.
LEMMA LeastNatural ==
  ASSUME NEW T \in SUBSET Nat, T # {}
  PROVE  \E n \in T : \A m \in T : n <= m
<1> DEFINE R == OpToRel(<, Nat)
<1>1. IsWellFoundedOn(R, Nat)
  BY NatLessThanWellFounded
<1> HIDE DEF R
<1>2. PICK n \in T : \A m \in T : ~ (<<m, n>> \in R)
  BY <1>1, WFMin
<1>3. \A m \in T : m < n => <<m, n>> \in R
  BY DEF R, OpToRel
<1>4. n \in Nat
  OBVIOUS
<1>5. ASSUME NEW m \in T PROVE n <= m
  <2>1. m \in Nat /\ ~ (m < n)
    BY <1>2, <1>3
  <2> QED BY <1>4, <2>1
<1> QED BY <1>5

LEMMA FirstIsOpen ==
  ASSUME NEW rules \in PolicySet, NEW open \in SUBSET (DOMAIN rules), open # {}
  PROVE  rules[First(open)].limit \in Int
<1>1. open \in SUBSET Nat
  BY AuthorizationConstantsOK DEF AuthorizationConstantsOK
<1>2. First(open) \in open
  BY <1>1, LeastNatural DEF First
<1> QED BY <1>2, AuthorizationConstantsOK DEF AuthorizationConstantsOK

LEMMA GrantsAreTyped ==
  ASSUME RatesInv, NEW k \in RateKeys
  PROVE  /\ grants[k] \in Seq([at : Nat, limit : Int])
         /\ DOMAIN grants[k] = 1 .. Len(grants[k]) /\ Len(grants[k]) \in Nat
         /\ \A n \in 1 .. Len(grants[k]) : grants[k][n].at \in Nat
<1>1. grants[k] \in Seq([at : Nat, limit : Int])
  BY DEF RatesInv
<1>2. ASSUME NEW S, NEW s \in Seq(S), NEW n \in 1 .. Len(s) PROVE s[n] \in S
  BY <1>2
<1>3. \A n \in 1 .. Len(grants[k]) : grants[k][n] \in [at : Nat, limit : Int]
  BY <1>1, <1>2
<1> QED BY <1>1, <1>3

\* What the limiter counts are the grants of the last hour.
LEMMA RecentGrants ==
  ASSUME RatesInv, NEW k \in RateKeys
  PROVE  /\ Recent(k) = {n \in 1 .. Len(grants[k]) : grants[k][n].at + Hour > clock}
         /\ Len(grants[k]) \in Nat /\ IsFiniteSet(Recent(k)) /\ Cardinality(Recent(k)) \in Nat
<1>1. /\ grants[k] \in Seq([at : Nat, limit : Int])
      /\ DOMAIN grants[k] = 1 .. Len(grants[k]) /\ Len(grants[k]) \in Nat
  BY DEF RatesInv
<1>2. Recent(k) = {n \in 1 .. Len(grants[k]) : grants[k][n].at + Hour > clock}
  <2>1. Remembers(k)
    BY DEF RatesInv
  <2>2. ASSUME NEW n PROVE n \in Recent(k) <=> n \in DOMAIN grants[k] /\ grants[k][n].at + Hour > clock
    BY <2>1 DEF Recent, Remembers
  <2> QED BY <1>1, <2>2
<1>3. Recent(k) \in SUBSET (1 .. Len(grants[k]))
  BY <1>2
<1>4. IsFiniteSet(1 .. Len(grants[k]))
  BY <1>1, FS_Interval
<1> QED BY <1>1, <1>2, <1>3, <1>4, FS_Subset, FS_CardinalityType

\* A request that is refused takes the old times out of the window.
LEMMA RefusedKeeps ==
  ASSUME RatesInv, NEW k \in RateKeys, clock' = clock, policies' = policies, grants' = grants,
         window' = [window EXCEPT ![k] = [n \in Recent(k) |-> window[k][n]]]
  PROVE  RatesInv'
<1>1. ASSUME NEW l \in RateKeys PROVE Remembers(l)' /\ WithinLimit(l)'
  <2>1. Remembers(l) /\ WithinLimit(l)
    BY DEF RatesInv
  <2>2. CASE l # k
    <3>1. window'[l] = window[l]
      BY <2>2 DEF RatesInv
    <3> QED BY <2>1, <3>1 DEF Remembers, WithinLimit
  <2>3. CASE l = k
    <3>1. window'[l] = [n \in Recent(l) |-> window[l][n]]
      BY <2>3 DEF RatesInv
    <3>2. Remembers(l)'
      BY <2>1, <3>1 DEF Remembers, Recent
    <3> QED BY <2>1, <3>2 DEF WithinLimit
  <2> QED BY <2>2, <2>3
<1> QED BY <1>1 DEF RatesInv

\* One that is granted was the limit's last at most.
LEMMA GrantedKeeps ==
  ASSUME RatesInv, NEW k \in RateKeys, NEW limit \in Int, clock' = clock, policies' = policies,
         Cardinality(Recent(k)) < limit, Metered(k, limit, "allow")
  PROVE  RatesInv'
<1> DEFINE number == Len(grants[k]) + 1  new == [at |-> clock, limit |-> limit]
           more == Append(grants[k], new)  kept == Recent(k) \cup {number}
<1>1. /\ grants[k] \in Seq([at : Nat, limit : Int]) /\ Len(grants[k]) \in Nat
      /\ new \in [at : Nat, limit : Int] /\ clock \in Nat /\ Hour \in Nat \ {0}
  BY AuthorizationConstantsOK DEF RatesInv, AuthorizationConstantsOK
<1>2. /\ more \in Seq([at : Nat, limit : Int]) /\ DOMAIN more = 1 .. number /\ Len(more) = number
      /\ more[number] = new /\ \A n \in 1 .. Len(grants[k]) : more[n] = grants[k][n]
  BY <1>1
<1>3. /\ grants' = [grants EXCEPT ![k] = more]
      /\ window' = [window EXCEPT ![k] =
                      [n \in kept |-> IF n = number THEN clock ELSE window[k][n]]]
  BY DEF Metered
<1>4. new.at = clock /\ new.limit = limit
  OBVIOUS
<1> HIDE DEF new, more
<1>4a. \A n \in 1 .. Len(grants[k]) : grants[k][n].at \in Nat /\ more[n].at = grants[k][n].at
  BY <1>2, GrantsAreTyped
<1>5. /\ grants' \in [RateKeys -> Seq([at : Nat, limit : Int])] /\ grants'[k] = more
      /\ window' = [l \in RateKeys |-> window'[l]]
      /\ window'[k] = [n \in kept |-> IF n = number THEN clock ELSE window[k][n]]
      /\ \A l \in RateKeys \ {k} : grants'[l] = grants[l] /\ window'[l] = window[l]
  BY <1>2, <1>3 DEF RatesInv
<1>6. Remembers(k) /\ WithinLimit(k)
  BY DEF RatesInv
<1>7. Recent(k) = {n \in 1 .. Len(grants[k]) : grants[k][n].at + Hour > clock}
  BY RecentGrants
<1>8. number \notin Recent(k) /\ number \in Nat
  BY <1>1, <1>7
<1>9. Remembers(k)'
  <2>1. ASSUME NEW n \in kept PROVE n \in 1 .. number /\ window'[k][n] = more[n].at
    <3>1. CASE n = number
      BY <1>1, <1>2, <1>4, <1>5, <3>1
    <3>2. CASE n # number
      <4>1. n \in Recent(k) /\ n \in 1 .. Len(grants[k])
        BY <1>7, <2>1, <3>2
      <4>2. window[k][n] = grants[k][n].at
        BY <1>6, <4>1 DEF Remembers, Recent
      <4> QED BY <1>4a, <1>1, <1>5, <3>2, <4>1, <4>2
    <3> QED BY <3>1, <3>2
  <2>2. ASSUME NEW n \in 1 .. number, more[n].at + Hour > clock PROVE n \in kept
    <3>1. CASE n = number
      BY <3>1
    <3>2. CASE n # number
      <4>1. n \in 1 .. Len(grants[k])
        BY <1>1, <3>2
      <4> QED BY <1>4a, <1>7, <2>2, <4>1
    <3> QED BY <3>1, <3>2
  <2>3. DOMAIN window'[k] = kept
    BY <1>5
  <2> QED BY <1>2, <1>5, <2>1, <2>2, <2>3 DEF Remembers
<1>10. WithinLimit(k)'
  <2>1. ASSUME NEW i \in 1 .. number
        PROVE  Cardinality({j \in 1 .. i : more[j].at + Hour > more[i].at}) <= more[i].limit
    <3>1. CASE i = number
      <4>1. {j \in 1 .. i : more[j].at + Hour > more[i].at} = kept
        <5>1. ASSUME NEW j \in 1 .. number
              PROVE  more[j].at + Hour > more[number].at <=> j \in kept
          <6>1. CASE j = number
            BY <1>1, <1>2, <1>4, <6>1
          <6>2. CASE j # number
            <7>1. j \in 1 .. Len(grants[k])
              BY <1>1, <6>2
            <7>2. more[number].at = clock
              BY <1>2, <1>4
            <7> QED BY <1>4a, <1>7, <6>2, <7>1, <7>2
          <6> QED BY <6>1, <6>2
        <5>2. kept \subseteq 1 .. number
          BY <1>1, <1>7
        <5> QED BY <3>1, <5>1, <5>2
      <4>2. Cardinality(kept) = Cardinality(Recent(k)) + 1
        BY <1>8, RecentGrants, FS_AddElement
      <4>3. Cardinality(Recent(k)) \in Nat
        BY RecentGrants
      <4>4. more[i].limit = limit
        BY <1>2, <1>4, <3>1
      <4> DEFINE size == Cardinality(Recent(k))
      <4>5. size \in Nat /\ size < limit
        BY <4>3
      <4> HIDE DEF size
      <4>6. size + 1 <= limit
        BY <4>5
      <4> QED BY <4>1, <4>2, <4>4, <4>6 DEF size
    <3>2. CASE i # number
      <4>1. i \in 1 .. Len(grants[k]) /\ more[i] = grants[k][i]
        <5>1. i \in 1 .. Len(grants[k])
          BY <1>1, <3>2
        <5> QED BY <1>2, <5>1
      <4>2. {j \in 1 .. i : more[j].at + Hour > more[i].at}
              = {j \in 1 .. i : grants[k][j].at + Hour > grants[k][i].at}
        <5>1. \A j \in 1 .. i : j \in 1 .. Len(grants[k])
          BY <1>1, <4>1
        <5>2. \A j \in 1 .. i : more[j].at = grants[k][j].at
          BY <1>4a, <5>1
        <5> QED BY <4>1, <5>2
      <4>3. i \in DOMAIN grants[k]
        BY <1>1, <4>1
      <4> QED BY <1>6, <4>1, <4>2, <4>3 DEF WithinLimit
    <3> QED BY <3>1, <3>2
  <2> QED BY <1>2, <1>5, <2>1 DEF WithinLimit
<1>11. ASSUME NEW l \in RateKeys, l # k PROVE Remembers(l)' /\ WithinLimit(l)'
  <2>1. Remembers(l) /\ WithinLimit(l) /\ grants'[l] = grants[l] /\ window'[l] = window[l]
    BY <1>5, <1>11 DEF RatesInv
  <2> QED BY <2>1 DEF Remembers, WithinLimit
<1> QED BY <1>5, <1>9, <1>10, <1>11 DEF RatesInv

\* A key that nobody has a window for has none afterwards.
LEMMA MeterKeeps ==
  ASSUME RatesInv, NEW key, NEW limit \in Int, NEW verdict, clock' = clock, policies' = policies,
         Meter(key, limit, verdict)
  PROVE  RatesInv'
<1>1. CASE key \notin RateKeys
  <2>1. window' = window /\ grants' = grants
    BY <1>1 DEF Meter, Metered, RatesInv
  <2> QED BY <2>1 DEF RatesInv, Remembers, WithinLimit
<1>2. CASE key \in RateKeys /\ Cardinality(Recent(key)) >= limit
  <2>1. verdict = "deny"
    BY <1>2 DEF Meter
  <2>2. /\ grants' = grants
        /\ window' = [window EXCEPT ![key] = [n \in Recent(key) |-> window[key][n]]]
    <3>1. Len(grants[key]) + 1 \notin Recent(key)
      BY <1>2, RecentGrants
    <3> QED BY <2>1, <3>1 DEF Meter, Metered
  <2> QED BY <1>2, <2>2, RefusedKeeps
<1>3. CASE key \in RateKeys /\ ~ (Cardinality(Recent(key)) >= limit)
  <2>1. Cardinality(Recent(key)) < limit /\ verdict = "allow"
    BY <1>3, RecentGrants DEF Meter
  <2> QED BY <1>3, <2>1, GrantedKeeps DEF Meter
<1> QED BY <1>1, <1>2, <1>3

LEMMA AuthorizeKeeps ==
  ASSUME RatesInv, NEW m, NEW verdict, clock' = clock, policies' = policies,
         Authorize(m, verdict)
  PROVE  RatesInv'
<1>1. CASE UNCHANGED <<window, grants>>
  BY <1>1 DEF RatesInv, Remembers, WithinLimit
<1>2. CASE ~ UNCHANGED <<window, grants>>
  <2> DEFINE rules == IF AgentOf(m) \in Agents THEN policies[AgentOf(m)] ELSE None
             open  == IF rules = None THEN {}
                      ELSE {i \in DOMAIN rules : /\ Covers(rules[i], m) /\ InHours(rules[i])
                                                 /\ Conditions(rules[i], m) # "unmet"}
             limit == rules[First(open)].limit
             found == IF open = {} THEN "unmet" ELSE Conditions(rules[First(open)], m)
  <2>1. open # {} /\ Meter(<<AgentOf(m), ResourceOf(m)>>, limit, verdict)
    <3>1. found = "met" /\ Meter(<<AgentOf(m), ResourceOf(m)>>, limit, verdict)
      BY <1>2 DEF Authorize
    <3> QED BY <3>1
  <2>2. rules \in PolicySet /\ open \in SUBSET (DOMAIN rules)
    BY <2>1 DEF RatesInv
  <2> HIDE DEF rules, open
  <2>3. limit \in Int
    BY <2>1, <2>2, FirstIsOpen
  <2> HIDE DEF limit
  <2> QED BY <2>1, <2>3, MeterKeeps
<1> QED BY <1>1, <1>2

LEMMA RatesInvStep == RatesInv /\ [AuthzNext]_authzVars => RatesInv'
<1> SUFFICES ASSUME RatesInv, [AuthzNext]_authzVars PROVE RatesInv'
  OBVIOUS
<1>1. ASSUME NEW m \in Messages, Decide(m) PROVE RatesInv'
  <2>1. clock' = clock /\ policies' = policies
    BY <1>1 DEF Decide
  <2>2. (\E v \in {"allow", "deny", "raise"} : Authorize(m, v)) \/ UNCHANGED <<window, grants>>
    BY <1>1 DEF Decide, AskEngine, GuardBridge, GuardRoute, Judge
  <2>3. CASE UNCHANGED <<window, grants>>
    BY <2>1, <2>3 DEF RatesInv, Remembers, WithinLimit
  <2> QED BY <2>1, <2>2, <2>3, AuthorizeKeeps
<1>2. ASSUME NEW a \in Agents, NEW p \in PolicySet \cup {None}, SetPolicy(a, p) PROVE RatesInv'
  BY <1>2 DEF SetPolicy, RatesInv, Remembers, WithinLimit
<1>3. ASSUME NEW agents, ResetRates(agents) PROVE RatesInv'
  <2>1. /\ window' = [k \in RateKeys |-> IF k[1] \in agents THEN <<>> ELSE window[k]]
        /\ grants' = [k \in RateKeys |-> IF k[1] \in agents THEN <<>> ELSE grants[k]]
    BY <1>3 DEF ResetRates, RatesInv
  <2>1a. ASSUME NEW k \in RateKeys
        PROVE  \/ window'[k] = window[k] /\ grants'[k] = grants[k]
               \/ window'[k] = <<>> /\ grants'[k] = <<>>
    <3>1. CASE k[1] \in agents
      BY <2>1, <3>1
    <3>2. CASE k[1] \notin agents
      BY <2>1, <3>2
    <3> QED BY <3>1, <3>2
  <2>2. /\ clock' = clock /\ policies' = policies /\ window' = [k \in RateKeys |-> window'[k]]
        /\ grants' \in [RateKeys -> Seq([at : Nat, limit : Int])]
    BY <1>3 DEF ResetRates, RatesInv
  <2>3. ASSUME NEW k \in RateKeys PROVE Remembers(k)' /\ WithinLimit(k)'
    <3>1. CASE window'[k] = window[k] /\ grants'[k] = grants[k]
      BY <2>2, <3>1 DEF RatesInv, Remembers, WithinLimit
    <3>2. CASE window'[k] = <<>> /\ grants'[k] = <<>>
      BY <3>2 DEF Remembers, WithinLimit
    <3> QED BY <2>1a, <3>1, <3>2
  <2> QED BY <2>2, <2>3 DEF RatesInv
<1>4. CASE Restart
  <2>1. policies' \in [Agents -> PolicySet \cup {None}] /\ clock' \in Nat
    BY <1>4 DEF Restart, RatesInv
  <2> QED BY <1>4, <2>1, NothingIsForgotten DEF Restart, RatesInv, Remembers, WithinLimit
<1>5. CASE Tick
  <2>1. clock \in Nat /\ clock' = clock + 1 /\ UNCHANGED <<policies, window, grants>>
    BY <1>5 DEF Tick, RatesInv
  <2>2. ASSUME NEW k \in RateKeys PROVE Remembers(k)' /\ WithinLimit(k)'
    <3>1. Remembers(k) /\ WithinLimit(k) /\ grants[k] \in Seq([at : Nat, limit : Int])
      BY DEF RatesInv
    <3>2. \A n \in DOMAIN grants[k] : grants[k][n].at \in Nat
      BY GrantsAreTyped
    <3>3. \A n \in DOMAIN grants[k] : grants[k][n].at + Hour > clock + 1 => grants[k][n].at + Hour > clock
      BY <2>1, <3>2, AuthorizationConstantsOK DEF AuthorizationConstantsOK
    <3> QED BY <2>1, <3>1, <3>3 DEF Remembers, WithinLimit
  <2> QED BY <2>1, <2>2 DEF RatesInv
<1>6. CASE AttachAudit \/ UNCHANGED authzVars
  BY <1>6 DEF AttachAudit, authzVars, RatesInv, Remembers, WithinLimit
<1> QED
  BY <1>1, <1>2, <1>3, <1>4, <1>5, <1>6 DEF AuthzNext, RemovePolicy

\* No agent gets more rated grants on a resource within an hour than the limit under
\* which the last was given, whichever rules, guards and changes of policy it came by.
THEOREM HourIsLimited == AuthzSpec => []NoHourExceedsTheLimit
<1>1. RatesInv => NoHourExceedsTheLimit
  BY DEF RatesInv, WithinLimit, NoHourExceedsTheLimit
<1> QED BY RatesInvInit, RatesInvStep, <1>1, PTL DEF AuthzSpec

-----------------------------------------------------------------------------
(***************************************************************************)
(* The types of the engine and its guards, on top of the two invariants    *)
(* above: a time in a window is not after the clock, and a decision is     *)
(* counted once at most.                                                   *)
(***************************************************************************)

TimesPassed == \A k \in RateKeys : \A n \in DOMAIN window[k] : window[k][n] \in 0 .. clock

DecisionsCounted ==
  /\ asked \in 0 .. MaxAsked /\ passed <= asked
  /\ \A g \in Guards : allowed[g] + denied[g] <= asked

AuthzInv ==
  /\ AuditInv /\ RatesInv /\ durable \in BOOLEAN /\ clock <= MaxTime
  /\ TimesPassed /\ DecisionsCounted

LEMMA AuthzBounds == MaxTime \in Nat /\ MaxAsked \in Nat
BY AuthorizationConstantsOK DEF AuthorizationConstantsOK

\* A decision leaves old times in the window of its key, and may add the present.
LEMMA AuthorizedTimes ==
  ASSUME RatesInv, TimesPassed, clock' = clock, NEW m, NEW verdict,
         Authorize(m, verdict) \/ UNCHANGED <<window, grants>>
  PROVE  TimesPassed'
<1>1. CASE window' = window
  BY <1>1 DEF TimesPassed
<1>2. CASE window' # window
  <2>1. PICK key, limit : Metered(key, limit, verdict)
    BY <1>2 DEF Authorize, Meter
  <2> DEFINE number == Len(grants[key]) + 1
             kept == IF verdict = "allow" THEN Recent(key) \cup {number} ELSE Recent(key)
             times == [n \in kept |-> IF n = number THEN clock ELSE window[key][n]]
  <2>2. window' = [window EXCEPT ![key] = times]
    BY <2>1 DEF Metered
  <2>3. \A n \in DOMAIN times : n = number \/ n \in DOMAIN window[key]
    BY DEF Recent
  <2>4. \A n \in DOMAIN times : times[n] = IF n = number THEN clock ELSE window[key][n]
    OBVIOUS
  <2> HIDE DEF times, number
  <2>5. ASSUME NEW k \in RateKeys, NEW n \in DOMAIN window'[k] PROVE window'[k][n] \in 0 .. clock
    <3>1. clock \in Nat
      BY DEF RatesInv
    <3>2. CASE k = key
      <4>1. window'[k] = times
        BY <2>2, <3>2 DEF RatesInv
      <4>2. n \in DOMAIN times /\ window'[k][n] = times[n]
        BY <2>5, <4>1
      <4> QED BY <2>3, <2>4, <3>1, <3>2, <4>2 DEF TimesPassed
    <3>3. CASE k # key
      <4>1. window'[k] = window[k]
        BY <2>2, <3>3 DEF RatesInv
      <4> QED BY <2>5, <4>1 DEF TimesPassed
    <3> QED BY <3>2, <3>3
  <2> QED BY <2>5 DEF TimesPassed
<1> QED BY <1>1, <1>2

\* A guard counts what it decides, the engine alone nothing.
LEMMA DecidedOnce ==
  ASSUME AuditInv, DecisionsCounted, NEW m, Decide(m) PROVE DecisionsCounted'
<1>1. asked' = asked + 1 /\ asked' \in 0 .. MaxAsked /\ asked \in Nat
  BY AuthzBounds DEF Decide, DecisionsCounted
<1>2. /\ passed \in Nat /\ passed <= asked
      /\ \A g \in Guards : allowed[g] \in Nat /\ denied[g] \in Nat /\ allowed[g] + denied[g] <= asked
  BY DEF AuditInv, DecisionsCounted
<1>3. CASE UNCHANGED counts
  BY <1>1, <1>2, <1>3 DEF counts, DecisionsCounted
<1>4. ASSUME NEW g \in Guards, NEW verdict \in {"allow", "deny", "raise"}, Counted(g, verdict),
             passed' \in {passed, passed + 1}
      PROVE  DecisionsCounted'
  <2>1. ASSUME NEW h \in Guards PROVE allowed'[h] + denied'[h] <= asked'
    <3>1. /\ allowed'[h] = IF h = g /\ verdict = "allow" THEN allowed[h] + 1 ELSE allowed[h]
          /\ denied'[h] = IF h = g /\ verdict = "deny" THEN denied[h] + 1 ELSE denied[h]
      BY <1>4 DEF Counted, AuditInv
    <3> QED BY <1>1, <1>2, <3>1
  <2>2. passed' <= asked'
    BY <1>1, <1>2, <1>4
  <2> QED BY <1>1, <2>1, <2>2 DEF DecisionsCounted
<1>5. CASE GuardBridge(m)
  BY <1>4, <1>5 DEF GuardBridge, Guards
<1>6. CASE GuardRoute(m)
  <2>1. PICK verdict \in {"allow", "deny", "raise"} :
          Counted("route", verdict) /\ passed' \in {passed, passed + 1}
    BY <1>6 DEF GuardRoute
  <2> QED BY <1>4, <2>1 DEF Guards
<1> QED BY <1>3, <1>5, <1>6 DEF Decide, AskEngine

LEMMA AuthzInvInit == AuthzInit => AuthzInv
<1> SUFFICES ASSUME AuthzInit PROVE AuthzInv
  OBVIOUS
<1>1. TimesPassed
  BY NothingIsForgotten DEF AuthzInit, TimesPassed
<1>2. DecisionsCounted
  BY AuthzBounds DEF AuthzInit, DecisionsCounted
<1> QED
  BY <1>1, <1>2, AuditInvInit, RatesInvInit, AuthzBounds DEF AuthzInit, AuthzInv

LEMMA AuthzInvStep == AuthzInv /\ [AuthzNext]_authzVars => AuthzInv'
<1> SUFFICES ASSUME AuthzInv, [AuthzNext]_authzVars PROVE AuthzInv'
  OBVIOUS
<1>1. AuditInv /\ RatesInv /\ TimesPassed /\ DecisionsCounted /\ AuditInv' /\ RatesInv'
  BY AuditInvStep, RatesInvStep DEF AuthzInv
<1>2. ASSUME UNCHANGED <<asked, passed, allowed, denied>> PROVE DecisionsCounted'
  BY <1>1, <1>2 DEF DecisionsCounted
<1>3. ASSUME UNCHANGED <<clock, window>> PROVE TimesPassed'
  BY <1>1, <1>3 DEF TimesPassed
<1>4. ASSUME NEW m \in Messages, Decide(m) PROVE AuthzInv'
  <2>1. DecisionsCounted'
    BY <1>1, <1>4, DecidedOnce
  <2>2. /\ clock' = clock /\ durable' = durable
        /\ (\E v \in {"allow", "deny", "raise"} : Authorize(m, v)) \/ UNCHANGED <<window, grants>>
    BY <1>4 DEF Decide, AskEngine, GuardBridge, GuardRoute, Judge
  <2>3. TimesPassed'
    BY <1>1, <2>2, AuthorizedTimes
  <2> QED BY <1>1, <2>1, <2>2, <2>3 DEF AuthzInv
<1>5. ASSUME NEW a, NEW p, SetPolicy(a, p) PROVE AuthzInv'
  BY <1>1, <1>2, <1>3, <1>5 DEF SetPolicy, counts, AuthzInv
<1>6. ASSUME NEW agents, ResetRates(agents) PROVE AuthzInv'
  <2>1. window' = [k \in RateKeys |-> IF k[1] \in agents THEN <<>> ELSE window[k]]
    BY <1>1, <1>6 DEF ResetRates, RatesInv
  <2>2. ASSUME NEW k \in RateKeys PROVE window'[k] = window[k] \/ window'[k] = <<>>
    <3>1. CASE k[1] \in agents
      BY <2>1, <3>1
    <3>2. CASE k[1] \notin agents
      BY <2>1, <3>2
    <3> QED BY <3>1, <3>2
  <2>3. TimesPassed'
    BY <1>1, <1>6, <2>2 DEF ResetRates, TimesPassed
  <2> QED BY <1>1, <1>2, <1>6, <2>3 DEF ResetRates, counts, AuthzInv
<1>7. CASE Restart
  <2>1. TimesPassed'
    BY <1>7, NothingIsForgotten DEF Restart, TimesPassed
  <2>2. DecisionsCounted'
    BY <1>1, <1>7 DEF Restart, DecisionsCounted
  <2> QED BY <1>1, <1>7, <2>1, <2>2 DEF Restart, AuthzInv
<1>8. CASE Tick
  <2>1. clock \in Nat /\ clock < MaxTime /\ clock' = clock + 1 /\ MaxTime \in Nat
    BY <1>1, <1>8, AuthzBounds DEF Tick, RatesInv
  <2>2. TimesPassed'
    BY <1>1, <1>8, <2>1 DEF Tick, TimesPassed
  <2> QED BY <1>1, <1>2, <1>8, <2>1, <2>2 DEF Tick, counts, AuthzInv
<1>9. CASE AttachAudit \/ UNCHANGED authzVars
  BY <1>1, <1>2, <1>3, <1>9 DEF AttachAudit, authzVars, counts, AuthzInv
<1> QED BY <1>4, <1>5, <1>6, <1>7, <1>8, <1>9 DEF AuthzNext, RemovePolicy

\* No time in a window is ahead of the clock, no guard counts more decisions than were
\* asked for, and no more messages pass than that.
THEOREM AuthzTypeCorrect == AuthzSpec => []AuthzTypeOK
<1>1. AuthzInv => AuthzTypeOK
  <2> SUFFICES ASSUME AuthzInv PROVE AuthzTypeOK
    OBVIOUS
  <2>1. DOMAIN window = RateKeys /\ clock \in 0 .. MaxTime /\ passed \in 0 .. MaxAsked
    BY AuthzBounds DEF AuthzInv, RatesInv, AuditInv, DecisionsCounted
  <2> QED
    BY <2>1 DEF AuthzInv, AuthzTypeOK, RatesInv, TimesPassed, DecisionsCounted
<1> QED BY AuthzInvInit, AuthzInvStep, <1>1, PTL DEF AuthzSpec
=============================================================================

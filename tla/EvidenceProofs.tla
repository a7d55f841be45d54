--------------------------- MODULE EvidenceProofs ---------------------------
(***************************************************************************)
(* Proofs about an incident's evidence: the exposure profiles combined     *)
(* from its classified values (ExposureProfiles), for any workers, alerts, *)
(* categories and versions of the rules; and the evidence files            *)
(* (EvidenceFiles), for any workers, samples, uploads and contents.        *)
(***************************************************************************)
EXTENDS Integers, EvidenceOfIncident, FiniteSetTheorems, SequenceTheorems,
        WellFoundedInduction, TLAPS

-----------------------------------------------------------------------------
(* Exposure profiles: the shapes *)

\* The rules and the taxonomy are files, so they are finite; nothing is called None.
ExposureInputs ==
    /\ 1 \in Exposures!Versions /\ \A v \in Exposures!Versions : IsFiniteSet(DOMAIN Rules[v])
    /\ IsFiniteSet(Categories)
    /\ None \notin Workers \cup LiveAlerts \cup {"classify", "link", "recalculate", "commit"}

Kinds == {"evidence", "event"}
Groups == (Kinds \X Nat) \cup ({"row"} \X Nat \X Nat)
RowSet == [category : Categories,
           key : (Kinds \X Nat \X Categories) \cup ({"live"} \X Categories),
           alert : LiveAlerts \cup {None}, group : Groups, seen : Nat, outside : BOOLEAN]
KeySet == [rule : UNION {DOMAIN Rules[v] : v \in Exposures!Versions}, group : Groups,
           ids : SUBSET Nat, version : Exposures!Versions]
ProfileSet == [key : KeySet, current : BOOLEAN, superseded : Nat,
               review : {"pending", "accepted", "rejected"}]

\* The model counts with the standard library's operator.
LEMMA SameCardinality ==
    \A S : Exposures!Cardinality(S) = Cardinality(S)
BY DEF Exposures!Cardinality, Cardinality, Exposures!IsFiniteSet, IsFiniteSet

\* A set in some order.
LEMMA SetInOrder ==
    ASSUME NEW S, IsFiniteSet(S)
    PROVE  /\ Exposures!SetToSeq(S) \in Seq(S)
           /\ \A x \in S : \E n \in 1..Len(Exposures!SetToSeq(S)) : Exposures!SetToSeq(S)[n] = x
<1>1. PICK n \in Nat : n = Cardinality(S) /\ ExistsBijection(1..n, S)
    BY FS_CardinalityType
<1>2. PICK f \in [1..n -> S] : f \in Bijection(1..n, S)
    BY <1>1 DEF ExistsBijection, Bijection, Injection
<1>3. Exposures!IsInjective(f) /\ Exposures!Cardinality(S) = n
    BY <1>1, <1>2, SameCardinality
       DEF Bijection, Injection, IsInjective, Exposures!IsInjective
<1>4. PICK g : g = Exposures!SetToSeq(S)
    OBVIOUS
<1>5. g \in [1..n -> S] /\ Exposures!IsInjective(g)
    BY <1>1, <1>3, <1>4 DEF Exposures!SetToSeq
<1>6. g \in Injection(1..n, S)
    BY <1>5 DEF Injection, IsInjective, Exposures!IsInjective
<1>7. IsFiniteSet(1..n) /\ Cardinality(1..n) = n
    BY <1>1, FS_Interval
<1>8. g \in Surjection(1..n, S)
    BY <1>1, <1>6, <1>7, FS_Injection
<1>9. g \in Seq(S) /\ Len(g) = n
    BY <1>5
<1>10. \A x \in S : \E i \in 1..n : g[i] = x
    BY <1>8 DEF Surjection
<1>. QED
    BY <1>4, <1>9, <1>10

\* The profiles after a recalculation: each candidate has one and is current, whoever gave
\* way points to one that took over, the others are as they were.
LEMMA AfterRecalculation ==
    ASSUME profiles \in Seq(ProfileSet), NEW C \in SUBSET KeySet, IsFiniteSet(C)
    PROVE  /\ Exposures!Recalculated(C) \in Seq(ProfileSet)
           /\ Len(profiles) <= Len(Exposures!Recalculated(C))
           /\ \A k \in C : \E n \in 1..Len(Exposures!Recalculated(C)) :
                  Exposures!Recalculated(C)[n].key = k
           /\ \A n \in 1..Len(Exposures!Recalculated(C)) :
                 /\ Exposures!Recalculated(C)[n].current
                        <=> Exposures!Recalculated(C)[n].key \in C
                 /\ Exposures!Recalculated(C)[n].key \in C
                        => Exposures!Recalculated(C)[n].superseded = 0
           /\ \A n \in 1..Len(profiles) : Exposures!Recalculated(C)[n].key = profiles[n].key
           /\ \A n \in 1..Len(Exposures!Recalculated(C)) :
                  Exposures!Recalculated(C)[n].key \notin C =>
                 /\ n \in 1..Len(profiles)
                 /\ ~ profiles[n].current
                        => Exposures!Recalculated(C)[n].superseded = profiles[n].superseded
                 /\ profiles[n].current =>
                       \/ Exposures!Recalculated(C)[n].superseded = 0
                       \/ /\ Exposures!Recalculated(C)[n].superseded
                                 \in 1..Len(Exposures!Recalculated(C))
                          /\ Exposures!Recalculated(C)[Exposures!Recalculated(C)[n].superseded].key
                                \in C
                          /\ Exposures!Logical(Exposures!Recalculated(C)[
                                Exposures!Recalculated(C)[n].superseded].key)
                                = Exposures!Logical(Exposures!Recalculated(C)[n].key)
<1> DEFINE S == C \ {profiles[n].key : n \in DOMAIN profiles}
           fresh == Exposures!SetToSeq(S)
           new == [n \in DOMAIN fresh |->
                 [key |-> fresh[n], current |-> FALSE, superseded |-> 0, review |-> "pending"]]
           all == profiles \o new
           Heirs(n) == {m \in DOMAIN all : /\ all[m].key \in C
                                           /\ Exposures!Logical(all[m].key)
                                                  = Exposures!Logical(all[n].key)}
           R == Exposures!Recalculated(C)
<1>1. R = [n \in DOMAIN all |->
           CASE all[n].key \in C ->
                  [all[n] EXCEPT !.current = TRUE, !.superseded = 0]
             [] all[n].key \notin C /\ all[n].current ->
                  [all[n] EXCEPT !.current = FALSE,
                                 !.superseded = IF Heirs(n) = {} THEN 0
                                                ELSE CHOOSE m \in Heirs(n) : TRUE]
             [] OTHER -> all[n]]
    BY DEF Exposures!Recalculated
<1>2. /\ fresh \in Seq(S) /\ \A x \in S : \E n \in 1..Len(fresh) : fresh[n] = x
    <2>1. IsFiniteSet(S)
        BY FS_Subset
    <2>. QED
        BY <2>1, SetInOrder
<1> HIDE DEF fresh
<1>3. /\ new \in Seq(ProfileSet) /\ Len(new) = Len(fresh)
      /\ \A n \in 1..Len(fresh) : new[n].key = fresh[n] /\ fresh[n] \in S
    <2>1. PICK q \in Nat : q = Len(fresh)
        BY <1>2
    <2>2. DOMAIN fresh = 1..q /\ \A n \in 1..q : fresh[n] \in S /\ fresh[n] \in KeySet
        BY <1>2, <2>1
    <2>3. \A n \in 1..q : /\ new[n] = [key |-> fresh[n], current |-> FALSE, superseded |-> 0,
                                        review |-> "pending"]
                           /\ new[n].key = fresh[n] /\ new[n] \in ProfileSet
        BY <2>2 DEF ProfileSet
    <2>4. new \in [1..q -> ProfileSet]
        BY <2>2, <2>3
    <2>5. new \in Seq(ProfileSet) /\ Len(new) = q
        BY <2>1, <2>4
    <2>. QED
        BY <2>1, <2>2, <2>3, <2>5
<1> HIDE DEF new, S
<1>4. PICK o \in Nat, p \in Nat : o = Len(profiles) /\ p = Len(new)
    BY <1>3
<1>5. /\ all \in Seq(ProfileSet) /\ Len(all) = o + p
      /\ \A i \in 1..o + p : all[i] = IF i <= o THEN profiles[i] ELSE new[i - o]
    <2>1. /\ profiles \o new \in Seq(ProfileSet)
          /\ Len(profiles \o new) = Len(profiles) + Len(new)
          /\ \A i \in 1..Len(profiles) + Len(new) :
                (profiles \o new)[i] = IF i <= Len(profiles) THEN profiles[i]
                                       ELSE new[i - Len(profiles)]
        BY <1>3, ConcatProperties, ZenonT(60)
    <2>. QED
        BY <1>4, <2>1, Zenon
<1> HIDE DEF all
<1>6. /\ DOMAIN all = 1..o + p /\ o <= o + p
      /\ \A i \in 1..o + p : all[i] \in ProfileSet
      /\ \A i \in 1..o : all[i] = profiles[i] /\ i \in 1..o + p
      /\ \A i \in 1..o + p : i \notin 1..o => all[i].key \in C
    <2>1. ASSUME NEW i \in 1..o + p, i \notin 1..o
          PROVE  all[i].key \in C
        <3>1. i - o \in 1..p /\ all[i] = new[i - o]
            BY <1>4, <1>5, <2>1
        <3>. QED
            BY <1>3, <1>4, <3>1 DEF S
    <2>. QED
        BY <1>4, <1>5, <2>1
<1>7. \A k \in C : \E n \in 1..o + p : all[n].key = k
    <2>1. ASSUME NEW k \in C PROVE \E n \in 1..o + p : all[n].key = k
        <3>1. CASE \E n \in 1..o : profiles[n].key = k
            BY <1>6, <3>1
        <3>2. CASE ~ \E n \in 1..o : profiles[n].key = k
            <4>1. k \in S
                BY <1>4, <3>2 DEF S
            <4>2. PICK n \in 1..p : new[n].key = k
                BY <1>2, <1>3, <1>4, <4>1
            <4>3. o + n \in 1..o + p /\ ~ (o + n <= o) /\ (o + n) - o = n
                BY <1>4
            <4>. QED
                BY <1>5, <4>2, <4>3
        <3>. QED
            BY <3>1, <3>2
    <2>. QED
        BY <2>1
<1> DEFINE Heir(n) == IF Heirs(n) = {} THEN 0 ELSE CHOOSE m \in Heirs(n) : TRUE
<1>8. \A n \in 1..o + p : Heir(n) = 0 \/ Heir(n) \in Heirs(n)
    OBVIOUS
<1>9. \A n \in 1..o + p : Heir(n) \in Nat
    BY <1>4, <1>6, <1>8
<1>10. /\ R = [n \in 1..o + p |-> R[n]]
       /\ \A n \in 1..o + p :
             /\ all[n].key \in C => R[n] = [all[n] EXCEPT !.current = TRUE, !.superseded = 0]
             /\ all[n].key \notin C /\ all[n].current =>
                   R[n] = [all[n] EXCEPT !.current = FALSE, !.superseded = Heir(n)]
             /\ all[n].key \notin C /\ ~ all[n].current => R[n] = all[n]
    BY <1>1, <1>6
<1> HIDE DEF R
<1>11. \A n \in 1..o + p : Heir(n) = 0 \/ (/\ Heir(n) \in 1..o + p /\ all[Heir(n)].key \in C
                                        /\ Exposures!Logical(all[Heir(n)].key)
                                               = Exposures!Logical(all[n].key))
    BY <1>6, <1>8
<1> HIDE DEF Heir, Heirs
<1>12. \A n \in 1..o + p :
          /\ R[n] \in ProfileSet /\ R[n].key = all[n].key
          /\ R[n].current <=> all[n].key \in C
          /\ all[n].key \in C => R[n].superseded = 0
          /\ all[n].key \notin C /\ all[n].current => R[n].superseded = Heir(n)
          /\ all[n].key \notin C /\ ~ all[n].current => R[n].superseded = all[n].superseded
    <2>1. ASSUME NEW n \in 1..o + p
          PROVE  /\ R[n] \in ProfileSet /\ R[n].key = all[n].key
                 /\ R[n].current <=> all[n].key \in C
                 /\ all[n].key \in C => R[n].superseded = 0
                 /\ all[n].key \notin C /\ all[n].current => R[n].superseded = Heir(n)
                 /\ all[n].key \notin C /\ ~ all[n].current =>
                       R[n].superseded = all[n].superseded
        <3>1. all[n] \in ProfileSet /\ Heir(n) \in Nat
            BY <1>6, <1>9
        <3>2. CASE all[n].key \in C
            <4>1. PICK q \in ProfileSet : q = all[n]
                BY <3>1, SMTT(30)
            <4>2. R[n] = [q EXCEPT !.current = TRUE, !.superseded = 0]
                BY <1>10, <3>2, <4>1
            <4>4. PICK z \in Nat, yes \in BOOLEAN : z = 0 /\ yes = TRUE
                OBVIOUS
            <4>5. R[n] = [q EXCEPT !.current = yes, !.superseded = z]
                BY <4>2, <4>4
            <4>6. R[n] \in ProfileSet /\ R[n].key = q.key /\ R[n].current = yes
                  /\ R[n].superseded = z
                BY <4>1, <4>5 DEF ProfileSet
            <4>3. R[n] \in ProfileSet /\ R[n].key = q.key /\ R[n].current /\ R[n].superseded = 0
                BY <4>4, <4>6
            <4>. QED
                BY <3>2, <4>1, <4>3
        <3>3. CASE all[n].key \notin C /\ all[n].current
            <4>1. PICK h \in Nat : h = Heir(n)
                BY <3>1
            <4>2. R[n] = [all[n] EXCEPT !.current = FALSE, !.superseded = h]
                BY <1>10, <3>3, <4>1
            <4>. QED
                BY <3>1, <3>3, <4>1, <4>2 DEF ProfileSet
        <3>4. CASE all[n].key \notin C /\ ~ all[n].current
            BY <1>10, <3>1, <3>4 DEF ProfileSet
        <3>. QED
            BY <3>2, <3>3, <3>4
    <2>. QED
        BY <2>1
<1>13. R \in Seq(ProfileSet) /\ Len(R) = o + p
    <2>1. PICK m \in Nat : m = o + p
        BY <1>4, SMTT(30)
    <2>2. R \in [1..m -> ProfileSet]
        BY <1>10, <1>12, <2>1
    <2>3. R \in Seq(ProfileSet) /\ Len(R) = m
        BY <2>2
    <2>. QED
        BY <2>1, <2>3
<1>14. \A n \in 1..o + p : R[n].key \notin C =>
          /\ n \in 1..o
          /\ ~ profiles[n].current => R[n].superseded = profiles[n].superseded
          /\ profiles[n].current =>
                \/ R[n].superseded = 0
                \/ /\ R[n].superseded \in 1..o + p /\ R[R[n].superseded].key \in C
                   /\ Exposures!Logical(R[R[n].superseded].key) = Exposures!Logical(R[n].key)
    BY <1>6, <1>11, <1>12, SMTT(30)
<1>15. /\ \A k \in C : \E n \in 1..o + p : R[n].key = k
       /\ \A n \in 1..o : R[n].key = profiles[n].key
       /\ \A n \in 1..o + p :
             (R[n].current <=> R[n].key \in C) /\ (R[n].key \in C => R[n].superseded = 0)
    BY <1>6, <1>7, <1>12
<1>16. o = Len(profiles) /\ o + p = Len(R) /\ o <= Len(R) /\ R \in Seq(ProfileSet)
    BY <1>4, <1>6, <1>13
<1>17. /\ \A k \in C : \E n \in 1..Len(R) : R[n].key = k
       /\ \A n \in 1..Len(R) :
             /\ R[n].current <=> R[n].key \in C
             /\ R[n].key \in C => R[n].superseded = 0
       /\ \A n \in 1..Len(profiles) : R[n].key = profiles[n].key
    BY <1>15, <1>16, Zenon
<1>18. \A n \in 1..Len(R) : R[n].key \notin C =>
          /\ n \in 1..Len(profiles)
          /\ ~ profiles[n].current => R[n].superseded = profiles[n].superseded
          /\ profiles[n].current =>
                \/ R[n].superseded = 0
                \/ /\ R[n].superseded \in 1..Len(R) /\ R[R[n].superseded].key \in C
                   /\ Exposures!Logical(R[R[n].superseded].key) = Exposures!Logical(R[n].key)
    BY <1>14, <1>16, Zenon
<1>19. R \in Seq(ProfileSet) /\ Len(profiles) <= Len(R)
    BY <1>16, Zenon
<1>. QED
    BY <1>17, <1>18, <1>19, Zenon DEF R

\* The first of some numbers.
Earlier == {ss \in Nat \X Nat : ss[1] < ss[2]}

\* Every set of numbers has a first one.
LEMMA FirstOf ==
    ASSUME NEW J \in SUBSET Nat, J # {}
    PROVE  \E i \in J : \A j \in J : i <= j
<1>1. IsWellFoundedOn(Earlier, Nat)
    BY NatLessThanWellFounded, Zenon DEF OpToRel, Earlier
<1>2. \E i \in J : \A j \in J : ~ (<<j, i>> \in Earlier)
    BY <1>1, WFMin, Zenon
<1>3. \A i, j \in Nat : ~ (<<j, i>> \in Earlier) => i <= j
    BY DEF Earlier
<1>. QED
    BY <1>2, <1>3

\* A way along the pointers, from a profile to one that was not superseded.
Way(p, n, path) ==
    /\ path # <<>> /\ path[1] = n /\ p[path[Len(path)]].superseded = 0
    /\ \A i \in 1..(Len(path) - 1) : p[path[i]].superseded = path[i + 1]
    /\ \A i, j \in 1..Len(path) : path[i] = path[j] => i = j

\* Who is current was not superseded, a pointer stays in the rule and group, and each profile
\* has a way to the end that meets no profile twice.
Succession(p) == \A n \in DOMAIN p :
    /\ p[n].current => p[n].superseded = 0
    /\ p[n].superseded # 0 => /\ p[n].superseded \in DOMAIN p
                              /\ Exposures!Logical(p[p[n].superseded].key)
                                     = Exposures!Logical(p[n].key)
    /\ \E path \in Seq(DOMAIN p) : Way(p, n, path)

\* A recalculation keeps the ways: they end at the first profile that is current again, or go
\* on to the profile that takes over.
LEMMA RecalculationSucceeds ==
    ASSUME profiles \in Seq(ProfileSet), NEW C \in SUBSET KeySet, IsFiniteSet(C),
           Succession(profiles)
    PROVE  Succession(Exposures!Recalculated(C))
<1>1. PICK R : R = Exposures!Recalculated(C)
    OBVIOUS
<1>2. PICK o \in Nat : o = Len(profiles) /\ DOMAIN profiles = 1..o
    OBVIOUS
<1>3. R \in Seq(ProfileSet) /\ o <= Len(R)
    BY <1>1, <1>2, AfterRecalculation
<1>4. PICK z \in Nat : z = Len(R) /\ DOMAIN R = 1..z /\ o <= z
    BY <1>3
<1>5. /\ \A n \in 1..z : R[n].current => R[n].key \in C
      /\ \A n \in 1..z : R[n].key \in C => R[n].superseded = 0
      /\ \A n \in 1..o : R[n].key = profiles[n].key /\ n \in 1..z
      /\ \A n \in 1..z : R[n].key \notin C =>
            /\ n \in 1..o
            /\ ~ profiles[n].current => R[n].superseded = profiles[n].superseded
            /\ profiles[n].current =>
                  \/ R[n].superseded = 0
                  \/ /\ R[n].superseded \in 1..z /\ R[R[n].superseded].key \in C
                     /\ Exposures!Logical(R[R[n].superseded].key) = Exposures!Logical(R[n].key)
    <2>1. /\ \A n \in 1..Len(R) : R[n].current <=> R[n].key \in C
          /\ \A n \in 1..Len(R) : R[n].key \in C => R[n].superseded = 0
          /\ \A n \in 1..Len(profiles) : R[n].key = profiles[n].key
          /\ \A n \in 1..Len(R) : R[n].key \notin C =>
                /\ n \in 1..Len(profiles)
                /\ ~ profiles[n].current => R[n].superseded = profiles[n].superseded
                /\ profiles[n].current =>
                      \/ R[n].superseded = 0
                      \/ /\ R[n].superseded \in 1..Len(R) /\ R[R[n].superseded].key \in C
                         /\ Exposures!Logical(R[R[n].superseded].key)
                                = Exposures!Logical(R[n].key)
        BY <1>1, AfterRecalculation
    <2>2. \A n \in 1..o : n \in 1..z
        BY <1>2, <1>4
    <2>. QED
        BY <1>2, <1>4, <2>1, <2>2
<1>6. \A n \in 1..o :
         /\ profiles[n].current => profiles[n].superseded = 0
         /\ profiles[n].superseded # 0 =>
               /\ profiles[n].superseded \in 1..o
               /\ Exposures!Logical(profiles[profiles[n].superseded].key)
                      = Exposures!Logical(profiles[n].key)
    BY <1>2 DEF Succession
<1>7. ASSUME NEW n \in 1..z
      PROVE  /\ R[n].current => R[n].superseded = 0
             /\ R[n].superseded # 0 => /\ R[n].superseded \in 1..z
                                       /\ Exposures!Logical(R[R[n].superseded].key)
                                              = Exposures!Logical(R[n].key)
    <2>1. CASE R[n].key \in C
        BY <1>5, <2>1
    <2>2. CASE R[n].key \notin C /\ profiles[n].current
        BY <1>5, <2>2
    <2>3. CASE R[n].key \notin C /\ ~ profiles[n].current
        <3>1. n \in 1..o /\ R[n].superseded = profiles[n].superseded
            BY <1>5, <2>3
        <3>2. ASSUME R[n].superseded # 0
              PROVE  /\ R[n].superseded \in 1..z
                     /\ Exposures!Logical(R[R[n].superseded].key) = Exposures!Logical(R[n].key)
            <4>1. PICK m \in 1..o : m = R[n].superseded
                BY <1>6, <3>1, <3>2
            <4>2. Exposures!Logical(profiles[m].key) = Exposures!Logical(profiles[n].key)
                BY <1>6, <3>1, <3>2, <4>1
            <4>3. R[m].key = profiles[m].key /\ R[n].key = profiles[n].key /\ m \in 1..z
                BY <1>5, <3>1
            <4>. QED
                BY <4>1, <4>2, <4>3
        <3>3. ~ R[n].current
            BY <1>5, <2>3
        <3>. QED
            BY <3>2, <3>3
    <2>. QED
        BY <2>1, <2>2, <2>3
<1>8. ASSUME NEW n \in 1..z
      PROVE  \E path \in Seq(1..z) : Way(R, n, path)
    <2>1. CASE R[n].key \in C
        <3>1. PICK path : path = <<n>>
            OBVIOUS
        <3>2. path \in Seq(1..z) /\ Len(path) = 1 /\ path[1] = n /\ path # <<>>
            BY <3>1
        <3>3. R[n].superseded = 0
            BY <1>5, <2>1
        <3>4. Way(R, n, path)
            BY <3>2, <3>3 DEF Way
        <3>. QED
            BY <3>2, <3>4
    <2>2. CASE R[n].key \notin C
        <3>1. n \in 1..o
            BY <1>5, <2>2
        <3>2. PICK p \in Seq(1..o) : Way(profiles, n, p)
            BY <1>2, <3>1 DEF Succession
        <3>3. PICK l \in Nat : l = Len(p) /\ l >= 1 /\ DOMAIN p = 1..l
            BY <3>2 DEF Way
        <3>4. /\ \A i \in 1..l : p[i] \in 1..o
              /\ p[1] = n /\ profiles[p[l]].superseded = 0
              /\ \A i \in 1..l : i < l => i + 1 \in 1..l /\ profiles[p[i]].superseded = p[i + 1]
              /\ \A i, j \in 1..l : p[i] = p[j] => i = j
            <4>1. \A i \in 1..l : i < l => i + 1 \in 1..l /\ i \in 1..(l - 1)
                BY <3>3
            <4>. QED
                BY <3>2, <3>3, <4>1 DEF Way
        <3>5. ASSUME NEW i \in 1..l, i < l, R[p[i]].key \notin C
              PROVE  R[p[i]].superseded = p[i + 1]
            <4>1. PICK m \in 1..o : m = p[i]
                BY <3>4
            <4>2. PICK k \in 1..o : k = p[i + 1] /\ profiles[m].superseded = k
                BY <3>4, <3>5, <4>1
            <4>3. ~ profiles[m].current
                BY <1>6, <4>2
            <4>4. m \in 1..z
                BY <1>5
            <4>. QED
                BY <1>5, <3>5, <4>1, <4>2, <4>3, <4>4
        <3>6. CASE \E i \in 1..l : R[p[i]].key \in C
            <4>1. PICK J : J = {i \in 1..l : R[p[i]].key \in C}
                OBVIOUS
            <4>2. J \in SUBSET Nat /\ J # {}
                <5>1. \A i \in 1..l : i \in Nat
                    BY <3>3
                <5>2. PICK i \in 1..l : R[p[i]].key \in C
                    BY <3>6
                <5>3. i \in J
                    BY <4>1, <5>2
                <5>4. J \subseteq 1..l
                    BY <4>1
                <5>. QED
                    BY <5>1, <5>3, <5>4
            <4>3. PICK f \in J : \A j \in J : f <= j
                BY <4>2, FirstOf
            <4>4. f \in 1..l /\ R[p[f]].key \in C /\ \A i \in 1..l : i < f => R[p[i]].key \notin C
                BY <4>1, <4>3
            <4>5. PICK path : path = [i \in 1..f |-> p[i]]
                OBVIOUS
            <4>6. /\ path \in Seq(1..z) /\ Len(path) = f /\ \A i \in 1..f : path[i] = p[i]
                  /\ path # <<>>
                <5>1. \A i \in 1..f : p[i] \in 1..z
                    BY <1>5, <3>4, <4>4
                <5>2. path \in Seq(1..z) /\ Len(path) = f
                    BY <4>4, <4>5, <5>1
                <5>3. \A i \in 1..f : path[i] = p[i]
                    BY <4>5
                <5>4. path # <<>>
                    BY <4>4, <5>2
                <5>. QED
                    BY <5>2, <5>3, <5>4
            <4>7. R[p[f]].superseded = 0
                BY <1>5, <3>4, <4>4
            <4>8. \A i \in 1..(f - 1) : R[path[i]].superseded = path[i + 1]
                <5>1. ASSUME NEW i \in 1..(f - 1)
                      PROVE  R[path[i]].superseded = path[i + 1]
                    <6>1. i \in 1..l /\ i < l /\ i < f /\ i \in 1..f /\ i + 1 \in 1..f
                        BY <4>4
                    <6>2. R[p[i]].superseded = p[i + 1]
                        BY <3>5, <4>4, <6>1
                    <6>. QED
                        BY <4>6, <6>1, <6>2
                <5>. QED
                    BY <5>1
            <4>9. path[1] = n /\ path[f] = p[f] /\ \A i \in 1..f : i \in 1..l
                <5>1. 1 \in 1..f /\ f \in 1..f /\ \A i \in 1..f : i \in 1..l
                    BY <3>3, <4>4
                <5>. QED
                    BY <3>4, <4>6, <5>1
            <4>10. \A i, j \in 1..f : path[i] = path[j] => i = j
                <5>1. ASSUME NEW i \in 1..f, NEW j \in 1..f, path[i] = path[j]
                      PROVE  i = j
                    <6>1. i \in 1..l /\ j \in 1..l
                        BY <4>9
                    <6>2. p[i] = p[j]
                        BY <4>6, <5>1
                    <6>. QED
                        BY <3>4, <6>1, <6>2
                <5>. QED
                    BY <5>1
            <4>11. Way(R, n, path)
                BY <4>6, <4>7, <4>8, <4>9, <4>10 DEF Way
            <4>. QED
                BY <4>6, <4>11
        <3>7. CASE ~ (\E i \in 1..l : R[p[i]].key \in C) /\ R[p[l]].superseded = 0
            <4>1. p \in Seq(1..z)
                BY <1>4, <3>2
            <4>2. \A i \in 1..(l - 1) : R[p[i]].superseded = p[i + 1]
                <5>1. \A i \in 1..(l - 1) : i \in 1..l /\ i < l
                    BY <3>3
                <5>. QED
                    BY <3>5, <3>7, <5>1
            <4>3. Way(R, n, p)
                BY <3>2, <3>3, <3>4, <3>7, <4>2 DEF Way
            <4>. QED
                BY <4>1, <4>3
        <3>8. CASE ~ (\E i \in 1..l : R[p[i]].key \in C) /\ R[p[l]].superseded # 0
            <4>1. PICK m \in 1..o : m = p[l] /\ R[m].key \notin C /\ m \in 1..z
                BY <1>5, <3>3, <3>4, <3>8, SMTT(30)
            <4>2. PICK h \in 1..z : h = R[m].superseded /\ R[h].key \in C
                BY <1>5, <3>4, <3>8, <4>1
            <4>3. PICK path : path = [i \in 1..(l + 1) |-> IF i <= l THEN p[i] ELSE h]
                OBVIOUS
            <4>4. /\ path \in Seq(1..z) /\ Len(path) = l + 1 /\ path # <<>>
                  /\ \A i \in 1..l : path[i] = p[i] /\ i \in 1..(l + 1)
                  /\ path[l + 1] = h
                <5>1. \A i \in 1..(l + 1) : (IF i <= l THEN p[i] ELSE h) \in 1..z
                    BY <1>5, <3>3, <3>4
                <5>2. PICK y \in Nat : y = l + 1
                    OBVIOUS
                <5>3. path \in Seq(1..z) /\ Len(path) = y
                    BY <4>3, <5>1, <5>2
                <5>4. \A i \in 1..l : i \in 1..(l + 1) /\ i <= l
                    OBVIOUS
                <5>5. l + 1 \in 1..(l + 1) /\ ~ (l + 1 <= l)
                    OBVIOUS
                <5>6. path[l + 1] = h /\ \A i \in 1..l : path[i] = p[i]
                    BY <4>3, <5>4, <5>5
                <5>7. path # <<>>
                    BY <5>2, <5>3
                <5>. QED
                    BY <5>2, <5>3, <5>4, <5>6, <5>7
            <4>5. R[h].superseded = 0 /\ \A i \in 1..l : p[i] # h
                BY <1>5, <3>8, <4>2
            <4>6. \A i \in 1..((l + 1) - 1) : R[path[i]].superseded = path[i + 1]
                <5>1. ASSUME NEW i \in 1..((l + 1) - 1)
                      PROVE  R[path[i]].superseded = path[i + 1]
                    <6>1. i \in 1..l
                        BY <3>3
                    <6>2. CASE i < l
                        <7>1. i + 1 \in 1..l
                            BY <6>1, <6>2
                        <7>2. R[p[i]].superseded = p[i + 1]
                            BY <3>5, <3>8, <6>1, <6>2
                        <7>. QED
                            BY <4>4, <6>1, <7>1, <7>2
                    <6>3. CASE ~ (i < l)
                        <7>1. i = l
                            BY <6>1, <6>3
                        <7>. QED
                            BY <4>1, <4>2, <4>4, <6>1, <7>1
                    <6>. QED
                        BY <6>2, <6>3
                <5>. QED
                    BY <5>1
            <4>7. \A i, j \in 1..(l + 1) : path[i] = path[j] => i = j
                <5>1. \A i \in 1..(l + 1) : i \in 1..l \/ i = l + 1
                    BY <3>3
                <5>2. ASSUME NEW i \in 1..(l + 1), NEW j \in 1..(l + 1), path[i] = path[j]
                      PROVE  i = j
                    <6>1. CASE i \in 1..l /\ j \in 1..l
                        BY <3>4, <4>4, <5>2, <6>1
                    <6>2. CASE i \in 1..l /\ j = l + 1
                        BY <4>4, <4>5, <5>2, <6>2
                    <6>3. CASE i = l + 1 /\ j \in 1..l
                        BY <4>4, <4>5, <5>2, <6>3
                    <6>4. CASE i = l + 1 /\ j = l + 1
                        BY <6>4
                    <6>. QED
                        BY <5>1, <6>1, <6>2, <6>3, <6>4
                <5>. QED
                    BY <5>2
            <4>8. path[1] = n
                BY <3>3, <3>4, <4>4
            <4>9. Way(R, n, path)
                BY <4>4, <4>5, <4>6, <4>7, <4>8 DEF Way
            <4>. QED
                BY <4>4, <4>9
        <3>. QED
            BY <3>6, <3>7, <3>8
    <2>. QED
        BY <2>1, <2>2
<1>9. Succession(R)
    BY <1>4, <1>7, <1>8 DEF Succession
<1>. QED
    BY <1>1, <1>9

\* A review touches no pointer.
LEMMA ReviewSucceeds ==
    ASSUME NEW p, NEW q, Succession(p), DOMAIN q = DOMAIN p,
           \A n \in DOMAIN p : /\ q[n].key = p[n].key /\ q[n].current = p[n].current
                              /\ q[n].superseded = p[n].superseded
    PROVE  Succession(q)
<1>1. ASSUME NEW n \in DOMAIN q
      PROVE  \E path \in Seq(DOMAIN q) : Way(q, n, path)
    <2>1. PICK path \in Seq(DOMAIN p) : Way(p, n, path)
        BY <1>1 DEF Succession
    <2>2. PICK l \in Nat : l = Len(path) /\ l >= 1 /\ \A i \in 1..l : path[i] \in DOMAIN p
        BY <2>1 DEF Way
    <2>3. \A i \in 1..(Len(path) - 1) : q[path[i]].superseded = p[path[i]].superseded
        BY <2>2
    <2>4. q[path[Len(path)]].superseded = p[path[Len(path)]].superseded
        BY <2>2
    <2>5. Way(q, n, path)
        BY <2>1, <2>3, <2>4 DEF Way
    <2>. QED
        BY <2>1, <2>5
<1>2. \A n \in DOMAIN q :
         /\ q[n].current => q[n].superseded = 0
         /\ q[n].superseded # 0 => /\ q[n].superseded \in DOMAIN q
                                   /\ Exposures!Logical(q[q[n].superseded].key)
                                          = Exposures!Logical(q[n].key)
    BY DEF Succession
<1>. QED
    BY <1>1, <1>2 DEF Succession

\* Rows that came together: in one event or file, or in events of one alert.
Met(ids, t) ==
    /\ ids \subseteq DOMAIN t
    /\ \A i, j \in ids : t[i].seen = t[j].seen \/ (t[i].alert # None /\ t[i].alert = t[j].alert)

\* Rows of one group came together, and the groups of later events are new ones.
Grouped(t, n) ==
    /\ \A i, j \in DOMAIN t : t[i].group = t[j].group =>
          t[i].seen = t[j].seen \/ (t[i].alert # None /\ t[i].alert = t[j].alert)
    /\ \A i \in DOMAIN t : t[i].group[2] <= n

\* The rows of a table grouped with one, and the key of a rule that combines them.
MembersOf(t, a, n) == {m \in Exposures!InIncident(t, a) : t[m].group = t[n].group}
KeyOf(t, a, v, r, n) == [rule |-> r, group |-> t[n].group, ids |-> MembersOf(t, a, n),
    version |-> v]

\* A candidate is the key of a rule that matches a group.
LEMMA CandidateIs ==
    ASSUME NEW t, NEW a, NEW v, NEW k
    PROVE  k \in Exposures!Candidates(t, a, v) <=>
              \E r \in DOMAIN Rules[v], n \in Exposures!InIncident(t, a) :
                 /\ k = KeyOf(t, a, v, r, n)
                 /\ Exposures!Matches(Rules[v][r], {t[m].category : m \in MembersOf(t, a, n)})
<1> DEFINE Members(g) == {n \in Exposures!InIncident(t, a) : t[n].group = g}
           All == {[rule |-> r, group |-> g, ids |-> Members(g), version |-> v] :
                      r \in DOMAIN Rules[v], g
                          \in {t[n].group : n \in Exposures!InIncident(t, a)}}
           Fits(r, n) == Exposures!Matches(Rules[v][r],
               {t[m].category : m \in MembersOf(t, a, n)})
<1>1. Exposures!Candidates(t, a, v)
          = {q \in All : Exposures!Matches(Rules[v][q.rule], {t[n].category : n \in q.ids})}
    BY DEF Exposures!Candidates
<1>2. ASSUME NEW n PROVE Members(t[n].group) = MembersOf(t, a, n)
    BY DEF MembersOf
<1>3. ASSUME NEW r \in DOMAIN Rules[v], NEW n \in Exposures!InIncident(t, a)
      PROVE  KeyOf(t, a, v, r, n) \in All
    <2>1. KeyOf(t, a, v, r, n)
            = [rule |-> r, group |-> t[n].group, ids |-> Members(t[n].group), version |-> v]
        BY <1>2 DEF KeyOf
    <2> HIDE DEF Members
    <2>. QED
        BY <2>1
<1>4. ASSUME k \in All
      PROVE  \E r \in DOMAIN Rules[v], n \in Exposures!InIncident(t, a) : k = KeyOf(t, a, v, r, n)
    <2> HIDE DEF Members
    <2>1. PICK r \in DOMAIN Rules[v], g \in {t[n].group : n \in Exposures!InIncident(t, a)} :
              k = [rule |-> r, group |-> g, ids |-> Members(g), version |-> v]
        BY <1>4
    <2>2. PICK n \in Exposures!InIncident(t, a) : g = t[n].group
        BY <2>1
    <2>3. Members(g) = MembersOf(t, a, n)
        BY <1>2, <2>2
    <2>4. k = KeyOf(t, a, v, r, n)
        BY <2>1, <2>2, <2>3 DEF KeyOf
    <2>. QED
        BY <2>4
<1>5. ASSUME NEW r, NEW n
      PROVE  KeyOf(t, a, v, r, n).rule = r /\ KeyOf(t, a, v, r, n).ids = MembersOf(t, a, n)
    BY DEF KeyOf
<1> HIDE DEF All
<1>6. ASSUME k \in Exposures!Candidates(t, a, v)
      PROVE  \E r \in DOMAIN Rules[v], n \in Exposures!InIncident(t, a) :
                 k = KeyOf(t, a, v, r, n) /\ Fits(r, n)
    <2>1. PICK r \in DOMAIN Rules[v], n \in Exposures!InIncident(t, a) : k = KeyOf(t, a, v, r, n)
        BY <1>1, <1>4, <1>6
    <2>2. Fits(r, n)
        BY <1>1, <1>5, <1>6, <2>1
    <2>. QED
        BY <2>1, <2>2, Zenon
<1>7. ASSUME NEW r \in DOMAIN Rules[v], NEW n \in Exposures!InIncident(t, a),
             k = KeyOf(t, a, v, r, n) /\ Fits(r, n)
      PROVE  k \in Exposures!Candidates(t, a, v)
    BY <1>1, <1>3, <1>5, <1>7
<1>. QED
    BY <1>6, <1>7, Zenon

\* The candidates of a table are finitely many keys, each of one group.
LEMMA CandidateKeys ==
    ASSUME ExposureInputs, NEW t \in Seq(RowSet), NEW a, NEW v \in Exposures!Versions
    PROVE  /\ Exposures!Candidates(t, a, v) \subseteq KeySet
                  /\ IsFiniteSet(Exposures!Candidates(t, a, v))
           /\ \A k \in Exposures!Candidates(t, a, v) : /\ k.ids \subseteq DOMAIN t
                                             /\ \A i, j \in k.ids : t[i].group = t[j].group
<1> DEFINE X == (DOMAIN Rules[v]) \X Exposures!InIncident(t, a)
           f == [x \in X |-> KeyOf(t, a, v, x[1], x[2])]
           Keys == {f[x] : x \in X}
<1>1. PICK q \in Nat : DOMAIN t = 1..q /\ \A n \in 1..q : t[n] \in RowSet
    OBVIOUS
<1>2. Exposures!InIncident(t, a) \subseteq 1..q
    BY <1>1 DEF Exposures!InIncident
<1>3. Exposures!Candidates(t, a, v) \subseteq Keys
    <2>1. ASSUME NEW k \in Exposures!Candidates(t, a, v) PROVE k \in Keys
        <3>1. PICK r \in DOMAIN Rules[v], n \in Exposures!InIncident(t, a) :
                  /\ k = KeyOf(t, a, v, r, n)
                  /\ Exposures!Matches(Rules[v][r], {t[m].category : m \in MembersOf(t, a, n)})
            BY <2>1, CandidateIs
        <3>2. <<r, n>> \in X /\ f[<<r, n>>] = k
            BY <3>1
        <3>. QED
            BY <3>2
    <2>. QED
        BY <2>1
<1>4. IsFiniteSet(Keys)
    <2>1. IsFiniteSet(1..q)
        BY <1>1, FS_Interval
    <2>2. IsFiniteSet(Exposures!InIncident(t, a))
        BY <1>2, <2>1, FS_Subset
    <2>3. IsFiniteSet(DOMAIN Rules[v])
        BY DEF ExposureInputs
    <2>4. IsFiniteSet(X)
        BY <2>2, <2>3, FS_Product
    <2>5. f \in Surjection(X, Keys)
        BY DEF Surjection
    <2>. QED
        BY <2>4, <2>5, FS_Surjection
<1>5. IsFiniteSet(Exposures!Candidates(t, a, v))
    BY <1>3, <1>4, FS_Subset
<1>6. ASSUME NEW k \in Exposures!Candidates(t, a, v)
      PROVE  k \in KeySet /\ k.ids \subseteq DOMAIN t /\ \A i, j \in k.ids :
                 t[i].group = t[j].group
    <2>1. PICK r \in DOMAIN Rules[v], n \in Exposures!InIncident(t, a) :
              /\ k = KeyOf(t, a, v, r, n)
              /\ Exposures!Matches(Rules[v][r], {t[m].category : m \in MembersOf(t, a, n)})
        BY <1>6, CandidateIs
    <2>2. PICK g : g = t[n].group
        OBVIOUS
    <2>3. g \in Groups
        BY <1>1, <1>2, <2>2 DEF RowSet
    <2>4. /\ MembersOf(t, a, n) \in SUBSET Nat /\ MembersOf(t, a, n) \subseteq DOMAIN t
          /\ \A i \in MembersOf(t, a, n) : t[i].group = g
        BY <1>1, <1>2, <2>2 DEF MembersOf
    <2>5. r \in UNION {DOMAIN Rules[u] : u \in Exposures!Versions}
        OBVIOUS
    <2>6. k = [rule |-> r, group |-> g, ids |-> MembersOf(t, a, n), version |-> v]
        BY <2>1, <2>2 DEF KeyOf
    <2>7. k \in KeySet
        BY <2>3, <2>4, <2>5, <2>6 DEF KeySet
    <2>8. k.ids = MembersOf(t, a, n)
        BY <2>6
    <2>. QED
        BY <2>4, <2>7, <2>8
<1>. QED
    BY <1>5, <1>6

\* Two tables with the same rows of the incident have the same candidates.
LEMMA CandidatesSame ==
    ASSUME NEW t, NEW u, NEW a, NEW b, NEW v, Exposures!InIncident(t, a)
               = Exposures!InIncident(u, b),
           \A n \in Exposures!InIncident(t, a) : t[n].group = u[n].group
               /\ t[n].category = u[n].category
    PROVE  Exposures!Candidates(t, a, v) = Exposures!Candidates(u, b, v)
<1>1. \A n \in Exposures!InIncident(t, a) : MembersOf(t, a, n) = MembersOf(u, b, n)
    BY DEF MembersOf
<1>2. \A r : \A n \in Exposures!InIncident(t, a) : KeyOf(t, a, v, r, n) = KeyOf(u, b, v, r, n)
    BY <1>1 DEF KeyOf
<1>3. \A n \in Exposures!InIncident(t, a) :
          MembersOf(t, a, n) \subseteq Exposures!InIncident(t, a)
    BY DEF MembersOf
<1>4. \A n \in Exposures!InIncident(t, a) : {t[m].category : m \in MembersOf(t, a, n)}
                                    = {u[m].category : m \in MembersOf(u, b, n)}
    BY <1>1, <1>3
<1>5. \A k : k \in Exposures!Candidates(t, a, v) <=> k \in Exposures!Candidates(u, b, v)
    <2>1. ASSUME NEW k PROVE k \in Exposures!Candidates(t, a, v)
                     <=> k \in Exposures!Candidates(u, b, v)
        <3>1. \A r \in DOMAIN Rules[v], n \in Exposures!InIncident(t, a) :
                 /\ k = KeyOf(t, a, v, r, n) <=> k = KeyOf(u, b, v, r, n)
                 /\ Exposures!Matches(Rules[v][r], {t[m].category : m \in MembersOf(t, a, n)})
                      <=> Exposures!Matches(Rules[v][r],
                          {u[m].category : m \in MembersOf(u, b, n)})
            BY <1>2, <1>4
        <3>2. k \in Exposures!Candidates(t, a, v) <=>
                 \E r \in DOMAIN Rules[v], n \in Exposures!InIncident(t, a) :
                    /\ k = KeyOf(t, a, v, r, n)
                    /\ Exposures!Matches(Rules[v][r], {t[m].category : m \in MembersOf(t, a, n)})
            BY CandidateIs, ZenonT(60)
        <3>3. k \in Exposures!Candidates(u, b, v) <=>
                 \E r \in DOMAIN Rules[v], n \in Exposures!InIncident(u, b) :
                    /\ k = KeyOf(u, b, v, r, n)
                    /\ Exposures!Matches(Rules[v][r], {u[m].category : m \in MembersOf(u, b, n)})
            BY CandidateIs
        <3>. QED
            BY <3>1, <3>2, <3>3, Zenon
    <2>. QED
        BY <2>1
<1>6. Exposures!Candidates(t, a, v) \subseteq Exposures!Candidates(u, b, v)
          /\ Exposures!Candidates(u, b, v) \subseteq Exposures!Candidates(t, a, v)
    BY <1>5
<1>. QED
    BY <1>6

-----------------------------------------------------------------------------
(* Exposure profiles: the invariant *)

Tasks == [job : {None, "classify", "link", "recalculate", "commit"}, rows : Seq(RowSet),
          alert : LiveAlerts \cup {None}, candidates : SUBSET KeySet, seen : Nat]

ExposureShapes ==
    /\ rows \in Seq(RowSet) /\ profiles \in Seq(ProfileSet)
    /\ linked \subseteq LiveAlerts /\ ruleset \in Exposures!Versions
    /\ work \in [Workers -> Tasks]
    /\ lock \in [incident : Workers \cup {None}, ledger : Workers \cup {None}]
    /\ clock \in Nat /\ changes \in Nat /\ refreshed \in Nat

\* Who has read the rows holds the incident, and who wrote some holds the ledger; an alert
\* is linked by one request.
Exclusive ==
    /\ \A w \in Workers : work[w].job = "commit" => lock.incident = w
    /\ \A w \in Workers : work[w].rows # <<>> => lock.ledger = w
    /\ \A w \in Workers : work[w].alert # None =>
          /\ work[w].alert \notin linked
          /\ \A v \in Workers : work[v].alert = work[w].alert => v = w

\* Rows of one group came together, also with those a request has not committed.
InGroups == Grouped(rows, clock) /\ \A w \in Workers : Grouped(rows \o work[w].rows, clock)

\* Unless a change came since, the candidates a request has read are still what its commit
\* calls for; whatever it combines came together.
Gathered ==
    /\ refreshed <= changes
    /\ \A w \in Workers : work[w].seen <= changes
    /\ \A w \in Workers : work[w].job = "commit" =>
          /\ IsFiniteSet(work[w].candidates)
          /\ work[w].seen = changes => work[w].candidates =
                Exposures!Candidates(rows \o work[w].rows, linked \cup {work[w].alert}, ruleset)
          /\ \A k \in work[w].candidates : Met(k.ids, rows \o work[w].rows)

\* What the profiles combine came together.
Combined == \A n \in DOMAIN profiles : Met(profiles[n].key.ids, rows)

ExposureInv == ExposureShapes /\ Exclusive /\ InGroups /\ Gathered /\ Combined
               /\ Exposures!ProfilesMatchRows /\ Succession(profiles)

-----------------------------------------------------------------------------
(* Exposure profiles: the steps *)

\* The second part of a group is the number of the scan or event it came with.
LEMMA GroupNumber ==
    ASSUME NEW g \in Groups
    PROVE  g[2] \in Nat
BY DEF Groups, Kinds

\* What is grouped stays so when the clock advances.
LEMMA GroupedLater ==
    ASSUME NEW t \in Seq(RowSet), NEW m \in Nat, NEW n \in Nat, m <= n, Grouped(t, m)
    PROVE  Grouped(t, n)
<1>1. ASSUME NEW i \in DOMAIN t
      PROVE  t[i].group[2] <= n
    <2>0. PICK q \in RowSet : q = t[i]
        OBVIOUS
    <2>1. PICK g \in Groups : g = t[i].group
        BY <2>0 DEF RowSet
    <2>2. g[2] \in Nat /\ g[2] <= m
        BY <2>1, GroupNumber DEF Grouped
    <2>3. PICK k \in Nat : k = g[2]
        BY <2>2
    <2>. QED
        BY <2>1, <2>2, <2>3
<1>. QED
    BY <1>1 DEF Grouped

\* The rows a request adds follow the committed ones.
LEMMA Appended ==
    ASSUME NEW t \in Seq(RowSet), NEW u \in Seq(RowSet)
    PROVE  /\ t \o u \in Seq(RowSet) /\ DOMAIN t \subseteq DOMAIN (t \o u)
           /\ \A i \in DOMAIN t : (t \o u)[i] = t[i]
           /\ \A i \in DOMAIN (t \o u) \ DOMAIN t :
                 i - Len(t) \in DOMAIN u /\ (t \o u)[i] = u[i - Len(t)]
           /\ u = <<>> => t \o u = t
<1>1. PICK m \in Nat, n \in Nat : m = Len(t) /\ n = Len(u)
    OBVIOUS
<1>2. DOMAIN t = 1..m /\ DOMAIN u = 1..n
    BY <1>1
<1>3. /\ t \o u \in Seq(RowSet) /\ Len(t \o u) = m + n
      /\ \A i \in 1..m + n : (t \o u)[i] = IF i <= m THEN t[i] ELSE u[i - m]
    <2>1. /\ t \o u \in Seq(RowSet) /\ Len(t \o u) = Len(t) + Len(u)
          /\ \A i \in 1..Len(t) + Len(u) :
                (t \o u)[i] = IF i <= Len(t) THEN t[i] ELSE u[i - Len(t)]
        BY ConcatProperties, Zenon
    <2>. QED
        BY <1>1, <2>1, Zenon
<1>4. DOMAIN (t \o u) = 1..m + n
    BY <1>3
<1>5. u = <<>> => t \o u = t
    <2>1. ASSUME u = <<>> PROVE t \o u = t
        BY <2>1, ConcatEmptySeq
    <2>. QED
        BY <2>1
<1>. QED
    BY <1>1, <1>2, <1>3, <1>4, <1>5

\* Only the request that holds the ledger has written rows.
LEMMA OthersWroteNothing ==
    ASSUME ExposureInputs, ExposureInv, NEW w \in Workers, lock.ledger \in {None, w},
           NEW v \in Workers, v # w \/ lock.ledger = None
    PROVE  work[v].rows = <<>> /\ rows \o work[v].rows = rows
<1>1. work[v].rows = <<>>
    BY DEF ExposureInputs, ExposureInv, Exclusive
<1>2. rows \o <<>> = rows
    BY Appended DEF ExposureInv, ExposureShapes
<1>. QED
    BY <1>1, <1>2

\* A request goes on, or ends, without a commit.
LEMMA RequestKeeps ==
    ASSUME ExposureInv, NEW w \in Workers, NEW r \in Tasks,
           work' = [work EXCEPT ![w] = r],
           UNCHANGED <<rows, profiles, linked, ruleset, changes, refreshed>>,
           clock' \in Nat, clock <= clock',
           lock' \in [incident : Workers \cup {None}, ledger : Workers \cup {None}],
           \A v \in Workers \ {w} : /\ lock.incident = v => lock'.incident = v
                                    /\ lock.ledger = v => lock'.ledger = v,
           r.rows # <<>> => lock'.ledger = w,
           r.alert # None => /\ r.alert \notin linked
                             /\ \A v \in Workers \ {w} : work[v].alert # r.alert,
           Grouped(rows \o r.rows, clock'), r.seen <= changes,
           r.job = "commit" =>
              /\ lock'.incident = w /\ IsFiniteSet(r.candidates)
              /\ r.candidates
                     = Exposures!Candidates(rows \o r.rows, linked \cup {r.alert}, ruleset)
              /\ \A k \in r.candidates : Met(k.ids, rows \o r.rows)
    PROVE  ExposureInv'
<1>1. /\ work' \in [Workers -> Tasks]
      /\ \A v \in Workers : work'[v] = IF v = w THEN r ELSE work[v]
    BY DEF ExposureInv, ExposureShapes
<1>2. ExposureShapes'
    BY <1>1 DEF ExposureInv, ExposureShapes
<1>3. Exclusive'
    BY <1>1 DEF ExposureInv, Exclusive
<1>4. InGroups'
    <2>1. rows \in Seq(RowSet) /\ clock \in Nat /\ Grouped(rows, clock)
        BY DEF ExposureInv, ExposureShapes, InGroups
    <2>2. Grouped(rows, clock')
        BY <2>1, GroupedLater
    <2>3. ASSUME NEW v \in Workers, v # w
          PROVE  Grouped(rows \o work[v].rows, clock')
        <3>1. work[v].rows \in Seq(RowSet)
            BY DEF ExposureInv, ExposureShapes, Tasks
        <3>2. rows \o work[v].rows \in Seq(RowSet)
            BY <2>1, <3>1, Appended
        <3>3. Grouped(rows \o work[v].rows, clock)
            BY DEF ExposureInv, InGroups
        <3>. QED
            BY <2>1, <3>2, <3>3, GroupedLater
    <2>. QED
        BY <1>1, <2>2, <2>3 DEF InGroups
<1>5. Gathered'
    BY <1>1 DEF ExposureInv, Gathered
<1>6. Combined' /\ Exposures!ProfilesMatchRows'
    BY DEF ExposureInv, Combined, Exposures!ProfilesMatchRows, Exposures!Current
<1>7. Succession(profiles')
    BY DEF ExposureInv
<1>. QED
    BY <1>2, <1>3, <1>4, <1>5, <1>6, <1>7 DEF ExposureInv

\* A scan or a detection.
LEMMA ClassifyKeeps ==
    ASSUME ExposureInputs, ExposureInv, NEW w \in Workers, NEW found \in Seq(Categories),
           Exposures!Classify(w, found)
    PROVE  ExposureInv'
<1>1. PICK c \in Nat : c = clock + 1 /\ clock < c
    BY DEF ExposureInv, ExposureShapes
<1>2. clock' = c
    BY <1>1 DEF Exposures!Classify, Exposures!Occurs
<1>3. PICK kind \in Kinds :
         work' = [work EXCEPT ![w] = [Exposures!Idle EXCEPT
           !.job = "classify",
           !.rows = [n \in 1..Len(found) |->
                       Exposures!Row(found[n], <<kind, clock + 1, found[n]>>, None,
                           <<kind, clock + 1>>)]]]
    BY DEF Exposures!Classify, Kinds
<1>4. PICK q : q = [n \in 1..Len(found) |->
                       Exposures!Row(found[n], <<kind, clock + 1, found[n]>>, None,
                           <<kind, clock + 1>>)]
    OBVIOUS
<1>5. q \in Seq(RowSet) /\ \A n \in DOMAIN q : q[n].group = <<kind, c>> /\ q[n].seen = c
    <2>1. PICK m \in Nat : m = Len(found) /\ \A n \in 1..m : found[n] \in Categories
        OBVIOUS
    <2>2. q = [n \in 1..m |-> q[n]]
          /\ \A n \in 1..m : q[n] = [category |-> found[n], key |-> <<kind, c, found[n]>>,
                                     alert |-> None, group |-> <<kind, c>>, seen |-> c,
                                     outside |-> None \in linked]
        BY <1>1, <1>4, <2>1 DEF Exposures!Row
    <2>3. <<kind, c>> \in Groups /\ \A n \in 1..m :
              <<kind, c, found[n]>> \in Kinds \X Nat \X Categories
        BY <1>1, <2>1 DEF Groups
    <2>4. ASSUME NEW n \in 1..m
          PROVE  q[n] \in RowSet
        <3>1. PICK g \in Groups : g = <<kind, c>>
            BY <2>3
        <3>2. PICK key \in (Kinds \X Nat \X Categories) \cup ({"live"} \X Categories) :
                  key = <<kind, c, found[n]>>
            BY <2>3
        <3>3. q[n] = [category |-> found[n], key |-> key, alert |-> None, group |-> g, seen |-> c,
                     outside |-> None \in linked]
            BY <2>2, <3>1, <3>2
        <3>. QED
            BY <2>1, <3>3 DEF RowSet
    <2>5. q \in Seq(RowSet) /\ DOMAIN q = 1..m
        BY <2>2, <2>4
    <2>. QED
        BY <2>2, <2>5
<1>6. PICK r : r = [Exposures!Idle EXCEPT !.job = "classify", !.rows = q]
    OBVIOUS
<1>7. r.job = "classify" /\ r.rows = q /\ r.alert = None /\ r.seen = 0
    BY <1>6 DEF Exposures!Idle
<1>8. r \in Tasks
    BY <1>5, <1>6 DEF Exposures!Idle, Tasks
<1>9. Grouped(rows \o q, c)
    <2>1. rows \in Seq(RowSet) /\ clock \in Nat /\ Grouped(rows, clock)
        BY DEF ExposureInv, ExposureShapes, InGroups
    <2>2. PICK t : t = rows \o q
        OBVIOUS
    <2>3. /\ t \in Seq(RowSet) /\ DOMAIN rows \subseteq DOMAIN t
          /\ \A i \in DOMAIN rows : t[i] = rows[i]
          /\ \A i \in DOMAIN t \ DOMAIN rows : t[i].group = <<kind, c>> /\ t[i].seen = c
        BY <1>5, <2>1, <2>2, Appended
    <2>4. \A i \in DOMAIN rows : rows[i].group[2] \in Nat /\ rows[i].group[2] <= clock
        <3>1. ASSUME NEW i \in DOMAIN rows
              PROVE  rows[i].group[2] \in Nat
            <4>1. PICK y \in RowSet : y = rows[i]
                BY <2>1
            <4>. QED
                BY <4>1, GroupNumber DEF RowSet
        <3>. QED
            BY <2>1, <3>1 DEF Grouped
    <2>5. \A i \in DOMAIN rows : rows[i].group[2] # c /\ rows[i].group[2] <= c
        BY <1>1, <2>1, <2>4
    <2>6. <<kind, c>>[2] = c /\ c <= c
        BY <1>1
    <2>7. \A i \in DOMAIN t : t[i].group[2] <= c
        BY <2>3, <2>5, <2>6
    <2>8. ASSUME NEW i \in DOMAIN t, NEW j \in DOMAIN t, t[i].group = t[j].group
          PROVE  t[i].seen = t[j].seen \/ (t[i].alert # None /\ t[i].alert = t[j].alert)
        <3>1. CASE i \in DOMAIN rows /\ j \in DOMAIN rows
            BY <2>1, <2>3, <2>8, <3>1 DEF Grouped
        <3>2. CASE i \notin DOMAIN rows /\ j \notin DOMAIN rows
            BY <2>3, <3>2
        <3>3. CASE i \in DOMAIN rows /\ j \notin DOMAIN rows
            BY <2>3, <2>5, <2>6, <2>8, <3>3
        <3>4. CASE i \notin DOMAIN rows /\ j \in DOMAIN rows
            BY <2>3, <2>5, <2>6, <2>8, <3>4
        <3>. QED
            BY <3>1, <3>2, <3>3, <3>4
    <2>. QED
        BY <2>2, <2>7, <2>8 DEF Grouped
<1>10. /\ lock' \in [incident : Workers \cup {None}, ledger : Workers \cup {None}]
       /\ lock'.ledger = w /\ lock'.incident = lock.incident /\ lock.ledger = None
    BY DEF Exposures!Classify, ExposureInv, ExposureShapes
<1>11. \A v \in Workers : v # None
    BY DEF ExposureInputs
<1>12. work' = [work EXCEPT ![w] = r]
    BY <1>3, <1>4, <1>6
<1>13. UNCHANGED <<rows, profiles, linked, ruleset, changes, refreshed>>
    BY DEF Exposures!Classify, Exposures!Occurs
<1>14. r.seen <= changes
    BY <1>7 DEF ExposureInv, ExposureShapes
<1>15. /\ clock' \in Nat /\ clock <= clock' /\ Grouped(rows \o r.rows, clock')
       /\ r.job # "commit" /\ r.alert = None
    BY <1>1, <1>2, <1>7, <1>9 DEF ExposureInv, ExposureShapes
<1>. QED
    BY <1>8, <1>10, <1>11, <1>12, <1>13, <1>14, <1>15, RequestKeeps

\* An alert to link, or a recalculation asked for.
LEMMA BeginKeepsProfiles ==
    ASSUME ExposureInputs, ExposureInv, NEW w \in Workers,
           (\E x \in LiveAlerts : Exposures!BeginLink(w, x)) \/ Exposures!BeginRecalculate(w)
    PROVE  ExposureInv'
<1>1. <<>> \in Seq(RowSet)
    OBVIOUS
<1>2. PICK r \in Tasks :
         /\ work' = [work EXCEPT ![w] = r]
         /\ r.job \in {"link", "recalculate"} /\ r.rows = <<>> /\ r.seen = 0
         /\ r.alert # None => r.alert \notin linked /\ \A v \in Workers : work[v].alert # r.alert
    <2>1. CASE \E x \in LiveAlerts : Exposures!BeginLink(w, x)
        <3>1. PICK x \in LiveAlerts : Exposures!BeginLink(w, x)
            BY <2>1
        <3>2. PICK r : r = [Exposures!Idle EXCEPT !.job = "link", !.alert = x]
            OBVIOUS
        <3>3. r \in Tasks /\ r.job = "link" /\ r.rows = <<>> /\ r.seen = 0 /\ r.alert = x
            BY <1>1, <3>2 DEF Exposures!Idle, Tasks
        <3>. QED
            BY <3>1, <3>2, <3>3, ZenonT(60) DEF Exposures!BeginLink
    <2>2. CASE Exposures!BeginRecalculate(w)
        <3>1. PICK r : r = [Exposures!Idle EXCEPT !.job = "recalculate"]
            OBVIOUS
        <3>2. r \in Tasks /\ r.job = "recalculate" /\ r.rows = <<>> /\ r.seen = 0
                  /\ r.alert = None
            BY <1>1, <3>1 DEF Exposures!Idle, Tasks
        <3>. QED
            BY <2>2, <3>1, <3>2 DEF Exposures!BeginRecalculate
    <2>. QED
        BY <2>1, <2>2
<1>5. /\ UNCHANGED <<rows, profiles, linked, ruleset, changes, refreshed>>
      /\ lock' = lock /\ clock' = clock
    BY DEF Exposures!BeginLink, Exposures!BeginRecalculate
<1>6. Grouped(rows \o r.rows, clock) /\ clock \in Nat /\ clock <= clock /\ r.seen <= changes
    <2>1. rows \o <<>> = rows
        BY <1>1, Appended DEF ExposureInv, ExposureShapes
    <2>. QED
        BY <1>2, <2>1 DEF ExposureInv, ExposureShapes, InGroups
<1>7. lock' \in [incident : Workers \cup {None}, ledger : Workers \cup {None}]
    BY <1>5 DEF ExposureInv, ExposureShapes
<1>8. /\ r.rows = <<>> /\ r.job # "commit" /\ work' = [work EXCEPT ![w] = r]
      /\ r.alert # None => r.alert \notin linked /\ \A v \in Workers \ {w} :
             work[v].alert # r.alert
    BY <1>2
<1>. QED
    BY <1>5, <1>6, <1>7, <1>8, RequestKeeps

\* The candidates of rows that are grouped combine what came together.
LEMMA CandidatesMet ==
    ASSUME ExposureInputs, NEW t \in Seq(RowSet), NEW n, Grouped(t, n), NEW a,
           NEW v \in Exposures!Versions, NEW k \in Exposures!Candidates(t, a, v)
    PROVE  Met(k.ids, t)
BY CandidateKeys DEF Grouped, Met

\* The incident is locked and the rows are read.
LEMMA ReadKeeps ==
    ASSUME ExposureInputs, ExposureInv, NEW w \in Workers, Exposures!Read(w)
    PROVE  ExposureInv'
<1>1. PICK t : t = rows \o work[w].rows
    OBVIOUS
<1>2. PICK C : C = Exposures!Candidates(t, linked \cup {work[w].alert}, ruleset)
    OBVIOUS
<1>3. t \in Seq(RowSet) /\ Grouped(t, clock) /\ work[w] \in Tasks
          /\ ruleset \in Exposures!Versions
      /\ clock \in Nat /\ changes \in Nat
    BY <1>1, Appended DEF ExposureInv, ExposureShapes, InGroups, Tasks
<1>4. C \subseteq KeySet /\ IsFiniteSet(C) /\ \A k \in C : Met(k.ids, t)
    BY <1>2, <1>3, CandidateKeys, CandidatesMet
<1>5. PICK q \in Tasks : q = work[w]
    BY <1>3
<1>6. PICK r : r = [q EXCEPT !.job = "commit", !.candidates = C, !.seen = changes]
    OBVIOUS
<1>7. /\ r \in Tasks /\ r.job = "commit" /\ r.candidates = C /\ r.seen = changes
      /\ r.rows = q.rows /\ r.alert = q.alert
    BY <1>3, <1>4, <1>6 DEF Tasks
<1>8. work' = [work EXCEPT ![w] = r]
    BY <1>1, <1>2, <1>5, <1>6 DEF Exposures!Read, Exposures!ReadBy
<1>9. /\ UNCHANGED <<rows, profiles, linked, ruleset, changes, refreshed>> /\ clock' = clock
      /\ lock.incident = None
    BY DEF Exposures!Read
<1>10. /\ lock' \in [incident : Workers \cup {None}, ledger : Workers \cup {None}]
       /\ lock'.ledger = lock.ledger /\ lock'.incident = w
    BY DEF Exposures!Read, ExposureInv, ExposureShapes
<1>11. \A v \in Workers : v # None
    BY DEF ExposureInputs
<1>12. r.rows # <<>> => lock'.ledger = w
    BY <1>5, <1>7, <1>10 DEF ExposureInv, Exclusive
<1>13. r.alert # None => r.alert \notin linked /\ \A v \in Workers \ {w} : work[v].alert # r.alert
    BY <1>5, <1>7 DEF ExposureInv, Exclusive
<1>14. r.seen <= changes /\ clock <= clock /\ rows \o r.rows = t
       /\ r.candidates = Exposures!Candidates(rows \o r.rows, linked \cup {r.alert}, ruleset)
    BY <1>1, <1>2, <1>3, <1>5, <1>7
<1>. QED
    BY <1>3, <1>4, <1>7, <1>8, <1>9, <1>10, <1>11, <1>12, <1>13, <1>14, RequestKeeps

\* A lock that the request held is free, the others are as they were.
LEMMA LocksReleased ==
    ASSUME ExposureInv, NEW w \in Workers, lock' = Exposures!Released(w)
    PROVE  /\ lock' \in [incident : Workers \cup {None}, ledger : Workers \cup {None}]
           /\ \A v \in Workers \ {w} : /\ lock.incident = v => lock'.incident = v
                                       /\ lock.ledger = v => lock'.ledger = v
           /\ lock.ledger \in {None, w} => lock'.ledger = None
<1>1. lock \in [incident : Workers \cup {None}, ledger : Workers \cup {None}]
    BY DEF ExposureInv, ExposureShapes
<1>2. DOMAIN lock = {"incident", "ledger"}
    BY <1>1
<1>3. lock' = [part \in {"incident", "ledger"} |-> IF lock[part] = w THEN None ELSE lock[part]]
    BY <1>2 DEF Exposures!Released
<1>4. /\ lock'.incident = IF lock.incident = w THEN None ELSE lock.incident
      /\ lock'.ledger = IF lock.ledger = w THEN None ELSE lock.ledger
    BY <1>3
<1>5. lock' \in [incident : Workers \cup {None}, ledger : Workers \cup {None}]
    BY <1>1, <1>3, <1>4
<1>. QED
    BY <1>4, <1>5

\* A request that fails leaves nothing.
LEMMA AbortKeeps ==
    ASSUME ExposureInputs, ExposureInv, NEW w \in Workers, Exposures!Abort(w)
    PROVE  ExposureInv'
<1>1. <<>> \in Seq(RowSet)
    OBVIOUS
<1>2. Exposures!Idle \in Tasks /\ Exposures!Idle.job = None /\ Exposures!Idle.alert = None
          /\ Exposures!Idle.rows = <<>> /\ Exposures!Idle.seen = 0
    BY <1>1 DEF Exposures!Idle, Tasks
<1>3. /\ UNCHANGED <<rows, profiles, linked, ruleset, changes, refreshed>> /\ clock' = clock
      /\ work' = [work EXCEPT ![w] = Exposures!Idle] /\ lock' = Exposures!Released(w)
    BY DEF Exposures!Abort
<1>4. Grouped(rows \o Exposures!Idle.rows, clock) /\ clock \in Nat /\ clock <= clock
          /\ Exposures!Idle.seen <= changes
    <2>1. rows \o <<>> = rows
        BY <1>1, Appended DEF ExposureInv, ExposureShapes
    <2>. QED
        BY <1>2, <2>1 DEF ExposureInv, ExposureShapes, InGroups
<1>5. Exposures!Idle.job # "commit"
    BY <1>2 DEF ExposureInputs
<1> HIDE DEF Exposures!Idle
<1>. QED
    BY <1>2, <1>3, <1>4, <1>5, LocksReleased, RequestKeeps

\* Rows that came together stay so while their table grows.
LEMMA MetLater ==
    ASSUME NEW t, NEW u, NEW S, Met(S, t), DOMAIN t \subseteq DOMAIN u,
           \A i \in DOMAIN t : u[i].seen = t[i].seen /\ u[i].alert = t[i].alert
    PROVE  Met(S, u)
<1>1. \A i \in S : i \in DOMAIN t /\ u[i].seen = t[i].seen /\ u[i].alert = t[i].alert
    BY DEF Met
<1>. QED
    BY <1>1 DEF Met

\* The profiles of the candidates read, and the rows the request wrote.
LEMMA CommitKeepsProfiles ==
    ASSUME ExposureInputs, ExposureInv, NEW w \in Workers, Exposures!Commit(w)
    PROVE  ExposureInv'
<1>1. PICK q \in Tasks : q = work[w]
    BY DEF ExposureInv, ExposureShapes
<1>2. PICK C : C = q.candidates
    OBVIOUS
<1>3. /\ rows' = rows \o q.rows /\ linked' = linked \cup ({q.alert} \ {None})
      /\ profiles' = Exposures!Recalculated(C) /\ refreshed' = q.seen
      /\ work' = [work EXCEPT ![w] = Exposures!Idle] /\ lock' = Exposures!Released(w)
      /\ UNCHANGED <<ruleset, clock, deploys, changes>>
      /\ q.job = "commit" /\ lock.ledger \in {None, w}
    BY <1>1, <1>2 DEF Exposures!Commit
<1>4. <<>> \in Seq(RowSet)
    OBVIOUS
<1>5. Exposures!Idle \in Tasks /\ Exposures!Idle.job = None /\ Exposures!Idle.alert = None
          /\ Exposures!Idle.rows = <<>> /\ Exposures!Idle.seen = 0
    BY <1>4 DEF Exposures!Idle, Tasks
<1>6. Exposures!Idle.job # "commit"
    BY <1>5 DEF ExposureInputs
<1> HIDE DEF Exposures!Idle
<1>7. /\ work' \in [Workers -> Tasks]
      /\ \A v \in Workers : work'[v] = IF v = w THEN Exposures!Idle ELSE work[v]
    BY <1>3, <1>5 DEF ExposureInv, ExposureShapes
<1>8. \A v \in Workers : work'[v].job # "commit"
    <2>1. lock.incident = w /\ \A v \in Workers : work[v].job = "commit" => lock.incident = v
        BY <1>1, <1>3 DEF ExposureInv, Exclusive
    <2>. QED
        BY <1>6, <1>7, <2>1
<1>9. \A v \in Workers : work'[v].rows = <<>>
    BY <1>3, <1>5, <1>7, OthersWroteNothing
<1>10. /\ rows' \in Seq(RowSet) /\ DOMAIN rows \subseteq DOMAIN rows'
       /\ \A i \in DOMAIN rows : rows'[i] = rows[i]
    BY <1>3, Appended DEF ExposureInv, ExposureShapes, Tasks
<1>11. /\ C \in SUBSET KeySet /\ IsFiniteSet(C) /\ \A k \in C : Met(k.ids, rows')
       /\ q.seen \in Nat /\ q.seen <= changes
       /\ q.seen = changes => C = Exposures!Candidates(rows', linked \cup {q.alert}, ruleset)
    BY <1>1, <1>2, <1>3 DEF Tasks, ExposureInv, Gathered
<1>12. /\ profiles' \in Seq(ProfileSet)
       /\ \A k \in C : \E n \in 1..Len(profiles') : profiles'[n].key = k
       /\ \A n \in 1..Len(profiles') : profiles'[n].current <=> profiles'[n].key \in C
       /\ \A n \in 1..Len(profiles) : profiles'[n].key = profiles[n].key
       /\ \A n \in 1..Len(profiles') : profiles'[n].key \notin C => n \in 1..Len(profiles)
    <2>1. PICK R : R = Exposures!Recalculated(C)
        OBVIOUS
    <2>2. /\ R \in Seq(ProfileSet)
          /\ \A k \in C : \E n \in 1..Len(R) : R[n].key = k
          /\ \A n \in 1..Len(R) : R[n].current <=> R[n].key \in C
          /\ \A n \in 1..Len(profiles) : R[n].key = profiles[n].key
          /\ \A n \in 1..Len(R) : R[n].key \notin C => n \in 1..Len(profiles)
        BY <1>11, <2>1, AfterRecalculation DEF ExposureInv, ExposureShapes
    <2>3. profiles' = R
        BY <1>3, <2>1
    <2>. QED
        BY <2>2, <2>3, Zenon
<1>13. DOMAIN profiles' = 1..Len(profiles') /\ DOMAIN profiles = 1..Len(profiles)
    BY <1>12 DEF ExposureInv, ExposureShapes
<1>14. ExposureShapes'
    <2>1. lock' \in [incident : Workers \cup {None}, ledger : Workers \cup {None}]
        BY <1>3, LocksReleased
    <2>2. linked' \subseteq LiveAlerts
        BY <1>3 DEF ExposureInv, ExposureShapes, Tasks
    <2>3. ruleset' \in Exposures!Versions /\ clock' \in Nat /\ changes' \in Nat
              /\ refreshed' \in Nat
        BY <1>3, <1>11 DEF ExposureInv, ExposureShapes
    <2>. QED
        BY <1>7, <1>10, <1>12, <2>1, <2>2, <2>3 DEF ExposureShapes
<1>15. Exclusive'
    <2>1. \A v \in Workers : work'[v].alert # None =>
             v # w /\ work'[v].alert = work[v].alert /\ work[v].alert # q.alert
        BY <1>1, <1>5, <1>7 DEF ExposureInv, Exclusive
    <2>2. \A v \in Workers : work'[v].alert # None =>
             /\ work'[v].alert \notin linked'
             /\ \A u \in Workers : work'[u].alert = work'[v].alert => u = v
        BY <1>3, <1>7, <2>1 DEF ExposureInv, Exclusive
    <2>. QED
        BY <1>8, <1>9, <2>2 DEF Exclusive
<1>16. InGroups'
    <2>1. Grouped(rows', clock')
        BY <1>1, <1>3 DEF ExposureInv, InGroups
    <2>2. rows' \o <<>> = rows'
        BY <1>4, <1>10, Appended
    <2>. QED
        BY <1>9, <2>1, <2>2 DEF InGroups
<1>17. Gathered'
    <2>1. \A v \in Workers : work'[v].seen <= changes'
        BY <1>3, <1>5, <1>7 DEF ExposureInv, ExposureShapes, Gathered
    <2>. QED
        BY <1>3, <1>8, <1>11, <2>1 DEF Gathered
<1>18. Combined'
    <2>1. ASSUME NEW n \in DOMAIN profiles' PROVE Met(profiles'[n].key.ids, rows')
        <3>1. CASE profiles'[n].key \in C
            BY <1>11, <3>1
        <3>2. CASE profiles'[n].key \notin C
            <4>1. n \in DOMAIN profiles /\ profiles'[n].key = profiles[n].key
                BY <1>12, <1>13, <2>1, <3>2
            <4>2. Met(profiles[n].key.ids, rows)
                BY <4>1 DEF ExposureInv, Combined
            <4>3. Met(profiles[n].key.ids, rows')
                BY <1>10, <4>2, MetLater
            <4>. QED
                BY <4>1, <4>3
        <3>. QED
            BY <3>1, <3>2
    <2>. QED
        BY <2>1 DEF Combined
<1>19. Exposures!ProfilesMatchRows'
    <2>1. SUFFICES ASSUME refreshed' = changes'
                   PROVE  Exposures!Current' = Exposures!Candidates(rows', linked', ruleset')
        BY DEF Exposures!ProfilesMatchRows
    <2>2. Exposures!Current' = C
        <3>1. \A k \in C : k \in Exposures!Current'
            BY <1>12, <1>13 DEF Exposures!Current
        <3>2. \A k \in Exposures!Current' : k \in C
            BY <1>12, <1>13 DEF Exposures!Current
        <3>. QED
            BY <3>1, <3>2
    <2>3. C = Exposures!Candidates(rows', linked \cup {q.alert}, ruleset)
        <3>1. q.seen = changes
            BY <1>3, <2>1
        <3>. QED
            BY <1>11, <3>1, Zenon
    <2>4. Exposures!InIncident(rows', linked \cup {q.alert})
              = Exposures!InIncident(rows', linked')
        <3>1. linked' = linked \cup ({q.alert} \ {None})
            BY <1>3
        <3>. QED
            BY <3>1 DEF Exposures!InIncident
    <2>5. Exposures!Candidates(rows', linked \cup {q.alert}, ruleset)
              = Exposures!Candidates(rows', linked', ruleset)
        BY <2>4, CandidatesSame
    <2>. QED
        BY <1>3, <2>2, <2>3, <2>5
<1>20. Succession(profiles')
    BY <1>3, <1>11, RecalculationSucceeds DEF ExposureInv, ExposureShapes
<1>. QED
    BY <1>14, <1>15, <1>16, <1>17, <1>18, <1>19, <1>20 DEF ExposureInv

\* The rows after a live event of an alert: what is new, and what moved, is the alert's and
\* is grouped under the event's number.
LEMMA LiveRows ==
    ASSUME ExposureInputs, ExposureInv, NEW x \in LiveAlerts, NEW found \in Seq(Categories),
           Exposures!LiveEvent(x, found)
    PROVE  /\ rows' \in Seq(RowSet) /\ DOMAIN rows \subseteq DOMAIN rows'
           /\ \A i \in DOMAIN rows : /\ rows'[i].category = rows[i].category
                                     /\ rows'[i].seen = rows[i].seen
                                     /\ rows'[i].alert = rows[i].alert
                                     /\ rows'[i].outside = rows[i].outside
           /\ \A i \in DOMAIN rows' :
                 \/ i \in DOMAIN rows /\ rows'[i].group = rows[i].group
                 \/ rows'[i].alert = x /\ rows'[i].group[2] = clock + 1
           /\ \A i \in DOMAIN rows' \ DOMAIN rows :
                 rows'[i].alert = x /\ rows'[i].outside = (x \in linked)
           /\ \/ x \in linked /\ changes' = changes + 1
              \/ x \notin linked /\ changes' = changes
              \/ /\ x \in linked /\ changes' = changes
                 /\ \A i \in DOMAIN rows : rows'[i].group = rows[i].group
<1>1. PICK c \in Nat : c = clock + 1
    BY DEF ExposureInv, ExposureShapes
<1>2. PICK F : F = [n \in 1..Len(found) |->
                       Exposures!Row(found[n], <<"live", found[n]>>, x, <<"row", clock + 1, n>>)]
    OBVIOUS
<1>3. PICK t : t = rows \o Exposures!NewRows(rows, F)
    OBVIOUS
<1>13. PICK gateway \in BOOLEAN :
         /\ rows' = [n \in DOMAIN t |-> IF gateway /\ t[n].alert = x
                                    THEN [t[n] EXCEPT !.group = <<"event", c>>] ELSE t[n]]
         /\ changes' = IF gateway /\ x \in linked THEN changes + 1 ELSE changes
    BY <1>1, <1>2, <1>3 DEF Exposures!LiveEvent
<1>4. PICK m \in Nat : m = Len(found) /\ \A n \in 1..m : found[n] \in Categories
    OBVIOUS
<1>5. /\ DOMAIN F = 1..m
      /\ \A n \in 1..m : /\ F[n] \in RowSet /\ F[n].alert = x /\ F[n].group[2] = c
                         /\ F[n].outside = (x \in linked)
    <2>1. F = [n \in 1..m |-> F[n]]
          /\ \A n \in 1..m : F[n] = [category |-> found[n], key |-> <<"live", found[n]>>,
                                     alert |-> x, group |-> <<"row", c, n>>, seen |-> c,
                                     outside |-> x \in linked]
        BY <1>1, <1>2, <1>4 DEF Exposures!Row
    <2>2. ASSUME NEW n \in 1..m
          PROVE  /\ F[n] \in RowSet /\ F[n].alert = x /\ F[n].group[2] = c
                 /\ F[n].outside = (x \in linked)
        <3>1. PICK g \in Groups : g = <<"row", c, n>>
            <4>1. <<"row", c, n>> \in {"row"} \X Nat \X Nat
                OBVIOUS
            <4>. QED
                BY <4>1 DEF Groups
        <3>2. PICK key \in (Kinds \X Nat \X Categories) \cup ({"live"} \X Categories) :
                  key = <<"live", found[n]>>
            BY <1>4
        <3>3. F[n] = [category |-> found[n], key |-> key, alert |-> x, group |-> g, seen |-> c,
                     outside |-> x \in linked]
            BY <2>1, <3>1, <3>2
        <3>4. g[2] = c
            BY <3>1
        <3>. QED
            BY <1>4, <3>3, <3>4 DEF RowSet
    <2>. QED
        BY <2>1, <2>2
<1>6. PICK S : S = {F[n] : n \in {k \in 1..m : \A l \in DOMAIN rows : rows[l].key # F[k].key}}
    OBVIOUS
<1>7. IsFiniteSet(S) /\ \A r \in S : /\ r \in RowSet /\ r.alert = x /\ r.group[2] = c
                                    /\ r.outside = (x \in linked)
    <2>1. PICK K : K = {k \in 1..m : \A l \in DOMAIN rows : rows[l].key # F[k].key}
        OBVIOUS
    <2>2. IsFiniteSet(1..m)
        BY <1>4, FS_Interval
    <2>3. IsFiniteSet(K)
        BY <2>1, <2>2, FS_Subset
    <2>4. S = {F[n] : n \in K}
        BY <1>6, <2>1
    <2>5. IsFiniteSet(S)
        <3>1. [n \in K |-> F[n]] \in Surjection(K, S)
            BY <2>4 DEF Surjection
        <3>. QED
            BY <2>3, <3>1, FS_Surjection
    <2>. QED
        BY <1>5, <2>1, <2>4, <2>5
<1>8. PICK u : u = Exposures!SetToSeq(S)
    OBVIOUS
<1>9. u \in Seq(S) /\ Exposures!NewRows(rows, F) = u
    BY <1>5, <1>6, <1>7, <1>8, SetInOrder DEF Exposures!NewRows
<1>10. u \in Seq(RowSet) /\ \A n \in DOMAIN u : /\ u[n].alert = x /\ u[n].group[2] = c
                                              /\ u[n].outside = (x \in linked)
    <2>1. PICK k \in Nat : k = Len(u) /\ DOMAIN u = 1..k /\ \A n \in 1..k : u[n] \in S
        BY <1>9
    <2>. QED
        BY <1>7, <1>9, <2>1
<1>11. t = rows \o u
    BY <1>3, <1>9
<1>12. /\ t \in Seq(RowSet) /\ DOMAIN rows \subseteq DOMAIN t
       /\ \A i \in DOMAIN rows : t[i] = rows[i]
       /\ \A i \in DOMAIN t \ DOMAIN rows : /\ t[i].alert = x /\ t[i].group[2] = c
                                           /\ t[i].outside = (x \in linked)
    BY <1>10, <1>11, Appended DEF ExposureInv, ExposureShapes
<1>14. PICK g \in Groups : g = <<"event", c>> /\ g[2] = c
    <2>1. <<"event", c>> \in Kinds \X Nat /\ <<"event", c>>[2] = c
        BY DEF Kinds
    <2>. QED
        BY <2>1 DEF Groups
<1>15. ASSUME NEW i \in DOMAIN t
       PROVE  /\ rows'[i] \in RowSet /\ rows'[i].category = t[i].category
              /\ rows'[i].seen = t[i].seen /\ rows'[i].alert = t[i].alert
              /\ rows'[i].outside = t[i].outside
              /\ ~gateway => rows'[i].group = t[i].group
              /\ rows'[i].group = t[i].group \/ (rows'[i].alert = x /\ rows'[i].group[2] = c)
    <2>1. PICK r \in RowSet : r = t[i]
        BY <1>12
    <2>2. CASE gateway /\ t[i].alert = x
        <3>1. rows'[i] = [r EXCEPT !.group = g]
            BY <1>13, <1>14, <2>1, <2>2
        <3>2. /\ rows'[i] \in RowSet /\ rows'[i].category = r.category
              /\ rows'[i].seen = r.seen /\ rows'[i].alert = r.alert /\ rows'[i].group = g
              /\ rows'[i].outside = r.outside
            BY <3>1 DEF RowSet
        <3>. QED
            BY <1>14, <2>1, <2>2, <3>2
    <2>3. CASE ~ (gateway /\ t[i].alert = x)
        BY <1>13, <2>1, <2>3
    <2>. QED
        BY <2>2, <2>3
<1>16. rows' \in Seq(RowSet) /\ DOMAIN rows' = DOMAIN t
    <2>1. PICK k \in Nat : DOMAIN t = 1..k
        BY <1>12
    <2>2. rows' \in [1..k -> RowSet]
        BY <1>13, <1>15, <2>1
    <2>. QED
        BY <2>1, <2>2
<1>17. \/ x \in linked /\ changes' = changes + 1
       \/ x \notin linked /\ changes' = changes
       \/ /\ x \in linked /\ changes' = changes
          /\ \A i \in DOMAIN rows : rows'[i].group = rows[i].group
    BY <1>12, <1>13, <1>15
<1>. QED
    BY <1>1, <1>12, <1>15, <1>16, <1>17

\* A live event: a linked alert's rows are moved without a recalculation, or left as they
\* are; its new rows, and those of another alert, are not the incident's.
LEMMA LiveEventKeeps ==
    ASSUME ExposureInputs, ExposureInv, NEW x \in LiveAlerts, NEW found \in Seq(Categories),
           Exposures!LiveEvent(x, found)
    PROVE  ExposureInv'
<1>1. PICK c \in Nat : c = clock + 1 /\ clock < c /\ clock' = c
    BY DEF ExposureInv, ExposureShapes, Exposures!LiveEvent, Exposures!Occurs
<1>2. /\ rows' \in Seq(RowSet) /\ DOMAIN rows \subseteq DOMAIN rows'
      /\ \A i \in DOMAIN rows : /\ rows'[i].category = rows[i].category
                                /\ rows'[i].seen = rows[i].seen
                                /\ rows'[i].alert = rows[i].alert
                                /\ rows'[i].outside = rows[i].outside
      /\ \A i \in DOMAIN rows' : \/ i \in DOMAIN rows /\ rows'[i].group = rows[i].group
                                 \/ rows'[i].alert = x /\ rows'[i].group[2] = c
      /\ \A i \in DOMAIN rows' \ DOMAIN rows :
            rows'[i].alert = x /\ rows'[i].outside = (x \in linked)
      /\ \/ x \in linked /\ changes' = changes + 1
         \/ x \notin linked /\ changes' = changes
         \/ /\ x \in linked /\ changes' = changes
            /\ \A i \in DOMAIN rows : rows'[i].group = rows[i].group
    BY <1>1, LiveRows
<1>3. /\ UNCHANGED <<profiles, linked, ruleset, work, lock, refreshed>>
      /\ lock.ledger = None /\ \A v \in Workers : work[v].alert # x
    BY DEF Exposures!LiveEvent, Exposures!Occurs
<1>4. x # None
    BY DEF ExposureInputs
<1>5. \A v \in Workers : work[v].rows = <<>> /\ rows \o work[v].rows = rows
    BY <1>3, OthersWroteNothing
<1>6. changes' \in Nat /\ changes <= changes' /\ (changes' # changes => changes < changes')
    BY <1>2 DEF ExposureInv, ExposureShapes
<1>7. ExposureShapes'
    BY <1>1, <1>2, <1>3, <1>6 DEF ExposureInv, ExposureShapes
<1>8. Exclusive'
    BY <1>3 DEF ExposureInv, Exclusive
<1>9. Grouped(rows', c)
    <2>1. \A i \in DOMAIN rows : rows[i].group[2] # c /\ rows[i].group[2] <= c
        <3>1. ASSUME NEW i \in DOMAIN rows
              PROVE  rows[i].group[2] # c /\ rows[i].group[2] <= c
            <4>1. PICK r \in RowSet : r = rows[i]
                BY DEF ExposureInv, ExposureShapes
            <4>2. PICK n \in Nat : n = rows[i].group[2]
                BY <4>1, GroupNumber DEF RowSet
            <4>3. n <= clock /\ clock \in Nat
                BY <4>2 DEF ExposureInv, ExposureShapes, InGroups, Grouped
            <4>. QED
                BY <1>1, <4>2, <4>3
        <3>. QED
            BY <3>1
    <2>2. \A i \in DOMAIN rows' : rows'[i].group[2] <= c
        BY <1>2, <2>1
    <2>3. ASSUME NEW i \in DOMAIN rows', NEW j \in DOMAIN rows', rows'[i].group = rows'[j].group
          PROVE  \/ rows'[i].seen = rows'[j].seen
                 \/ rows'[i].alert # None /\ rows'[i].alert = rows'[j].alert
        <3>1. CASE rows'[i].group[2] = c
            BY <1>2, <1>4, <2>1, <2>3, <3>1
        <3>2. CASE rows'[i].group[2] # c
            <4>1. /\ i \in DOMAIN rows /\ rows'[i].group = rows[i].group
                  /\ j \in DOMAIN rows /\ rows'[j].group = rows[j].group
                BY <1>2, <2>3, <3>2
            <4>2. \/ rows[i].seen = rows[j].seen
                  \/ rows[i].alert # None /\ rows[i].alert = rows[j].alert
                BY <2>3, <4>1 DEF ExposureInv, InGroups, Grouped
            <4>. QED
                BY <1>2, <4>1, <4>2
        <3>. QED
            BY <3>1, <3>2
    <2>. QED
        BY <2>2, <2>3 DEF Grouped
<1>10. InGroups' /\ \A v \in Workers : rows' \o work'[v].rows = rows'
    <2>1. <<>> \in Seq(RowSet)
        OBVIOUS
    <2>2. rows' \o <<>> = rows'
        BY <1>2, <2>1, Appended
    <2>. QED
        BY <1>1, <1>3, <1>5, <1>9, <2>2 DEF InGroups
<1>11. ASSUME NEW A, x \notin linked => x \notin A, changes' = changes
       PROVE  Exposures!Candidates(rows', A, ruleset) = Exposures!Candidates(rows, A, ruleset)
    <2>0. changes' # changes + 1
        BY <1>11 DEF ExposureInv, ExposureShapes
    <2>1. Exposures!InIncident(rows, A) = Exposures!InIncident(rows', A)
        <3>1. \A i \in DOMAIN rows' :
                 (rows'[i].alert = None \/ rows'[i].alert \in A) /\ ~rows'[i].outside =>
                     i \in DOMAIN rows
            BY <1>2, <1>4, <1>11
        <3>. QED
            BY <1>2, <3>1 DEF Exposures!InIncident
    <2>2. \A n \in Exposures!InIncident(rows, A) :
             rows[n].group = rows'[n].group /\ rows[n].category = rows'[n].category
        BY <1>2, <1>4, <1>11, <2>0 DEF Exposures!InIncident
    <2>. QED
        BY <2>1, <2>2, CandidatesSame
<1>12. Gathered'
    <2>1. refreshed' <= changes' /\ \A v \in Workers : work'[v].seen <= changes'
        <3>1. \A v \in Workers : work[v].seen \in Nat
            BY DEF ExposureInv, ExposureShapes, Tasks
        <3>. QED
            BY <1>3, <1>6, <3>1 DEF ExposureInv, ExposureShapes, Gathered
    <2>2. ASSUME NEW v \in Workers, work'[v].job = "commit"
          PROVE  /\ IsFiniteSet(work'[v].candidates)
                 /\ work'[v].seen = changes' => work'[v].candidates =
                       Exposures!Candidates(rows' \o work'[v].rows, linked'
                           \cup {work'[v].alert}, ruleset')
                 /\ \A k \in work'[v].candidates : Met(k.ids, rows' \o work'[v].rows)
        <3>1. /\ IsFiniteSet(work[v].candidates)
              /\ work[v].seen = changes => work[v].candidates =
                    Exposures!Candidates(rows, linked \cup {work[v].alert}, ruleset)
              /\ \A k \in work[v].candidates : Met(k.ids, rows)
            BY <1>3, <1>5, <2>2 DEF ExposureInv, Gathered
        <3>2. \A k \in work[v].candidates : Met(k.ids, rows')
            BY <1>2, <3>1, MetLater
        <3>3. ASSUME work[v].seen = changes'
              PROVE  work[v].candidates
                         = Exposures!Candidates(rows', linked \cup {work[v].alert}, ruleset)
            <4>1. work[v].seen \in Nat /\ work[v].seen <= changes /\ changes \in Nat
                BY DEF ExposureInv, ExposureShapes, Gathered, Tasks
            <4>2. changes' = changes /\ work[v].seen = changes
                BY <1>6, <3>3, <4>1
            <4>3. x \notin linked => x \notin linked \cup {work[v].alert}
                BY <1>3
            <4>. QED
                BY <1>11, <3>1, <4>2, <4>3
        <3>. QED
            BY <1>3, <1>10, <3>1, <3>2, <3>3
    <2>. QED
        BY <2>1, <2>2 DEF Gathered
<1>13. Combined'
    <2>1. \A n \in DOMAIN profiles : Met(profiles[n].key.ids, rows')
        BY <1>2, MetLater DEF ExposureInv, Combined
    <2>. QED
        BY <1>3, <2>1 DEF Combined
<1>14. Exposures!ProfilesMatchRows'
    <2>1. SUFFICES ASSUME refreshed' = changes'
                   PROVE  Exposures!Current' = Exposures!Candidates(rows', linked', ruleset')
        BY DEF Exposures!ProfilesMatchRows
    <2>2. changes' = changes /\ refreshed = changes
        BY <1>3, <1>6, <2>1 DEF ExposureInv, ExposureShapes, Gathered
    <2>3. Exposures!Current = Exposures!Candidates(rows, linked, ruleset)
        BY <2>2 DEF ExposureInv, Exposures!ProfilesMatchRows
    <2>4. Exposures!Current' = Exposures!Current
        BY <1>3 DEF Exposures!Current
    <2>. QED
        BY <1>3, <1>11, <2>2, <2>3, <2>4
<1>15. Succession(profiles')
    BY <1>3 DEF ExposureInv
<1>. QED
    BY <1>7, <1>8, <1>10, <1>12, <1>13, <1>14, <1>15 DEF ExposureInv

\* A review of a profile.
LEMMA ReviewKeeps ==
    ASSUME ExposureInv, NEW n \in DOMAIN profiles, Exposures!Review(n)
    PROVE  ExposureInv'
<1>1. PICK o \in Nat : o = Len(profiles) /\ DOMAIN profiles = 1..o
    BY DEF ExposureInv, ExposureShapes
<1>2. PICK decision \in {"accepted", "rejected"} :
         profiles' = [profiles EXCEPT ![n].review = decision]
    BY DEF Exposures!Review
<1>3. PICK q \in ProfileSet : q = profiles[n]
    BY DEF ExposureInv, ExposureShapes
<1>4. PICK r : r = [q EXCEPT !.review = decision]
    OBVIOUS
<1>5. r \in ProfileSet /\ r.key = q.key /\ r.current = q.current /\ r.superseded = q.superseded
    BY <1>4 DEF ProfileSet
<1>6. profiles' = [profiles EXCEPT ![n] = r]
    BY <1>2, <1>3, <1>4
<1>7. /\ profiles' \in Seq(ProfileSet) /\ DOMAIN profiles' = DOMAIN profiles
      /\ \A m \in DOMAIN profiles : /\ profiles'[m].key = profiles[m].key
                                   /\ profiles'[m].current = profiles[m].current
                                   /\ profiles'[m].superseded = profiles[m].superseded
    <2>1. profiles \in [1..o -> ProfileSet]
        BY <1>1 DEF ExposureInv, ExposureShapes
    <2>2. profiles' \in [1..o -> ProfileSet]
        BY <1>5, <1>6, <2>1
    <2>. QED
        BY <1>1, <1>3, <1>5, <1>6, <2>1, <2>2
<1>8. UNCHANGED <<rows, linked, ruleset, work, lock, clock, deploys, changes, refreshed>>
    BY DEF Exposures!Review
<1>9. ExposureShapes' /\ Exclusive' /\ InGroups' /\ Gathered'
    BY <1>7, <1>8 DEF ExposureInv, ExposureShapes, Exclusive, InGroups, Gathered
<1>10. Combined'
    BY <1>7, <1>8 DEF ExposureInv, Combined
<1>11. Exposures!Current' = Exposures!Current
    BY <1>7 DEF Exposures!Current
<1>12. Exposures!ProfilesMatchRows'
    BY <1>8, <1>11 DEF ExposureInv, Exposures!ProfilesMatchRows
<1>13. Succession(profiles')
    BY <1>7, ReviewSucceeds DEF ExposureInv
<1>. QED
    BY <1>9, <1>10, <1>12, <1>13 DEF ExposureInv

\* A restart with other rules, while nothing runs.
LEMMA DeployKeeps ==
    ASSUME ExposureInputs, ExposureInv, Exposures!Deploy
    PROVE  ExposureInv'
<1>1. /\ UNCHANGED <<rows, profiles, linked, work, lock, clock, refreshed>>
      /\ ruleset' \in Exposures!Versions /\ changes' = changes + 1
      /\ \A w \in Workers : work[w].job # "commit"
    BY DEF Exposures!Deploy, Exposures!Idle, ExposureInputs
<1>2. changes \in Nat /\ changes' \in Nat /\ changes < changes' /\ refreshed < changes'
      /\ \A w \in Workers : work[w].seen <= changes'
    BY <1>1 DEF ExposureInv, ExposureShapes, Gathered, Tasks
<1>3. ExposureShapes' /\ Exclusive' /\ InGroups' /\ Combined'
    BY <1>1, <1>2 DEF ExposureInv, ExposureShapes, Exclusive, InGroups, Combined
<1>4. Gathered' /\ Exposures!ProfilesMatchRows'
    BY <1>1, <1>2 DEF ExposureInv, ExposureShapes, Gathered, Exposures!ProfilesMatchRows
<1>5. Succession(profiles')
    BY <1>1 DEF ExposureInv
<1>. QED
    BY <1>3, <1>4, <1>5 DEF ExposureInv

\* Nothing is classified at first.
LEMMA ExposureInit ==
    ASSUME ExposureInputs, Exposures!Init
    PROVE  ExposureInv
<1>1. <<>> \in Seq(RowSet) /\ <<>> \in Seq(ProfileSet) /\ <<>> \o <<>> = <<>>
    OBVIOUS
<1>2. Exposures!Idle \in Tasks /\ Exposures!Idle.job = None /\ Exposures!Idle.alert = None
          /\ Exposures!Idle.rows = <<>> /\ Exposures!Idle.seen = 0
    BY <1>1 DEF Exposures!Idle, Tasks
<1>3. Exposures!Idle.job # "commit"
    BY <1>2 DEF ExposureInputs
<1> HIDE DEF Exposures!Idle
<1>4. \A w \in Workers : work[w] = Exposures!Idle
    BY DEF Exposures!Init
<1>5. ExposureShapes
    BY <1>1, <1>2, <1>4 DEF Exposures!Init, ExposureShapes, ExposureInputs
<1>6. Exclusive /\ Gathered
    BY <1>2, <1>3, <1>4 DEF Exposures!Init, Exclusive, Gathered
<1>7. InGroups /\ Combined
    <2>1. DOMAIN rows = {} /\ DOMAIN profiles = {} /\ \A w \in Workers :
              rows \o work[w].rows = rows
        BY <1>1, <1>2, <1>4 DEF Exposures!Init
    <2>. QED
        BY <2>1 DEF InGroups, Combined, Grouped
<1>8. Exposures!ProfilesMatchRows
    <2>1. Exposures!InIncident(rows, linked) = {}
        BY DEF Exposures!Init, Exposures!InIncident
    <2>2. \A k : k \notin Exposures!Candidates(rows, linked, ruleset)
        BY <2>1, CandidateIs
    <2>3. Exposures!Current = {}
        BY DEF Exposures!Init, Exposures!Current
    <2>. QED
        BY <2>2, <2>3 DEF Exposures!ProfilesMatchRows
<1>9. Succession(profiles)
    <2>1. DOMAIN profiles = {}
        BY DEF Exposures!Init
    <2>. QED
        BY <2>1 DEF Succession
<1>. QED
    BY <1>5, <1>6, <1>7, <1>8, <1>9 DEF ExposureInv

\* What a scan, a detection or an event finds is a sequence of categories.
LEMMA FoundIs ==
    ASSUME ExposureInputs
    PROVE  Exposures!Found \subseteq Seq(Categories)
<1>1. ASSUME NEW S \in SUBSET Categories
      PROVE  Exposures!SetToSeq(S) \in Seq(Categories)
    <2>1. IsFiniteSet(S)
        BY FS_Subset DEF ExposureInputs
    <2>2. Exposures!SetToSeq(S) \in Seq(S)
        BY <2>1, SetInOrder
    <2>. QED
        BY <2>2
<1>. QED
    BY <1>1 DEF Exposures!Found

\* Every step keeps the invariant.
LEMMA ExposureStep ==
    ASSUME ExposureInputs, ExposureInv, [Exposures!Next]_Exposures!vars
    PROVE  ExposureInv'
<1>1. CASE UNCHANGED Exposures!vars
    <2>1. /\ rows' = rows /\ profiles' = profiles /\ linked' = linked /\ ruleset' = ruleset
          /\ work' = work /\ lock' = lock /\ clock' = clock /\ changes' = changes
          /\ refreshed' = refreshed
        BY <1>1 DEF Exposures!vars
    <2>2. ExposureShapes' /\ Exclusive' /\ InGroups'
        BY <2>1 DEF ExposureInv, ExposureShapes, Exclusive, InGroups
    <2>3. Gathered' /\ Combined'
        BY <2>1 DEF ExposureInv, Gathered, Combined
    <2>4. Exposures!ProfilesMatchRows'
        BY <2>1 DEF ExposureInv, Exposures!ProfilesMatchRows, Exposures!Current
    <2>5. Succession(profiles')
        BY <2>1 DEF ExposureInv
    <2>. QED
        BY <2>2, <2>3, <2>4, <2>5 DEF ExposureInv
<1>2. ASSUME NEW w \in Workers, NEW found \in Exposures!Found, Exposures!Classify(w, found)
      PROVE  ExposureInv'
    BY <1>2, FoundIs, ClassifyKeeps
<1>3. ASSUME NEW w \in Workers,
             (\E x \in LiveAlerts : Exposures!BeginLink(w, x)) \/ Exposures!BeginRecalculate(w)
      PROVE  ExposureInv'
    BY <1>3, BeginKeepsProfiles
<1>4. ASSUME NEW w \in Workers, Exposures!Read(w) \/ Exposures!Commit(w) \/ Exposures!Abort(w)
      PROVE  ExposureInv'
    BY <1>4, ReadKeeps, CommitKeepsProfiles, AbortKeeps
<1>5. ASSUME NEW x \in LiveAlerts, NEW found \in Exposures!Found, Exposures!LiveEvent(x, found)
      PROVE  ExposureInv'
    BY <1>5, FoundIs, LiveEventKeeps
<1>6. ASSUME NEW n \in DOMAIN profiles, Exposures!Review(n)
      PROVE  ExposureInv'
    BY <1>6, ReviewKeeps
<1>. QED
    BY <1>1, <1>2, <1>3, <1>4, <1>5, <1>6, DeployKeeps DEF Exposures!Next

\* The invariant holds of every behaviour.
LEMMA ExposureAlways ==
    ASSUME ExposureInputs
    PROVE  Exposures!Spec => []ExposureInv
<1>1. Exposures!Init => ExposureInv
    BY ExposureInit
<1>2. ExposureInv /\ [Exposures!Next]_Exposures!vars => ExposureInv'
    BY ExposureStep
<1>. QED
    BY <1>1, <1>2, PTL DEF Exposures!Spec

\* A profile combines only values that came in one event, in one evidence file or in events
\* of one alert (exposure_profile_service.evaluate_exposure_profiles, _profile_key).
THEOREM ValuesCameTogether ==
    ASSUME ExposureInputs
    PROVE  Exposures!Spec => []CombinedTogether
<1>1. ExposureInv => CombinedTogether
    BY DEF CombinedTogether, ExposureInv, Combined, Met, Exposures!CombinedTogether
<1>. QED
    BY <1>1, ExposureAlways, PTL

\* A way is no longer than there are profiles.
LEMMA WaysAreShort ==
    ASSUME profiles \in Seq(ProfileSet), Succession(profiles)
    PROVE  Exposures!SupersessionEnds
<1>1. PICK o \in Nat : o = Len(profiles) /\ DOMAIN profiles = 1..o
    OBVIOUS
<1>2. SUFFICES ASSUME NEW n \in 1..o, profiles[n].superseded # 0
               PROVE  /\ ~ profiles[n].current
                      /\ Exposures!Logical(profiles[profiles[n].superseded].key)
                             = Exposures!Logical(profiles[n].key)
                      /\ \E k \in 1..o :
                            /\ profiles[k].superseded = 0
                            /\ \E path \in Exposures!SeqOf(1..o, o) :
                                  /\ path # <<>> /\ path[1] = n /\ path[Len(path)] = k
                                  /\ \A i \in 1..(Len(path) - 1) :
                                        profiles[path[i]].superseded = path[i + 1]
    BY <1>1 DEF Exposures!SupersessionEnds
<1>3. /\ ~ profiles[n].current
      /\ Exposures!Logical(profiles[profiles[n].superseded].key)
             = Exposures!Logical(profiles[n].key)
    BY <1>1, <1>2 DEF Succession
<1>4. PICK path \in Seq(1..o) : Way(profiles, n, path)
    BY <1>1 DEF Succession
<1>5. PICK l \in Nat : l = Len(path) /\ l >= 1
    BY <1>4 DEF Way
<1>6. path \in [1..l -> 1..o] /\ \A i, j \in 1..l : path[i] = path[j] => i = j
    BY <1>4, <1>5 DEF Way
<1>7. l <= o
    <2>1. path \in Injection(1..l, 1..o)
        BY <1>6 DEF Injection, IsInjective
    <2>2. IsFiniteSet(1..o) /\ Cardinality(1..o) = o /\ Cardinality(1..l) = l
        BY FS_Interval
    <2>. QED
        BY <2>1, <2>2, FS_Injection
<1>8. path \in Exposures!SeqOf(1..o, o)
    <2>1. l \in 0..o
        BY <1>7
    <2>. QED
        BY <1>6, <2>1 DEF Exposures!SeqOf
<1>9. path[l] \in 1..o
    BY <1>5, <1>6
<1>. QED
    BY <1>3, <1>4, <1>5, <1>8, <1>9 DEF Way

\* However requests overlap, and whatever the rules are, the incident's current profiles are
\* those its committed rows call for, unless a linked alert recurred or the rules changed since
\* the last recalculation; a profile that gave way points to one of its own rule and group, and
\* the pointers end (exposure_profile_service.recalculate_profiles).
THEOREM ProfilesAreSettled ==
    ASSUME ExposureInputs
    PROVE  Exposures!Spec => []ProfilesSettle
<1>1. ExposureInv => ProfilesSettle
    BY WaysAreShort DEF ProfilesSettle, ExposureInv, ExposureShapes, Exposures!ProfilesSettle
<1>. QED
    BY <1>1, ExposureAlways, PTL

-----------------------------------------------------------------------------
(* Evidence files: the invariant *)

\* A row is not None, the manifest lists ids, and a sample's content is a content.
FileInputs ==
    /\ None \notin [content : Contents, status : Store!Statuses]
    /\ Samples \in Seq(Store!SampleIds) /\ SampleOf \in [Store!SampleIds -> Contents]

Handlings == {"delete", "store", "detect"}
Jobs == {"idle", "load", "write", "insert", "commit"} \cup Handlings
Requests == [job : Jobs, id : Store!Ids \cup {None}, content : Contents \cup {None},
             rest : Seq(Store!SampleIds), force : BOOLEAN, known : BOOLEAN]

\* Who registers or handles a file, and which.
FileShapes ==
    /\ registered \in [Store!Ids -> {None} \cup [content : Contents, status : Store!Statuses]]
    /\ detections \in [Store!Ids -> [attached : Nat, detached : Nat]]
    /\ handling \in [Workers -> Requests]
    /\ \A w \in Workers : handling[w].job \notin {"idle", "load"} => handling[w].id \in Store!Ids
    /\ \A w \in Workers : handling[w].job \in {"write", "insert", "commit"} =>
          handling[w].content \in Contents

\* A registration has written its file, unless another one took it away, and one request at
\* a time holds the id it is about to commit.
Registering ==
    /\ \A w \in Workers : handling[w].job \in {"insert", "commit"} =>
          handling[w].id \in stored \cup clashed
    /\ \A w \in Workers : handling[w].job = "commit" => registered[handling[w].id] = None
    /\ \A v, w \in Workers :
          handling[v].job = "commit" /\ handling[w].job = "commit"
             /\ handling[v].id = handling[w].id => v = w

\* What was never committed nobody parses or searches.
Unregistered ==
    /\ \A i \in Store!Ids : registered[i] = None =>
          i \notin parsed /\ i \notin pinned /\ detections[i].attached = 0
    /\ \A w \in Workers : handling[w].job \in Handlings => registered[handling[w].id] # None

\* Unless requests overlapped on it, a file has one request that handles it: while that
\* parses, the status says so, and while it detects, it knows what was found.
Alone ==
    /\ \A v, w \in Workers :
          handling[v].job \in Handlings /\ handling[w].job \in Handlings
             /\ handling[v].id = handling[w].id /\ handling[v].id \notin overlapped => v = w
    /\ \A w \in Workers : handling[w].job \in {"delete", "store"}
           /\ handling[w].id \notin overlapped =>
          registered[handling[w].id].status = "parsing"
    /\ \A w \in Workers : handling[w].job = "detect" /\ handling[w].id \notin overlapped =>
          (handling[w].known <=> detections[handling[w].id].attached > 0)

\* What the status tells holds while a request handles the file too: it says "parsing" then,
\* or the request only detects.
Told == \A i \in Store!Ids \ overlapped : registered[i] # None =>
    /\ registered[i].status = "parsed" => i \in parsed
    /\ registered[i].status = "pending" => i \notin parsed
    /\ registered[i].status = "failed" =>
          i \in parsed \/ i \in clashed \/ registered[i].content \in Unreadable

FilesInv == FileShapes /\ Registering /\ Unregistered /\ Alone /\ Told
            /\ Store!FilesKept /\ Store!FoundOnce

-----------------------------------------------------------------------------
(* Evidence files: the steps *)

\* The program starts without files.
LEMMA FilesInit ==
    ASSUME FileInputs, Store!Init
    PROVE  FilesInv
<1>1. \A i \in Store!Ids : registered[i] = None
          /\ detections[i] = [attached |-> 0, detached |-> 0]
    BY DEF Store!Init
<1>2. \A w \in Workers : handling[w] = Store!Idle
    BY DEF Store!Init
<1>3. Store!Idle \in Requests /\ Store!Idle.job = "idle"
    <2>1. <<>> \in Seq(Store!SampleIds)
        OBVIOUS
    <2>. QED
        BY <2>1 DEF Store!Idle, Requests, Jobs
<1>4. FileShapes
    BY <1>1, <1>2, <1>3 DEF FileShapes, Store!Init
<1>5. /\ Registering /\ Unregistered /\ Alone /\ Told
    BY <1>1, <1>2, <1>3 DEF Registering, Unregistered, Alone, Told, Handlings, Store!Init
<1>6. Store!FilesKept /\ Store!FoundOnce
    BY <1>1 DEF Store!FilesKept, Store!FoundOnce, Store!Init
<1>. QED
    BY <1>4, <1>5, <1>6 DEF FilesInv

\* A request that neither commits a row nor handles a file.
LEMMA FilesRest ==
    ASSUME FilesInv, NEW w \in Workers, NEW r \in Requests,
           handling' = [handling EXCEPT ![w] = r],
           r.job \in {"idle", "load", "write", "insert"},
           r.job \in {"write", "insert"} => r.id \in Store!Ids /\ r.content \in Contents,
           r.job = "insert" => r.id \in stored' \cup clashed',
           UNCHANGED <<registered, parsed, detections, pinned, overlapped>>,
           stored \cup clashed \subseteq stored' \cup clashed', clashed \subseteq clashed'
    PROVE  FilesInv'
<1>1. /\ \A v \in Workers : handling'[v] = IF v = w THEN r ELSE handling[v]
      /\ handling' \in [Workers -> Requests]
    BY DEF FilesInv, FileShapes
<1>2. r.job \notin Handlings /\ r.job # "commit"
    BY DEF Handlings
<1>3. FileShapes'
    BY <1>1 DEF FilesInv, FileShapes, Store!Ids
<1>4. Registering' /\ Unregistered' /\ Alone'
    BY <1>1, <1>2 DEF FilesInv, Registering, Unregistered, Alone, Handlings
<1>5. Told' /\ Store!FilesKept' /\ Store!FoundOnce'
    BY DEF FilesInv, Told, Store!FilesKept, Store!FoundOnce
<1>. QED
    BY <1>3, <1>4, <1>5 DEF FilesInv

\* Uploads, loads, the entries of the manifest, and the file before its row.
LEMMA RegistrationKeeps ==
    ASSUME FileInputs, FilesInv, NEW w \in Workers,
           \/ \E i \in Uploads, c \in Contents : Store!Upload(w, i, c)
           \/ Store!Load(w) \/ Store!NextEntry(w) \/ Store!Write(w) \/ Store!GiveUp(w)
    PROVE  FilesInv'
<1> DEFINE same == UNCHANGED <<registered, parsed, detections, pinned, overlapped>>
<1>1. handling[w] \in Requests
    BY DEF FilesInv, FileShapes
<1>2. Store!Idle \in Requests /\ Store!Idle.job = "idle"
    <2>1. <<>> \in Seq(Store!SampleIds)
        OBVIOUS
    <2>. QED
        BY <2>1 DEF Store!Idle, Requests, Jobs
<1>3. ASSUME NEW i \in Uploads, NEW c \in Contents, Store!Upload(w, i, c)
      PROVE  FilesInv'
    <2>1. PICK r : r = [Store!Idle EXCEPT !.job = "write", !.id = i, !.content = c]
        OBVIOUS
    <2>2. /\ handling' = [handling EXCEPT ![w] = r] /\ same
          /\ UNCHANGED <<stored, clashed>>
        BY <1>3, <2>1 DEF Store!Upload
    <2>3. r \in Requests /\ r.job = "write" /\ r.id = i /\ i \in Store!Ids /\ r.content = c
        BY <1>2, <2>1 DEF Requests, Jobs, Store!Ids
    <2>. QED
        BY <2>2, <2>3, FilesRest
<1>4. CASE Store!Load(w)
    <2>1. PICK r : r = [Store!Idle EXCEPT !.job = "load", !.rest = Samples]
        OBVIOUS
    <2>2. /\ handling' = [handling EXCEPT ![w] = r] /\ same
          /\ UNCHANGED <<stored, clashed>>
        BY <1>4, <2>1 DEF Store!Load
    <2>3. r \in Requests /\ r.job = "load"
        BY <1>2, <2>1 DEF Requests, Jobs, FileInputs
    <2>. QED
        BY <2>2, <2>3, FilesRest
<1>5. CASE Store!NextEntry(w)
    <2>1. /\ handling[w].job = "load" /\ same /\ UNCHANGED <<stored, clashed>>
          /\ handling' = [handling EXCEPT ![w] =
               IF handling[w].rest = <<>> THEN Store!Idle
               ELSE IF \/ Store!evidence_id_exists(handling[w].rest[1])
                       \/ Store!hash_exists(SampleOf[handling[w].rest[1]])
                    THEN [handling[w] EXCEPT !.rest = Tail(handling[w].rest)]
                    ELSE [handling[w] EXCEPT !.rest = Tail(handling[w].rest), !.job = "write",
                             !.id = handling[w].rest[1], !.content
                                 = SampleOf[handling[w].rest[1]]]]
        BY <1>5 DEF Store!NextEntry, Store!Serves, FilesInv, FileShapes
    <2>2. PICK rest \in Seq(Store!SampleIds) : rest = handling[w].rest
        BY <1>1 DEF Requests
    <2>3. CASE rest = <<>>
        <3>1. handling' = [handling EXCEPT ![w] = Store!Idle]
            BY <2>1, <2>2, <2>3
        <3>. QED
            BY <1>2, <2>1, <3>1, FilesRest
    <2>4. CASE rest # <<>>
        <3>1. Tail(rest) \in Seq(Store!SampleIds) /\ rest[1] \in Store!SampleIds
            BY <2>4, HeadTailProperties, ElementOfSeq
        <3>2. PICK r : r = [handling[w] EXCEPT !.rest = Tail(rest)]
            OBVIOUS
        <3>3. r \in Requests /\ r.job = "load"
            BY <1>1, <2>1, <3>1, <3>2 DEF Requests
        <3>4. PICK q : q = [handling[w] EXCEPT !.rest = Tail(rest), !.job = "write",
                               !.id = rest[1], !.content = SampleOf[rest[1]]]
            OBVIOUS
        <3>5. SampleOf[rest[1]] \in Contents /\ rest[1] \in Store!Ids
            BY <3>1 DEF FileInputs, Store!Ids
        <3>6. /\ q \in Requests /\ q.job = "write" /\ q.id \in Store!Ids /\ q.content \in Contents
            BY <1>1, <3>1, <3>4, <3>5 DEF Requests, Jobs
        <3>7. \/ handling' = [handling EXCEPT ![w] = r]
              \/ handling' = [handling EXCEPT ![w] = q]
            BY <2>1, <2>2, <2>4, <3>2, <3>4
        <3>. QED
            BY <2>1, <3>3, <3>6, <3>7, FilesRest
    <2>. QED
        BY <2>3, <2>4
<1>6. CASE Store!Write(w)
    <2>1. PICK r : r = [handling[w] EXCEPT !.job = "insert"]
        OBVIOUS
    <2>2. /\ handling' = [handling EXCEPT ![w] = r] /\ same /\ clashed' = clashed
          /\ handling[w].job = "write" /\ stored' = stored \cup {handling[w].id}
        BY <1>6, <2>1 DEF Store!Write, Store!Serves, FilesInv, FileShapes
    <2>3. /\ r \in Requests /\ r.job = "insert" /\ r.id = handling[w].id
          /\ r.content = handling[w].content
        BY <1>1, <2>1 DEF Requests, Jobs
    <2>4. handling[w].id \in Store!Ids /\ handling[w].content \in Contents
        BY <2>2 DEF FilesInv, FileShapes
    <2>. QED
        BY <2>2, <2>3, <2>4, FilesRest
<1>7. CASE Store!GiveUp(w)
    <2>1. /\ handling' = [handling EXCEPT ![w] = Store!Idle] /\ same
          /\ stored' = stored \ {handling[w].id} /\ clashed' = clashed \cup {handling[w].id}
        BY <1>7 DEF Store!GiveUp
    <2>. QED
        BY <1>2, <2>1, FilesRest
<1>. QED
    BY <1>3, <1>4, <1>5, <1>6, <1>7

\* The row waits for its commit.
LEMMA InsertKeeps ==
    ASSUME FilesInv, NEW w \in Workers, Store!Insert(w)
    PROVE  FilesInv'
<1>1. PICK r : r = [handling[w] EXCEPT !.job = "commit"]
    OBVIOUS
<1>2. /\ handling' = [handling EXCEPT ![w] = r] /\ handling[w].job = "insert"
      /\ handling[w].id \in Store!Ids /\ handling[w].content \in Contents
      /\ registered[handling[w].id] = None
      /\ \A v \in Workers : handling[v].job = "commit" => handling[v].id # handling[w].id
      /\ UNCHANGED <<registered, stored, parsed, detections, pinned, clashed, overlapped>>
    BY <1>1 DEF Store!Insert, Store!Serves, Store!evidence_id_exists, FilesInv, FileShapes
<1>3. /\ r \in Requests /\ r.job = "commit" /\ r.id = handling[w].id
             /\ r.content = handling[w].content
    BY <1>1, <1>2 DEF FilesInv, FileShapes, Requests, Jobs
<1>4. /\ \A v \in Workers : handling'[v] = IF v = w THEN r ELSE handling[v]
      /\ handling' \in [Workers -> Requests]
    BY <1>2, <1>3 DEF FilesInv, FileShapes
<1>5. FileShapes'
    BY <1>2, <1>3, <1>4 DEF FilesInv, FileShapes, Store!Ids
<1>6. Registering'
    BY <1>2, <1>3, <1>4 DEF FilesInv, Registering
<1>7. Unregistered' /\ Alone'
    BY <1>2, <1>3, <1>4 DEF FilesInv, Unregistered, Alone, Handlings
<1>8. Told' /\ Store!FilesKept' /\ Store!FoundOnce'
    BY <1>2 DEF FilesInv, Told, Store!FilesKept, Store!FoundOnce
<1>. QED
    BY <1>5, <1>6, <1>7, <1>8 DEF FilesInv

\* A committed row is pending, and its file was written.
LEMMA CommitKeeps ==
    ASSUME FileInputs, FilesInv, NEW w \in Workers, Store!Commit(w)
    PROVE  FilesInv'
<1>1. PICK r : r = IF handling[w].id \in Store!SampleIds
                   THEN [Store!Idle EXCEPT !.job = "load", !.rest = handling[w].rest]
                       ELSE Store!Idle
    OBVIOUS
<1>2. PICK row : row = [content |-> handling[w].content, status |-> "pending"]
    OBVIOUS
<1>3. PICK i \in Store!Ids : i = handling[w].id
    BY DEF Store!Commit, Store!Serves, FilesInv, FileShapes
<1>4. /\ handling' = [handling EXCEPT ![w] = r] /\ handling[w].job = "commit"
      /\ registered' = [registered EXCEPT ![i] = row]
      /\ UNCHANGED <<stored, parsed, detections, pinned, clashed, overlapped>>
    BY <1>1, <1>2, <1>3 DEF Store!Commit, Store!Serves
<1>5. registered[i] = None /\ i \in stored \cup clashed /\ handling[w].content \in Contents
    BY <1>3, <1>4 DEF FilesInv, Registering, FileShapes
<1>6. /\ row \in [content : Contents, status : Store!Statuses] /\ row.status = "pending"
      /\ row # None
    <2>1. row \in [content : Contents, status : Store!Statuses] /\ row.status = "pending"
        BY <1>2, <1>5 DEF Store!Statuses
    <2>. QED
        BY <2>1 DEF FileInputs
<1>7. r \in Requests /\ r.job \in {"idle", "load"}
    <2>1. <<>> \in Seq(Store!SampleIds) /\ handling[w].rest \in Seq(Store!SampleIds)
        BY DEF FilesInv, FileShapes, Requests
    <2>. QED
        BY <1>1, <2>1 DEF Store!Idle, Requests, Jobs
<1>8. /\ \A v \in Workers : handling'[v] = IF v = w THEN r ELSE handling[v]
      /\ handling' \in [Workers -> Requests]
    BY <1>4, <1>7 DEF FilesInv, FileShapes
<1>9. /\ \A j \in Store!Ids : registered'[j] = IF j = i THEN row ELSE registered[j]
      /\ registered' \in [Store!Ids -> {None} \cup [content : Contents, status : Store!Statuses]]
    BY <1>4, <1>6 DEF FilesInv, FileShapes
<1>10. FileShapes'
    BY <1>4, <1>7, <1>8, <1>9 DEF FilesInv, FileShapes, Store!Ids, Store!Statuses
<1>11. /\ \A v \in Workers : handling[v].job \in Handlings => handling[v].id # i
       /\ \A v \in Workers \ {w} : handling[v].job = "commit" => handling[v].id # i
       /\ i \notin parsed
    BY <1>3, <1>4, <1>5 DEF FilesInv, Unregistered, Registering
<1>12. Registering'
    BY <1>4, <1>7, <1>8, <1>9, <1>11 DEF FilesInv, Registering, FileShapes
<1>13. Unregistered'
    BY <1>4, <1>6, <1>7, <1>8, <1>9, <1>11 DEF FilesInv, Unregistered, Handlings, FileShapes
<1>14. Alone'
    BY <1>4, <1>7, <1>8, <1>9, <1>11 DEF FilesInv, Alone, Handlings, FileShapes
<1>15. Told'
    BY <1>4, <1>6, <1>9, <1>11 DEF FilesInv, Told
<1>16. Store!FilesKept' /\ Store!FoundOnce'
    BY <1>4, <1>5, <1>9 DEF FilesInv, Store!FilesKept, Store!FoundOnce
<1>. QED
    BY <1>10, <1>12, <1>13, <1>14, <1>15, <1>16 DEF FilesInv

\* A row whose status changes is the row of the same content.
LEMMA StatusWritten ==
    ASSUME FileInputs, FilesInv, NEW i \in Store!Ids, registered[i] # None,
           NEW s \in Store!Statuses, registered' = [registered EXCEPT ![i].status = s]
    PROVE  /\ registered'
                  \in [Store!Ids -> {None} \cup [content : Contents, status : Store!Statuses]]
           /\ registered'[i] # None /\ registered'[i].status = s
           /\ registered'[i].content = registered[i].content
           /\ \A j \in Store!Ids \ {i} : registered'[j] = registered[j]
           /\ \A j \in Store!Ids : registered'[j] = None <=> registered[j] = None
<1>1. registered \in [Store!Ids -> {None} \cup [content : Contents, status : Store!Statuses]]
    BY DEF FilesInv, FileShapes
<1>2. registered[i] \in [content : Contents, status : Store!Statuses]
    BY <1>1
<1>3. PICK row : row = [registered[i] EXCEPT !.status = s]
    OBVIOUS
<1>4. /\ row \in [content : Contents, status : Store!Statuses] /\ row.status = s
      /\ row.content = registered[i].content
    BY <1>2, <1>3
<1>5. row # None
    BY <1>4 DEF FileInputs
<1>6. registered' = [registered EXCEPT ![i] = row]
    BY <1>1, <1>3
<1>. QED
    BY <1>1, <1>4, <1>5, <1>6

\* The requests after a step of one of them.
LEMMA HandlingWritten ==
    ASSUME FilesInv, NEW w \in Workers, NEW r \in Requests, handling' = [handling EXCEPT ![w] = r]
    PROVE  /\ \A v \in Workers : handling'[v] = IF v = w THEN r ELSE handling[v]
           /\ handling' \in [Workers -> Requests]
BY DEF FilesInv, FileShapes

\* A request to parse marks the file.
LEMMA BeginKeeps ==
    ASSUME FileInputs, FilesInv, NEW w \in Workers, NEW i \in Store!Ids, NEW force \in BOOLEAN,
           Store!Begin(w, i, force)
    PROVE  FilesInv'
<1>1. PICK r : r = [Store!Idle EXCEPT !.job = IF force THEN "delete" ELSE "store",
                                      !.id = i, !.force = force]
    OBVIOUS
<1>2. /\ handling' = [handling EXCEPT ![w] = r] /\ handling[w].job = "idle"
      /\ registered' = [registered EXCEPT ![i].status = "parsing"] /\ registered[i] # None
      /\ Store!Overlaps(i)
      /\ UNCHANGED <<stored, parsed, detections, pinned, clashed>>
    BY <1>1 DEF Store!Begin, Store!Serves
<1>3. r \in Requests /\ r.job \in {"delete", "store"} /\ r.id = i
    <2>1. <<>> \in Seq(Store!SampleIds)
        OBVIOUS
    <2>. QED
        BY <1>1, <2>1 DEF Store!Idle, Requests, Jobs, Handlings
<1>4. /\ \A v \in Workers : handling'[v] = IF v = w THEN r ELSE handling[v]
      /\ handling' \in [Workers -> Requests]
    BY <1>2, <1>3, HandlingWritten
<1>5. /\ registered' \in [Store!Ids -> {None} \cup [content : Contents, status : Store!Statuses]]
      /\ registered'[i] # None /\ registered'[i].status = "parsing"
      /\ \A j \in Store!Ids \ {i} : registered'[j] = registered[j]
      /\ \A j \in Store!Ids : registered'[j] = None <=> registered[j] = None
    BY <1>2, StatusWritten DEF Store!Statuses
<1>6. /\ overlapped \subseteq overlapped'
      /\ i \notin overlapped' => \A v \in Workers : handling[v].job \in Handlings
             => handling[v].id # i
    BY <1>2 DEF Store!Overlaps, Store!Handled, Handlings
<1>7. FileShapes'
    BY <1>2, <1>3, <1>4, <1>5 DEF FilesInv, FileShapes, Store!Ids, Store!Statuses
<1>8. Registering'
    BY <1>2, <1>3, <1>4, <1>5 DEF FilesInv, Registering, FileShapes
<1>9. Unregistered'
    BY <1>2, <1>3, <1>4, <1>5 DEF FilesInv, Unregistered, Handlings, FileShapes
<1>10. Alone'
    BY <1>2, <1>3, <1>4, <1>5, <1>6 DEF FilesInv, Alone, Handlings, FileShapes
<1>11. Told'
    BY <1>2, <1>5, <1>6 DEF FilesInv, Told
<1>12. Store!FilesKept' /\ Store!FoundOnce'
    BY <1>2, <1>5, <1>6 DEF FilesInv, Store!FilesKept, Store!FoundOnce
<1>. QED
    BY <1>7, <1>8, <1>9, <1>10, <1>11, <1>12 DEF FilesInv

\* A request to detect notes what was found.
LEMMA BeginDetectKeeps ==
    ASSUME FilesInv, NEW w \in Workers, NEW i \in Store!Ids, NEW force \in BOOLEAN,
           Store!BeginDetect(w, i, force)
    PROVE  FilesInv'
<1>1. PICK known \in BOOLEAN : known <=> detections[i].attached > 0
    <2>1. (detections[i].attached > 0) \in BOOLEAN
        OBVIOUS
    <2>. QED
        BY <2>1
<1>2. PICK r : r
          = [Store!Idle EXCEPT !.job = "detect", !.id = i, !.force = force, !.known = known]
    OBVIOUS
<1>3. (detections[i].attached > 0) = known
    BY <1>1
<1>4. /\ handling' = [handling EXCEPT ![w] = [Store!Idle EXCEPT !.job = "detect", !.id = i,
                         !.force = force, !.known = detections[i].attached > 0]]
      /\ handling[w].job = "idle" /\ registered[i] # None /\ Store!Overlaps(i)
      /\ UNCHANGED <<registered, stored, parsed, detections, pinned, clashed>>
    BY DEF Store!BeginDetect, Store!Serves
<1>5. handling' = [handling EXCEPT ![w] = r]
    BY <1>2, <1>3, <1>4
<1>6. r \in Requests /\ r.job = "detect" /\ r.id = i /\ r.known = known
    <2>1. <<>> \in Seq(Store!SampleIds)
        OBVIOUS
    <2>. QED
        BY <1>2, <2>1 DEF Store!Idle, Requests, Jobs, Handlings
<1>7. /\ \A v \in Workers : handling'[v] = IF v = w THEN r ELSE handling[v]
      /\ handling' \in [Workers -> Requests]
    BY <1>5, <1>6, HandlingWritten
<1>8. /\ overlapped \subseteq overlapped'
      /\ i \notin overlapped' => \A v \in Workers : handling[v].job \in Handlings
             => handling[v].id # i
    BY <1>4 DEF Store!Overlaps, Store!Handled, Handlings
<1>9. FileShapes'
    BY <1>4, <1>6, <1>7 DEF FilesInv, FileShapes, Store!Ids
<1>10. Registering' /\ Unregistered'
    BY <1>4, <1>6, <1>7 DEF FilesInv, Registering, Unregistered, Handlings
<1>11. Alone'
    <2>1. \A v, u \in Workers :
              handling'[v].job \in Handlings /\ handling'[u].job \in Handlings
                 /\ handling'[v].id = handling'[u].id /\ handling'[v].id \notin overlapped'
                        => v = u
        BY <1>6, <1>7, <1>8 DEF FilesInv, Alone
    <2>2. \A v \in Workers :
              handling'[v].job \in {"delete", "store"} /\ handling'[v].id \notin overlapped' =>
                 registered[handling'[v].id].status = "parsing"
        BY <1>6, <1>7, <1>8 DEF FilesInv, Alone
    <2>3. ASSUME NEW v \in Workers, handling'[v].job
                     = "detect", handling'[v].id \notin overlapped'
          PROVE  handling'[v].known <=> detections[handling'[v].id].attached > 0
        <3>1. CASE v = w
            BY <1>1, <1>6, <1>7, <3>1
        <3>2. CASE v # w
            <4>1. handling'[v] = handling[v]
                BY <1>7, <3>2
            <4>. QED
                BY <2>3, <1>8, <4>1 DEF FilesInv, Alone
        <3>. QED
            BY <3>1, <3>2
    <2>. QED
        BY <1>4, <2>1, <2>2, <2>3 DEF Alone
<1>12. Told' /\ Store!FilesKept' /\ Store!FoundOnce'
    BY <1>4, <1>8 DEF FilesInv, Told, Store!FilesKept, Store!FoundOnce
<1>. QED
    BY <1>9, <1>10, <1>11, <1>12 DEF FilesInv

\* A forced parse takes away the events and detaches their detections.
LEMMA DeleteKeeps ==
    ASSUME FilesInv, NEW w \in Workers, Store!Delete(w)
    PROVE  FilesInv'
<1>1. PICK r : r = [handling[w] EXCEPT !.job = "store"]
    OBVIOUS
<1>2. PICK i \in Store!Ids : i = handling[w].id
    BY DEF Store!Delete, Store!Serves, FilesInv, FileShapes
<1>3. /\ handling' = [handling EXCEPT ![w] = r] /\ handling[w].job = "delete"
      /\ i \notin pinned /\ parsed' = parsed \ {i}
      /\ detections' = [detections EXCEPT ![i] =
             [attached |-> 0, detached |-> detections[i].detached + detections[i].attached]]
      /\ UNCHANGED <<registered, stored, pinned, clashed, overlapped>>
    BY <1>1, <1>2 DEF Store!Delete, Store!Serves, FilesInv, FileShapes
<1>4. r \in Requests /\ r.job = "store" /\ r.id = i
    BY <1>1, <1>2 DEF FilesInv, FileShapes, Requests, Jobs, Handlings
<1>5. /\ \A v \in Workers : handling'[v] = IF v = w THEN r ELSE handling[v]
      /\ handling' \in [Workers -> Requests]
    BY <1>3, <1>4, HandlingWritten
<1>6. /\ detections' \in [Store!Ids -> [attached : Nat, detached : Nat]]
      /\ detections'[i].attached = 0
      /\ \A j \in Store!Ids \ {i} : detections'[j] = detections[j]
    <2>1. detections \in [Store!Ids -> [attached : Nat, detached : Nat]]
        BY DEF FilesInv, FileShapes
    <2>2. PICK n \in Nat : n = detections[i].detached + detections[i].attached
        BY <2>1
    <2>3. detections' = [detections EXCEPT ![i] = [attached |-> 0, detached |-> n]]
        BY <1>3, <2>2
    <2>. QED
        BY <2>1, <2>3
<1>7. FileShapes'
    BY <1>3, <1>4, <1>5, <1>6 DEF FilesInv, FileShapes, Store!Ids
<1>8. Registering' /\ Unregistered'
    BY <1>2, <1>3, <1>4, <1>5, <1>6 DEF FilesInv, Registering, Unregistered, Handlings
<1>9. Alone'
    <2>1. \A v, u \in Workers :
              handling'[v].job \in Handlings /\ handling'[u].job \in Handlings
                 /\ handling'[v].id = handling'[u].id /\ handling'[v].id \notin overlapped
                        => v = u
        BY <1>2, <1>3, <1>4, <1>5 DEF FilesInv, Alone, Handlings
    <2>2. \A v \in Workers :
              handling'[v].job \in {"delete", "store"} /\ handling'[v].id \notin overlapped =>
                 registered[handling'[v].id].status = "parsing"
        BY <1>2, <1>3, <1>4, <1>5 DEF FilesInv, Alone
    <2>3. ASSUME NEW v \in Workers, handling'[v].job = "detect", handling'[v].id \notin overlapped
          PROVE  handling'[v].known <=> detections'[handling'[v].id].attached > 0
        <3>1. v # w /\ handling'[v] = handling[v]
            BY <1>4, <1>5, <2>3
        <3>2. handling[v].id \in Store!Ids /\ handling[v].id # i
            BY <1>2, <1>3, <2>3, <3>1 DEF FilesInv, Alone, Handlings, FileShapes
        <3>3. handling[v].known <=> detections[handling[v].id].attached > 0
            BY <2>3, <3>1 DEF FilesInv, Alone
        <3>. QED
            BY <1>6, <3>1, <3>2, <3>3
    <2>. QED
        BY <1>3, <2>1, <2>2, <2>3 DEF Alone
<1>10. i \notin overlapped => registered[i].status = "parsing"
    BY <1>2, <1>3 DEF FilesInv, Alone
<1>11. Told'
    BY <1>3, <1>10 DEF FilesInv, Told
<1>12. Store!FilesKept'
    BY <1>3 DEF FilesInv, Store!FilesKept
<1>13. Store!FoundOnce'
    BY <1>3, <1>6 DEF FilesInv, Store!FoundOnce
<1>. QED
    BY <1>7, <1>8, <1>9, <1>11, <1>12, <1>13 DEF FilesInv

\* A parse ends: with the events, or with what kept it from storing them.
LEMMA ParseEnds ==
    ASSUME FileInputs, FilesInv, NEW w \in Workers, Store!Store(w) \/ Store!Fail(w)
    PROVE  FilesInv'
<1>1. PICK i \in Store!Ids : i = handling[w].id
    BY DEF Store!Store, Store!Fail, Store!Serves, FilesInv, FileShapes
<1>2. /\ handling[w].job \in {"delete", "store"}
      /\ handling' = [handling EXCEPT ![w] = Store!Idle]
      /\ UNCHANGED <<stored, detections, pinned, clashed, overlapped>>
    BY DEF Store!Store, Store!Fail, Store!Serves
<1>3. PICK s \in Store!Statuses :
          /\ registered' = [registered EXCEPT ![i].status = s]
          /\ \/ s = "parsed" /\ parsed' = parsed \cup {i}
             \/ /\ s = "failed" /\ parsed' = parsed
                /\ i \in pinned \/ i \notin stored \/ i \in parsed
                      \/ registered[i].content \in Unreadable
    BY <1>1 DEF Store!Store, Store!Fail, Store!Stores, Store!Statuses
<1>4. registered[i] # None
    BY <1>1, <1>2 DEF FilesInv, Unregistered, Handlings
<1>5. Store!Idle \in Requests /\ Store!Idle.job = "idle"
    <2>1. <<>> \in Seq(Store!SampleIds)
        OBVIOUS
    <2>. QED
        BY <2>1 DEF Store!Idle, Requests, Jobs
<1>6. /\ \A v \in Workers : handling'[v] = IF v = w THEN Store!Idle ELSE handling[v]
      /\ handling' \in [Workers -> Requests]
    BY <1>2, <1>5, HandlingWritten
<1>7. /\ registered' \in [Store!Ids -> {None} \cup [content : Contents, status : Store!Statuses]]
      /\ registered'[i] # None /\ registered'[i].status = s
      /\ registered'[i].content = registered[i].content
      /\ \A j \in Store!Ids \ {i} : registered'[j] = registered[j]
      /\ \A j \in Store!Ids : registered'[j] = None <=> registered[j] = None
    BY <1>3, <1>4, StatusWritten
<1>8. i \notin overlapped =>
          \A v \in Workers \ {w} : handling[v].job \in Handlings => handling[v].id # i
    BY <1>1, <1>2 DEF FilesInv, Alone, Handlings
<1>9. FileShapes'
    BY <1>2, <1>5, <1>6, <1>7 DEF FilesInv, FileShapes, Store!Ids, Store!Statuses
<1>10. Registering'
    BY <1>2, <1>5, <1>6, <1>7 DEF FilesInv, Registering, FileShapes
<1>11. Unregistered'
    BY <1>2, <1>3, <1>4, <1>5, <1>6, <1>7 DEF FilesInv, Unregistered, Handlings, FileShapes
<1>12. Alone'
    BY <1>2, <1>5, <1>6, <1>7, <1>8 DEF FilesInv, Alone, Handlings, FileShapes
<1>13. i \in stored \cup clashed /\ (i \in pinned => i \in parsed)
    BY <1>4 DEF FilesInv, Store!FilesKept, Store!FoundOnce
<1>14. Told'
    <2>1. ASSUME NEW j \in Store!Ids \ overlapped, registered'[j] # None
          PROVE  /\ registered'[j].status = "parsed" => j \in parsed'
                 /\ registered'[j].status = "pending" => j \notin parsed'
                 /\ registered'[j].status = "failed" =>
                       j \in parsed' \/ j \in clashed \/ registered'[j].content \in Unreadable
        <3>1. CASE j = i
            BY <1>3, <1>7, <1>13, <3>1
        <3>2. CASE j # i
            BY <2>1, <1>3, <1>7, <3>2 DEF FilesInv, Told
        <3>. QED
            BY <3>1, <3>2
    <2>. QED
        BY <1>2, <2>1 DEF Told, Store!Ids
<1>15. Store!FilesKept'
    BY <1>2, <1>7 DEF FilesInv, Store!FilesKept
<1>16. Store!FoundOnce'
    BY <1>2, <1>3 DEF FilesInv, Store!FoundOnce
<1>. QED
    BY <1>9, <1>10, <1>11, <1>12, <1>14, <1>15, <1>16 DEF FilesInv

\* A detection of a value that was not found in the event before.
LEMMA DetectKeeps ==
    ASSUME FilesInv, NEW w \in Workers, Store!Detect(w)
    PROVE  FilesInv'
<1>1. PICK i \in Store!Ids : i = handling[w].id
    BY DEF Store!Detect, Store!Serves, FilesInv, FileShapes
<1>2. PICK n \in Nat : n = detections[i].attached
    BY DEF FilesInv, FileShapes
<1>3. /\ handling' = [handling EXCEPT ![w] = Store!Idle] /\ handling[w].job = "detect"
      /\ UNCHANGED <<registered, stored, parsed, clashed, overlapped>>
      /\ \/ UNCHANGED <<detections, pinned>>
         \/ /\ ~ handling[w].known /\ i \in parsed
            /\ detections' = [detections EXCEPT ![i].attached = n + 1]
            /\ pinned' = pinned \/ pinned' = pinned \cup {i}
    BY <1>1, <1>2 DEF Store!Detect, Store!Serves, FilesInv, FileShapes
<1>4. Store!Idle \in Requests /\ Store!Idle.job = "idle"
    <2>1. <<>> \in Seq(Store!SampleIds)
        OBVIOUS
    <2>. QED
        BY <2>1 DEF Store!Idle, Requests, Jobs
<1>5. /\ \A v \in Workers : handling'[v] = IF v = w THEN Store!Idle ELSE handling[v]
      /\ handling' \in [Workers -> Requests]
    BY <1>3, <1>4, HandlingWritten
<1>6. /\ detections' \in [Store!Ids -> [attached : Nat, detached : Nat]]
      /\ \A j \in Store!Ids \ {i} : detections'[j] = detections[j]
      /\ detections'[i].attached = n \/ (~ handling[w].known /\ detections'[i].attached = n + 1)
      /\ pinned' \subseteq pinned \cup {i}
      /\ i \in pinned' \ pinned => i \in parsed /\ detections'[i].attached > 0
      /\ pinned \subseteq pinned'
    BY <1>2, <1>3 DEF FilesInv, FileShapes
<1>7. i \notin overlapped =>
          /\ \A v \in Workers \ {w} : handling[v].job \in Handlings => handling[v].id # i
          /\ ~ handling[w].known => n = 0
    BY <1>1, <1>2, <1>3 DEF FilesInv, Alone, Handlings
<1>8. registered[i] # None
    BY <1>1, <1>3 DEF FilesInv, Unregistered, Handlings
<1>9. FileShapes'
    BY <1>3, <1>4, <1>5, <1>6 DEF FilesInv, FileShapes, Store!Ids
<1>10. Registering'
    BY <1>3, <1>4, <1>5 DEF FilesInv, Registering
<1>11. Unregistered'
    <2>1. \A j \in Store!Ids : registered[j] = None =>
              j \notin parsed /\ j \notin pinned' /\ detections'[j].attached = 0
        BY <1>6, <1>8 DEF FilesInv, Unregistered
    <2>. QED
        BY <1>3, <1>4, <1>5, <2>1 DEF FilesInv, Unregistered, Handlings, Store!Ids
<1>12. Alone'
    <2>1. \A v \in Workers : handling'[v].job \in Handlings => v # w /\ handling'[v] = handling[v]
        BY <1>4, <1>5 DEF Handlings
    <2>2. \A v, u \in Workers :
              handling'[v].job \in Handlings /\ handling'[u].job \in Handlings
                 /\ handling'[v].id = handling'[u].id /\ handling'[v].id \notin overlapped
                        => v = u
        BY <2>1 DEF FilesInv, Alone
    <2>3. \A v \in Workers :
              handling'[v].job \in {"delete", "store"} /\ handling'[v].id \notin overlapped =>
                 registered[handling'[v].id].status = "parsing"
        BY <2>1 DEF FilesInv, Alone, Handlings
    <2>4. ASSUME NEW v \in Workers, handling'[v].job = "detect", handling'[v].id \notin overlapped
          PROVE  handling'[v].known <=> detections'[handling'[v].id].attached > 0
        <3>1. v # w /\ handling'[v] = handling[v] /\ handling[v].id \in Store!Ids
            BY <2>1, <2>4 DEF Handlings, FilesInv, FileShapes
        <3>2. handling[v].id # i
            BY <1>7, <2>4, <3>1 DEF Handlings
        <3>3. handling[v].known <=> detections[handling[v].id].attached > 0
            BY <2>4, <3>1 DEF FilesInv, Alone
        <3>. QED
            BY <1>6, <3>1, <3>2, <3>3
    <2>. QED
        BY <1>3, <2>2, <2>3, <2>4 DEF Alone
<1>13. Told' /\ Store!FilesKept'
    BY <1>3 DEF FilesInv, Told, Store!FilesKept
<1>14. Store!FoundOnce'
    <2>1. ASSUME NEW j \in Store!Ids
          PROVE  /\ j \notin overlapped => detections'[j].attached <= 1
                 /\ j \in pinned' => j \in parsed /\ detections'[j].attached > 0
        <3>1. /\ j \notin overlapped => detections[j].attached <= 1
              /\ j \in pinned => j \in parsed /\ detections[j].attached > 0
            BY DEF FilesInv, Store!FoundOnce
        <3>2. CASE j = i
            BY <1>2, <1>6, <1>7, <3>1, <3>2
        <3>3. CASE j # i
            BY <1>6, <3>1, <3>3
        <3>. QED
            BY <3>2, <3>3
    <2>. QED
        BY <1>3, <2>1 DEF Store!FoundOnce, Store!Ids
<1>. QED
    BY <1>9, <1>10, <1>11, <1>12, <1>13, <1>14 DEF FilesInv

\* The process dies, and no request is left.
LEMMA CrashKeeps ==
    ASSUME FilesInv, Store!Crash \/ UNCHANGED Store!vars
    PROVE  FilesInv'
<1>1. CASE Store!Crash
    <2>1. Store!Idle \in Requests /\ Store!Idle.job = "idle"
        <3>1. <<>> \in Seq(Store!SampleIds)
            OBVIOUS
        <3>. QED
            BY <3>1 DEF Store!Idle, Requests, Jobs
    <2>2. /\ UNCHANGED <<registered, stored, parsed, detections, pinned, clashed, overlapped>>
          /\ handling' \in [Workers -> Requests]
          /\ \A w \in Workers : handling'[w].job = "idle"
        BY <1>1, <2>1 DEF Store!Crash
    <2>3. FileShapes'
        BY <2>2 DEF FilesInv, FileShapes, Store!Ids
    <2>4. Registering' /\ Unregistered' /\ Alone'
        BY <2>2 DEF FilesInv, Registering, Unregistered, Alone, Handlings
    <2>5. Told' /\ Store!FilesKept' /\ Store!FoundOnce'
        BY <2>2 DEF FilesInv, Told, Store!FilesKept, Store!FoundOnce
    <2>. QED
        BY <2>3, <2>4, <2>5 DEF FilesInv
<1>2. CASE UNCHANGED Store!vars
    BY <1>2 DEF Store!vars, FilesInv, FileShapes, Registering, Unregistered, Alone, Told,
                Store!FilesKept, Store!FoundOnce
<1>. QED
    BY <1>1, <1>2

\* One step.
LEMMA FilesStep ==
    ASSUME FileInputs, FilesInv, [Store!Next]_Store!vars
    PROVE  FilesInv'
BY RegistrationKeeps, InsertKeeps, CommitKeeps, BeginKeeps, BeginDetectKeeps, DeleteKeeps,
   ParseEnds, DetectKeeps, CrashKeeps DEF Store!Next

\* The invariant holds throughout.
LEMMA FilesAlways ==
    ASSUME FileInputs
    PROVE  Store!Spec => []FilesInv
<1>1. Store!Init => FilesInv
    BY FilesInit
<1>2. FilesInv /\ [Store!Next]_Store!vars => FilesInv'
    BY FilesStep
<1>. QED
    BY <1>1, <1>2, PTL DEF Store!Spec

\* A committed evidence row has its file, unless a registration of the same id gave up after
\* it wrote one: whatever uploads, loads and crashes overlap (ingestion_service.py).
THEOREM FilesAreKept ==
    ASSUME FileInputs
    PROVE  Store!Spec => []FilesKept
BY FilesAlways, PTL DEF FilesInv, FilesKept

\* A file's status tells of its events while no two requests handled it at once: for any
\* number of requests and crashes between the commits of a parse (normalization_service.py).
THEOREM StatusIsTrue ==
    ASSUME FileInputs
    PROVE  Store!Spec => []StatusTellsEvents
<1>1. FilesInv => StatusTellsEvents
    BY DEF StatusTellsEvents, FilesInv, Told, Store!StatusTellsEvents
<1>. QED
    BY <1>1, FilesAlways, PTL

\* One request at a time detects a value once, and a classification keeps its event, for any
\* number of requests (detection_service.py).
THEOREM ValuesFoundOnce ==
    ASSUME FileInputs
    PROVE  Store!Spec => []FoundOnce
BY FilesAlways, PTL DEF FilesInv, FoundOnce
=============================================================================

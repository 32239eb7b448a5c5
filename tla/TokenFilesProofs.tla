-------------------------- MODULE TokenFilesProofs --------------------------
(***************************************************************************)
(* Proofs about TokenFiles, for every set of files, tokens and credentials *)
(* and any number of commands, failures and crashes, as long as there is   *)
(* one editor: the commands take no lock.                                  *)
(*                                                                         *)
(* Between the copy and the end of a command the files are those it        *)
(* started with, or those with the edited document in place of one, and    *)
(* the backup it would restore holds that one as it was.                   *)
(***************************************************************************)
EXTENDS TokenFiles, FiniteSetTheorems, TLAPS

OneEditor == \A d, e \in Editors : d = e

-----------------------------------------------------------------------------
(* Filtering by position. *)

\* The place of position i among those of P.
Rank(P, i) == Cardinality({j \in P : j <= i})

\* The places are exactly the numbers up to the size of P, one per position.
LEMMA Ranks ==
    ASSUME NEW P \in SUBSET Nat, IsFiniteSet(P)
    PROVE  /\ Cardinality(P) \in Nat
           /\ \A i \in P : Rank(P, i) \in 1..Cardinality(P)
           /\ \A i, j \in P : Rank(P, i) = Rank(P, j) => i = j
           /\ \A n \in 1..Cardinality(P) : \E i \in P : Rank(P, i) = n
<1> DEFINE Upto(i) == {j \in P : j <= i}
           f == [i \in P |-> Rank(P, i)]
<1>1. Cardinality(P) \in Nat
    BY FS_CardinalityType
<1>2. ASSUME NEW i \in P
      PROVE  IsFiniteSet(Upto(i)) /\ Rank(P, i) \in 1..Cardinality(P)
    <2>1. IsFiniteSet(Upto(i)) /\ Cardinality(Upto(i)) <= Cardinality(P)
        BY FS_Subset
    <2>2. Cardinality(Upto(i)) \in Nat /\ Cardinality(Upto(i)) # 0
        <3>1. i \in Upto(i)
            OBVIOUS
        <3> HIDE DEF Upto
        <3>2. QED
            BY <2>1, <3>1, FS_CardinalityType, FS_EmptySet
    <2>3. QED
        BY <1>1, <2>1, <2>2 DEF Rank
<1>3. ASSUME NEW i \in P, NEW j \in P, i < j
      PROVE  Rank(P, i) < Rank(P, j)
    <2>1. Upto(i) \subseteq Upto(j) /\ j \in Upto(j) /\ j \notin Upto(i)
        <3>1. \A k \in P : k \in Nat /\ (k <= i => k <= j)
            BY <1>3
        <3>2. ~(j <= i) /\ j <= j
            BY <1>3
        <3>3. QED
            BY <3>1, <3>2
    <2>2. IsFiniteSet(Upto(i)) /\ IsFiniteSet(Upto(j))
        BY <1>2
    <2> HIDE DEF Upto
    <2>3. Cardinality(Upto(i)) < Cardinality(Upto(j))
        BY <2>1, <2>2, FS_Subset, FS_CardinalityType
    <2>4. QED
        BY <2>3 DEF Rank, Upto
<1>4. \A i, j \in P : Rank(P, i) = Rank(P, j) => i = j
    <2> SUFFICES ASSUME NEW i \in P, NEW j \in P, i # j
                 PROVE  Rank(P, i) # Rank(P, j)
        OBVIOUS
    <2>1. Rank(P, i) \in Nat /\ Rank(P, j) \in Nat
        <3>1. Rank(P, i) \in 1..Cardinality(P) /\ Rank(P, j) \in 1..Cardinality(P)
            BY <1>2
        <3>2. QED
            BY <1>1, <3>1
    <2>2. i < j \/ j < i
        <3>1. i \in Nat /\ j \in Nat
            OBVIOUS
        <3>2. QED
            BY <3>1
    <2>3. QED
        BY <1>3, <2>1, <2>2
<1>5. f \in Injection(P, 1..Cardinality(P))
    <2>1. f \in [P -> 1..Cardinality(P)]
        BY <1>2
    <2>2. QED
        BY <1>4, <2>1 DEF Injection, IsInjective
<1>6. f \in Surjection(P, 1..Cardinality(P))
    <2>1. IsFiniteSet(1..Cardinality(P)) /\ Cardinality(1..Cardinality(P)) = Cardinality(P)
        BY <1>1, FS_Interval
    <2> HIDE DEF f
    <2>2. QED
        BY <1>5, <2>1, FS_Injection
<1>7. QED
    BY <1>1, <1>2, <1>4, <1>6 DEF Surjection

\* Keep lists the elements at the positions, each at its place.
LEMMA Keeping ==
    ASSUME NEW T, NEW s \in Seq(T), NEW P \in SUBSET DOMAIN s
    PROVE  /\ Keep(s, P) \in Seq(T) /\ Len(Keep(s, P)) = Cardinality(P) /\ IsFiniteSet(P)
           /\ DOMAIN Keep(s, P) = 1..Cardinality(P)
           /\ \A i \in P : Rank(P, i) \in DOMAIN Keep(s, P) /\ Keep(s, P)[Rank(P, i)] = s[i]
           /\ \A n \in DOMAIN Keep(s, P) : \E i \in P : Rank(P, i) = n /\ Keep(s, P)[n] = s[i]
<1>1. DOMAIN s = 1..Len(s) /\ Len(s) \in Nat
    OBVIOUS
<1>2. IsFiniteSet(P) /\ P \in SUBSET Nat
    <2>1. IsFiniteSet(DOMAIN s) /\ DOMAIN s \subseteq Nat
        BY <1>1, FS_Interval
    <2>2. QED
        BY <2>1, FS_Subset
<1>3. /\ Cardinality(P) \in Nat
      /\ \A i \in P : Rank(P, i) \in 1..Cardinality(P)
      /\ \A i, j \in P : Rank(P, i) = Rank(P, j) => i = j
      /\ \A n \in 1..Cardinality(P) : \E i \in P : Rank(P, i) = n
    BY <1>2, Ranks
<1>4. Keep(s, P) = [n \in 1..Cardinality(P) |-> s[CHOOSE i \in P : Rank(P, i) = n]]
    BY DEF Keep, Rank
<1> DEFINE pos(n) == CHOOSE i \in P : Rank(P, i) = n
<1>5. \A n \in 1..Cardinality(P) : pos(n) \in P /\ Rank(P, pos(n)) = n /\ Keep(s, P)[n] = s[pos(n)]
    BY <1>3, <1>4
<1> HIDE DEF pos
<1>6. \A n \in 1..Cardinality(P) : s[pos(n)] \in T
    BY <1>5
<1>7. Keep(s, P) \in [1..Cardinality(P) -> T]
    BY <1>4, <1>5, <1>6 DEF pos
<1>8. Keep(s, P) \in Seq(T) /\ Len(Keep(s, P)) = Cardinality(P) /\ DOMAIN Keep(s, P) = 1..Cardinality(P)
    BY <1>3, <1>7
<1>9. \A i \in P : Keep(s, P)[Rank(P, i)] = s[i]
    BY <1>3, <1>5
<1>10. QED
    BY <1>2, <1>3, <1>5, <1>8, <1>9

-----------------------------------------------------------------------------
(* The inductive invariant. *)

\* Credential c of token t is in force in a document, in files.
Holds(d, t, c) ==
    /\ t \in DOMAIN d
    /\ \E i \in DOMAIN d[t].Credentials : d[t].Credentials[i] = NewCredential(c)

InFiles(fs, t, c) == \E f \in DOMAIN fs : Holds(fs[f].doc, t, c)

IsDoc(d) == DOMAIN d \subseteq TokenIDs /\ \A t \in DOMAIN d : d[t] \in TokenPolicies

\* The backup a command would restore is the file as it was, if there was one.
Saved(e) ==
    IF path[e] \in DOMAIN before[e]
    THEN /\ backup[e] # 0
         /\ <<path[e], backup[e]>> \in DOMAIN backups
         /\ backups[<<path[e], backup[e]>>] = before[e][path[e]]
    ELSE backup[e] = 0

\* What has been printed and not been disabled is in the files and, if the edit is
\* written, in the edited document.
NothingLost(e) ==
    /\ \A x \in printed : x \in revoked \/ InFiles(before[e], x[1], x[2])
    /\ \A x \in printed : path[e] \in DOMAIN before[e] /\ Holds(before[e][path[e]].doc, x[1], x[2]) =>
          x \in revoked \/ Holds(doc[e], x[1], x[2])

\* A command under way, step by step.
Stage(e) ==
    /\ status[e] = "running" <=> pc[e] # "idle"
    /\ before[e] = [f \in DOMAIN before[e] |-> before[e][f]]
    /\ pc[e] # "idle" =>
          /\ path[e] \in Paths /\ IsDoc(doc[e])
          /\ prints[e] \subseteq TokenIDs \X Creds
          /\ \A x \in prints[e] : Holds(doc[e], x[1], x[2])
          /\ NothingLost(e)
    /\ pc[e] \in {"idle", "backup"} => backup[e] = 0
    /\ pc[e] \in {"backup", "fill", "replace"} => files = before[e]
    /\ pc[e] = "fill" => path[e] \in DOMAIN files /\ copy[e] = files[path[e]] /\ backup[e] # 0
    /\ pc[e] \in {"replace", "validate", "restore"} => Saved(e)
    /\ pc[e] \in {"validate", "restore"} => files = With(before[e], path[e], Whole(doc[e]))
    /\ pc[e] \in {"validate", "restore"} =>
          \A f \in DOMAIN before[e] : ~before[e][f].torn /\ IsContent(before[e][f])
    /\ pc[e] = "restore" => backup[e] # 0

Maps ==
    /\ DOMAIN doc = Editors /\ DOMAIN copy = Editors /\ DOMAIN prints = Editors /\ DOMAIN before = Editors
    /\ files = [f \in DOMAIN files |-> files[f]]

EditInv == TypeOK /\ Maps /\ EditUndone /\ PrintedInForce /\ \A e \in Editors : Stage(e)

-----------------------------------------------------------------------------
(* What the commands do to a document. *)

\* The credentials of a token policy, and a policy with others.
LEMMA Policy ==
    ASSUME NEW tok \in TokenPolicies
    PROVE  /\ tok.Credentials \in Credentials /\ tok.ok \in BOOLEAN
           /\ \A cs \in Credentials : [tok EXCEPT !.Credentials = cs] \in TokenPolicies
           /\ \A cs : [tok EXCEPT !.Credentials = cs].Credentials = cs
BY DEF TokenPolicies

\* Append keeps the credentials and adds one that is in force.
LEMMA Rotated ==
    ASSUME NEW cs \in Credentials, NEW c \in Creds
    PROVE  /\ Append(cs, NewCredential(c)) \in Credentials
           /\ \E i \in DOMAIN Append(cs, NewCredential(c)) :
                 Append(cs, NewCredential(c))[i] = NewCredential(c)
           /\ \A i \in DOMAIN cs : i \in DOMAIN Append(cs, NewCredential(c))
                                   /\ Append(cs, NewCredential(c))[i] = cs[i]
<1> DEFINE T == [ID : Creds, Disabled : BOOLEAN]
           n == NewCredential(c)
<1>1. n \in T /\ cs \in Seq(T)
    BY DEF NewCredential, Credentials
<1> HIDE DEF T, n
<1>2. /\ Append(cs, n) \in Seq(T) /\ Len(cs) \in Nat /\ DOMAIN cs = 1..Len(cs)
      /\ DOMAIN Append(cs, n) = 1..(Len(cs) + 1) /\ Append(cs, n)[Len(cs) + 1] = n
      /\ \A i \in 1..Len(cs) : Append(cs, n)[i] = cs[i]
    BY <1>1
<1>3. Len(cs) + 1 \in DOMAIN Append(cs, n) /\ \A i \in DOMAIN cs : i \in DOMAIN Append(cs, n)
    BY <1>2
<1>4. QED
    BY <1>2, <1>3 DEF Credentials, T, n

\* Disabling a credential leaves the others as they are.
LEMMA Disabled ==
    ASSUME NEW tok \in TokenPolicies, NEW c
    PROVE  /\ Disable(tok, c) \in TokenPolicies
           /\ DOMAIN Disable(tok, c).Credentials = DOMAIN tok.Credentials
           /\ \A i \in DOMAIN tok.Credentials : tok.Credentials[i].ID # c =>
                 Disable(tok, c).Credentials[i] = tok.Credentials[i]
<1> DEFINE T  == [ID : Creds, Disabled : BOOLEAN]
           cs == tok.Credentials
           ds == [i \in DOMAIN cs |-> IF cs[i].ID = c THEN [cs[i] EXCEPT !.Disabled = TRUE] ELSE cs[i]]
<1>1. cs \in Seq(T)
    BY Policy DEF Credentials
<1>2. Len(cs) \in Nat /\ DOMAIN cs = 1..Len(cs)
    BY <1>1
<1>3. \A i \in DOMAIN cs : cs[i] \in T
    <2> HIDE DEF T, cs
    <2>1. QED
        BY <1>1
<1>4. \A i \in DOMAIN cs : [cs[i] EXCEPT !.Disabled = TRUE] \in T
    BY <1>3
<1>5. ds \in [1..Len(cs) -> T]
    <2> HIDE DEF T, cs
    <2>1. QED
        BY <1>2, <1>3, <1>4
<1>6. ds \in Credentials
    <2> DEFINE n == Len(cs)
    <2>1. n \in Nat /\ ds \in [1..n -> T]
        BY <1>2, <1>5
    <2> HIDE DEF ds, n, T
    <2>2. ds \in Seq(T)
        BY <2>1
    <2>3. QED
        BY <2>2 DEF Credentials, T
<1>7. Disable(tok, c) = [tok EXCEPT !.Credentials = ds]
    BY DEF Disable
<1>8. Disable(tok, c) \in TokenPolicies /\ Disable(tok, c).Credentials = ds
    <2> HIDE DEF ds
    <2>1. QED
        BY <1>6, <1>7, Policy
<1>9. QED
    BY <1>8

\* Pruning takes away disabled credentials only.
LEMMA Pruned ==
    ASSUME NEW tok \in TokenPolicies
    PROVE  /\ Prune(tok) \in TokenPolicies
           /\ \A i \in DOMAIN tok.Credentials : ~tok.Credentials[i].Disabled =>
                 \E n \in DOMAIN Prune(tok).Credentials :
                    Prune(tok).Credentials[n] = tok.Credentials[i]
<1> DEFINE cs == tok.Credentials
           P  == {i \in DOMAIN cs : ~cs[i].Disabled}
<1>1. cs \in Credentials
    BY Policy
<1>2. Prune(tok) = [tok EXCEPT !.Credentials = Keep(cs, P)]
    BY DEF Prune
<1>3. /\ Keep(cs, P) \in Credentials
      /\ \A i \in P : Rank(P, i) \in DOMAIN Keep(cs, P) /\ Keep(cs, P)[Rank(P, i)] = cs[i]
    <2>1. P \in SUBSET DOMAIN cs
        OBVIOUS
    <2> HIDE DEF P, cs
    <2>2. QED
        BY <1>1, <2>1, Keeping DEF Credentials
<1>4. Prune(tok) \in TokenPolicies /\ Prune(tok).Credentials = Keep(cs, P)
    <2> HIDE DEF P, cs
    <2>1. QED
        BY <1>2, <1>3, Policy
<1>5. QED
    BY <1>3, <1>4

\* Of a document with a token changed, what the token has in force is in force,
\* and so are the credentials of the other tokens.
LEMMA Changed ==
    ASSUME NEW d, IsDoc(d), NEW t \in TokenIDs, NEW tok \in TokenPolicies
    PROVE  /\ IsDoc(With(d, t, tok))
           /\ \A c : (\E i \in DOMAIN tok.Credentials : tok.Credentials[i] = NewCredential(c)) =>
                        Holds(With(d, t, tok), t, c)
           /\ \A u, c : u # t /\ Holds(d, u, c) => Holds(With(d, t, tok), u, c)
<1> DEFINE w == With(d, t, tok)
<1>1. DOMAIN w = DOMAIN d \cup {t} /\ w[t] = tok /\ \A z \in DOMAIN d : z # t => w[z] = d[z]
    BY DEF With
<1> HIDE DEF w
<1>2. IsDoc(w)
    BY <1>1 DEF IsDoc
<1>3. \A c : (\E i \in DOMAIN tok.Credentials : tok.Credentials[i] = NewCredential(c)) => Holds(w, t, c)
    BY <1>1 DEF Holds
<1>4. \A u, c : u # t /\ Holds(d, u, c) => Holds(w, u, c)
    BY <1>1 DEF Holds
<1>5. QED
    BY <1>2, <1>3, <1>4 DEF w

\* What a command starts: it writes a document that holds the credential it will
\* print, and loses none in force but one it set out to disable.
LEMMA Commanded ==
    ASSUME TypeOK, NEW e \in Editors, NEW f \in Paths, NEW t \in TokenIDs, Command(e, f, t)
    PROVE  \E d, out :
              /\ Begin(e, f, d, out)
              /\ IsDoc(d) /\ out \subseteq TokenIDs \X Creds
              /\ \A x \in out : Holds(d, x[1], x[2])
              /\ \A u, c : Holds(readTokenFile(f), u, c) => <<u, c>> \in revoked' \/ Holds(d, u, c)
              /\ revoked \subseteq revoked' /\ revoked' \subseteq TokenIDs \X Creds
<1> DEFINE old == readTokenFile(f)
           In(tok, c) == \E i \in DOMAIN tok.Credentials : tok.Credentials[i] = NewCredential(c)
           Started ==
              \E d, out :
                 /\ Begin(e, f, d, out)
                 /\ IsDoc(d) /\ out \subseteq TokenIDs \X Creds
                 /\ \A x \in out : Holds(d, x[1], x[2])
                 /\ \A u, c : Holds(old, u, c) => <<u, c>> \in revoked' \/ Holds(d, u, c)
                 /\ revoked \subseteq revoked' /\ revoked' \subseteq TokenIDs \X Creds
<1>1. IsDoc(old)
    BY DEF TypeOK, IsContent, IsDoc, readTokenFile, NoDoc
<1>2. \A c : Holds(old, t, c) => t \in DOMAIN old /\ In(old[t], c)
    BY DEF Holds
<1>3. t \in DOMAIN old => old[t] \in TokenPolicies
    BY <1>1 DEF IsDoc
<1>4. revoked \subseteq TokenIDs \X Creds
    BY DEF TypeOK
<1> HIDE DEF old
<1>5. ASSUME NEW tok \in TokenPolicies, NEW out, Begin(e, f, With(old, t, tok), out),
             \A x \in out : x[1] = t /\ In(tok, x[2]), out \subseteq TokenIDs \X Creds,
             \A c : t \in DOMAIN old /\ In(old[t], c) => <<t, c>> \in revoked' \/ In(tok, c),
             revoked \subseteq revoked', revoked' \subseteq TokenIDs \X Creds
      PROVE  Started
    <2> DEFINE w == With(old, t, tok)
    <2>1. /\ IsDoc(w) /\ \A c : In(tok, c) => Holds(w, t, c)
          /\ \A u, c : u # t /\ Holds(old, u, c) => Holds(w, u, c)
        BY <1>1, Changed
    <2> HIDE DEF w, In
    <2>2. \A x \in out : Holds(w, x[1], x[2])
        BY <1>5, <2>1
    <2>3. \A u, c : Holds(old, u, c) => <<u, c>> \in revoked' \/ Holds(w, u, c)
        BY <1>2, <1>5, <2>1
    <2>4. Begin(e, f, w, out)
        BY <1>5 DEF w
    <2>5. QED
        BY <1>5, <2>1, <2>2, <2>3, <2>4
<1>6. CASE PruneToken(e, f, t)
    <2> DEFINE tok == Prune(old[t])
    <2>1. t \in DOMAIN old /\ Begin(e, f, With(old, t, tok), {}) /\ revoked' = revoked
        BY <1>6 DEF PruneToken, Edit, old
    <2>2. tok \in TokenPolicies
        BY <1>3, <2>1, Pruned
    <2>3. \A c : In(old[t], c) => In(tok, c)
        <3>1. \A c : ~NewCredential(c).Disabled
            BY DEF NewCredential
        <3>2. QED
            BY <1>3, <2>1, <3>1, Pruned
    <2> HIDE DEF tok, In
    <2>4. QED
        BY <1>4, <1>5, <2>1, <2>2, <2>3 DEF old
<1>7. ASSUME NEW c \in Creds, NEW ok \in BOOLEAN, Add(e, f, t, c, ok)
      PROVE  Started
    <2> DEFINE tok == [ok |-> ok, Credentials |-> <<NewCredential(c)>>]
    <2>1. t \notin DOMAIN old /\ Begin(e, f, With(old, t, tok), {<<t, c>>}) /\ revoked' = revoked
        BY <1>7 DEF Add, old
    <2>2. tok \in TokenPolicies /\ In(tok, c)
        <3> DEFINE cs == <<NewCredential(c)>>
        <3>1. cs \in Credentials
            BY DEF Credentials, NewCredential
        <3>2. 1 \in DOMAIN cs /\ cs[1] = NewCredential(c)
            OBVIOUS
        <3> HIDE DEF cs
        <3>3. tok \in TokenPolicies /\ tok.Credentials = cs
            BY <3>1 DEF TokenPolicies, cs
        <3>4. QED
            BY <3>2, <3>3
    <2>3. {<<t, c>>} \subseteq TokenIDs \X Creds
        OBVIOUS
    <2> HIDE DEF tok, In
    <2>4. QED
        BY <1>4, <1>5, <2>1, <2>2, <2>3
<1>8. ASSUME NEW c \in Creds, Rotate(e, f, t, c)
      PROVE  Started
    <2> DEFINE cs  == Append(old[t].Credentials, NewCredential(c))
               tok == [old[t] EXCEPT !.Credentials = cs]
    <2>1. t \in DOMAIN old /\ Begin(e, f, With(old, t, tok), {<<t, c>>}) /\ revoked' = revoked
        BY <1>8 DEF Rotate, Edit, old
    <2>2. old[t] \in TokenPolicies /\ old[t].Credentials \in Credentials
        BY <1>3, <2>1, Policy
    <2>3. /\ cs \in Credentials /\ \E i \in DOMAIN cs : cs[i] = NewCredential(c)
          /\ \A i \in DOMAIN old[t].Credentials : i \in DOMAIN cs /\ cs[i] = old[t].Credentials[i]
        BY <2>2, Rotated
    <2> HIDE DEF cs
    <2>4. tok \in TokenPolicies /\ tok.Credentials = cs
        BY <2>2, <2>3, Policy
    <2> HIDE DEF tok
    <2>5. In(tok, c) /\ \A k : In(old[t], k) => In(tok, k)
        BY <2>3, <2>4
    <2>6. {<<t, c>>} \subseteq TokenIDs \X Creds
        OBVIOUS
    <2> HIDE DEF In
    <2>7. QED
        BY <1>4, <1>5, <2>1, <2>4, <2>5, <2>6
<1>9. ASSUME NEW c \in Creds, DisableCredential(e, f, t, c)
      PROVE  Started
    <2> DEFINE tok == Disable(old[t], c)
    <2>1. /\ t \in DOMAIN old /\ Begin(e, f, With(old, t, tok), {})
          /\ revoked' = revoked \cup {<<t, c>>}
        BY <1>9 DEF DisableCredential, Edit, old
    <2>2. /\ tok \in TokenPolicies /\ DOMAIN tok.Credentials = DOMAIN old[t].Credentials
          /\ \A i \in DOMAIN old[t].Credentials : old[t].Credentials[i].ID # c =>
                tok.Credentials[i] = old[t].Credentials[i]
        BY <1>3, <2>1, Disabled
    <2> HIDE DEF tok
    <2>3. \A k : In(old[t], k) => <<t, k>> \in revoked' \/ In(tok, k)
        <3>1. \A k : NewCredential(k).ID = k
            BY DEF NewCredential
        <3>2. \A k : k # c /\ In(old[t], k) => In(tok, k)
            BY <2>2, <3>1
        <3>3. QED
            BY <2>1, <3>2
    <2>4. {} \subseteq TokenIDs \X Creds /\ revoked' \subseteq TokenIDs \X Creds /\ revoked \subseteq revoked'
        BY <1>4, <2>1
    <2> HIDE DEF In
    <2>5. QED
        BY <1>5, <2>1, <2>2, <2>3, <2>4
<1>10. QED
    BY <1>6, <1>7, <1>8, <1>9 DEF Command, old

-----------------------------------------------------------------------------
(* The steps keep the invariant. *)

\* Initially the invariant holds.
LEMMA EditStart == Init => EditInv
<1> SUFFICES ASSUME Init PROVE EditInv
    OBVIOUS
<1>1. files = [f \in {} |-> Torn] /\ DOMAIN files = {} /\ DOMAIN backups = {} /\ printed = {} /\ revoked = {}
    BY DEF Init
<1>2. TypeOK
    <2>1. now \in 1..MaxTime /\ edits \in 0..MaxEdits
        BY TokenFilesAssumption DEF Init
    <2>2. /\ pc \in [Editors -> {"idle", "backup", "fill", "replace", "validate", "restore"}]
          /\ path \in [Editors -> Paths \cup {NoPath}]
          /\ status \in [Editors -> {"none", "running", "done", "failed", "unrestored", "killed"}]
        BY DEF Init
    <2>3. backup \in [Editors -> 0..MaxTime]
        BY TokenFilesAssumption DEF Init
    <2>4. QED
        BY <1>1, <2>1, <2>2, <2>3 DEF TypeOK
<1>3. Maps
    BY <1>1 DEF Init, Maps
<1>4. EditUndone /\ PrintedInForce
    BY <1>1 DEF Init, EditUndone, PrintedInForce
<1>5. ASSUME NEW e \in Editors
      PROVE  Stage(e)
    <2>1. pc[e] = "idle" /\ status[e] = "none" /\ backup[e] = 0 /\ before[e] = files
        BY DEF Init
    <2>2. before[e] = [f \in DOMAIN before[e] |-> before[e][f]]
        BY <1>1, <2>1
    <2>3. QED
        BY <2>1, <2>2 DEF Stage
<1>6. QED
    BY <1>2, <1>3, <1>4, <1>5 DEF EditInv

\* Restricting a map to the entries it had before one was added or replaced.
LEMMA Undone ==
    ASSUME NEW b, b = [f \in DOMAIN b |-> b[f]], NEW fs,
           \A f \in DOMAIN b : fs[f] = b[f]
    PROVE  Restrict(fs, DOMAIN b) = b
BY DEF Restrict

\* A command begins.
LEMMA BeginStep ==
    ASSUME OneEditor, EditInv, NEW e \in Editors, NEW f \in Paths, NEW t \in TokenIDs, Command(e, f, t)
    PROVE  EditInv'
<1> USE TokenFilesAssumption
<1>1. PICK d, out :
         /\ Begin(e, f, d, out)
         /\ IsDoc(d) /\ out \subseteq TokenIDs \X Creds
         /\ \A x \in out : Holds(d, x[1], x[2])
         /\ \A u, c : Holds(readTokenFile(f), u, c) => <<u, c>> \in revoked' \/ Holds(d, u, c)
         /\ revoked \subseteq revoked' /\ revoked' \subseteq TokenIDs \X Creds
    BY Commanded DEF EditInv
<1>2. TypeOK /\ Maps /\ PrintedInForce /\ Stage(e)
    BY DEF EditInv
<1>3. /\ pc[e] = "idle" /\ edits < MaxEdits /\ edits' = edits + 1
      /\ pc' = [pc EXCEPT ![e] = "backup"] /\ path' = [path EXCEPT ![e] = f]
      /\ doc' = [doc EXCEPT ![e] = d] /\ prints' = [prints EXCEPT ![e] = out]
      /\ status' = [status EXCEPT ![e] = "running"] /\ before' = [before EXCEPT ![e] = files]
      /\ UNCHANGED <<now, files, backups, copy, backup, printed>>
    BY <1>1 DEF Begin
<1>4. /\ pc'[e] = "backup" /\ path'[e] = f /\ doc'[e] = d /\ prints'[e] = out
      /\ status'[e] = "running" /\ before'[e] = files /\ backup'[e] = 0
    BY <1>2, <1>3 DEF TypeOK, Maps, Stage
<1>5. TypeOK'
    <2>1. edits' \in 0..MaxEdits
        BY <1>2, <1>3 DEF TypeOK
    <2>2. QED
        BY <1>1, <1>2, <1>3, <2>1 DEF TypeOK, IsContent
<1>6. Maps'
    BY <1>2, <1>3 DEF Maps
<1>7. \A x \in printed : x = <<x[1], x[2]>>
    BY <1>2 DEF TypeOK
<1>8. PrintedInForce'
    BY <1>1, <1>2, <1>3 DEF PrintedInForce, InForce
<1>9. EditUndone'
    BY <1>4 DEF OneEditor, EditUndone
<1>10. NothingLost(e)'
    <2>1. \A x \in printed : x \in revoked' \/ InFiles(files, x[1], x[2])
        BY <1>1, <1>2 DEF PrintedInForce, InForce, InFiles, Holds
    <2>2. ASSUME NEW x \in printed, f \in DOMAIN files, Holds(files[f].doc, x[1], x[2])
          PROVE  x \in revoked' \/ Holds(d, x[1], x[2])
        <3>1. readTokenFile(f) = files[f].doc
            BY <2>2 DEF readTokenFile
        <3>2. <<x[1], x[2]>> \in revoked' \/ Holds(d, x[1], x[2])
            BY <1>1, <2>2, <3>1
        <3>3. QED
            BY <1>7, <3>2
    <2>3. QED
        BY <1>3, <1>4, <2>1, <2>2 DEF NothingLost
<1>11. Stage(e)'
    <2>1. before'[e] = [g \in DOMAIN before'[e] |-> before'[e][g]]
        BY <1>2, <1>4 DEF Maps
    <2>2. QED
        BY <1>1, <1>3, <1>4, <1>10, <2>1 DEF Stage
<1>12. QED
    BY <1>5, <1>6, <1>8, <1>9, <1>11 DEF EditInv, OneEditor

\* A command ends with the files as they are.
LEMMA EndStep ==
    ASSUME OneEditor, EditInv, NEW e \in Editors, NEW how \in {"done", "failed", "unrestored", "killed"},
           End(e, how), UNCHANGED <<now, revoked, edits>>,
           DOMAIN files' \subseteq Paths,
           \A f \in DOMAIN files' : ~files'[f].torn /\ IsContent(files'[f]),
           files' = [f \in DOMAIN files' |-> files'[f]],
           DOMAIN backups' \subseteq Paths \X (1..MaxTime),
           \A b \in DOMAIN backups' : IsContent(backups'[b]),
           printed' \subseteq TokenIDs \X Creds, PrintedInForce',
           how = "failed" => Restrict(files', DOMAIN before[e]) = before[e],
           how = "unrestored" => \E b \in DOMAIN backups' : With(files', b[1], backups'[b]) = before[e]
    PROVE  EditInv'
<1>1. TypeOK /\ Maps /\ Stage(e)
    BY DEF EditInv
<1>2. /\ pc' = [pc EXCEPT ![e] = "idle"] /\ path' = [path EXCEPT ![e] = NoPath]
      /\ doc' = [doc EXCEPT ![e] = NoDoc] /\ copy' = [copy EXCEPT ![e] = Torn]
      /\ backup' = [backup EXCEPT ![e] = 0] /\ prints' = [prints EXCEPT ![e] = {}]
      /\ status' = [status EXCEPT ![e] = how] /\ before' = before
    BY DEF End
<1>3. pc'[e] = "idle" /\ backup'[e] = 0 /\ status'[e] = how
    BY <1>1, <1>2 DEF TypeOK
<1>4. TypeOK'
    <2>1. /\ pc' \in [Editors -> {"idle", "backup", "fill", "replace", "validate", "restore"}]
          /\ path' \in [Editors -> Paths \cup {NoPath}]
          /\ status' \in [Editors -> {"none", "running", "done", "failed", "unrestored", "killed"}]
        BY <1>1, <1>2 DEF TypeOK
    <2>2. backup' \in [Editors -> 0..MaxTime]
        BY <1>1, <1>2, TokenFilesAssumption DEF TypeOK
    <2>3. QED
        BY <1>1, <2>1, <2>2 DEF TypeOK
<1>5. Maps'
    BY <1>1, <1>2 DEF Maps
<1>6. EditUndone'
    BY <1>2, <1>3 DEF OneEditor, EditUndone, KeptFiles, Recoverable
<1>7. Stage(e)'
    BY <1>1, <1>2, <1>3 DEF Stage
<1>8. QED
    BY <1>4, <1>5, <1>6, <1>7 DEF EditInv, OneEditor

\* The backup is taken; the files are not touched.
LEMMA BackupStep ==
    ASSUME OneEditor, EditInv, NEW e \in Editors, BackupOpen(e) \/ BackupFill(e)
    PROVE  EditInv'
<1> USE TokenFilesAssumption
<1>1. TypeOK /\ Maps /\ PrintedInForce /\ EditUndone /\ Stage(e)
    BY DEF EditInv
<1>2. /\ pc[e] \in {"backup", "fill"} /\ pc'[e] \in {"fill", "replace"}
      /\ pc' = [pc EXCEPT ![e] = pc'[e]]
      /\ UNCHANGED <<now, files, printed, revoked, edits, path, doc, prints, status, before>>
    BY <1>1 DEF BackupOpen, BackupFill, Goto, TypeOK
<1>3. /\ path[e] \in Paths /\ now \in 1..MaxTime /\ MaxTime \in Nat /\ files = before[e]
      /\ status[e] = "running"
    BY <1>1, <1>2 DEF TypeOK, Stage
<1>4. IsContent(Torn) /\ \A f \in DOMAIN files : IsContent(files[f])
    BY <1>1 DEF TypeOK, IsContent, Torn, NoDoc
<1>5. Maps' /\ PrintedInForce' /\ EditUndone'
    <2>1. PrintedInForce' /\ EditUndone'
        <3>1. PrintedInForce'
            BY <1>1, <1>2 DEF PrintedInForce, InForce
        <3>2. EditUndone'
            BY <1>2, <1>3 DEF EditUndone, OneEditor
        <3>3. QED
            BY <3>1, <3>2
    <2>2. DOMAIN copy' = Editors
        BY <1>1 DEF BackupOpen, BackupFill, Maps
    <2>3. QED
        BY <1>1, <1>2, <2>1, <2>2 DEF Maps
<1>6. NothingLost(e)'
    BY <1>1, <1>2 DEF NothingLost, Stage
<1>7. ASSUME /\ backup' \in [Editors -> 0..MaxTime]
             /\ DOMAIN backups' \subseteq Paths \X (1..MaxTime)
             /\ \A b \in DOMAIN backups' : IsContent(backups'[b])
      PROVE  TypeOK'
    <2>1. pc' \in [Editors -> {"idle", "backup", "fill", "replace", "validate", "restore"}]
        BY <1>1, <1>2 DEF TypeOK
    <2>2. QED
        BY <1>1, <1>2, <1>7, <2>1 DEF TypeOK
<1>8. CASE BackupOpen(e) /\ path[e] \in DOMAIN files
    <2>1. /\ backup' = [backup EXCEPT ![e] = now] /\ copy' = [copy EXCEPT ![e] = files[path[e]]]
          /\ backups' = With(backups, <<path[e], now>>, Torn) /\ pc' = [pc EXCEPT ![e] = "fill"]
        BY <1>8 DEF BackupOpen, Goto
    <2>2. backup'[e] = now /\ copy'[e] = files[path[e]] /\ pc'[e] = "fill" /\ now # 0
        BY <1>1, <1>3, <2>1 DEF TypeOK, Maps
    <2>3. backup' \in [Editors -> 0..MaxTime]
        BY <1>1, <1>3, <2>1 DEF TypeOK
    <2>4. /\ DOMAIN backups' = DOMAIN backups \cup {<<path[e], now>>} /\ backups'[<<path[e], now>>] = Torn
          /\ \A b \in DOMAIN backups : b # <<path[e], now>> => backups'[b] = backups[b]
        BY <2>1 DEF With
    <2>5. /\ DOMAIN backups' \subseteq Paths \X (1..MaxTime)
          /\ \A b \in DOMAIN backups' : IsContent(backups'[b])
        BY <1>1, <1>3, <1>4, <2>4 DEF TypeOK
    <2>6. TypeOK'
        BY <1>7, <2>3, <2>5
    <2>7. Stage(e)'
        BY <1>1, <1>2, <1>3, <1>6, <1>8, <2>2 DEF Stage
    <2>8. QED
        BY <1>5, <2>6, <2>7 DEF EditInv, OneEditor
<1>9. CASE BackupOpen(e) /\ path[e] \notin DOMAIN files
    <2>1. pc' = [pc EXCEPT ![e] = "replace"] /\ UNCHANGED <<backup, copy, backups>> /\ pc[e] = "backup"
        BY <1>9 DEF BackupOpen, Goto
    <2>2. TypeOK'
        BY <1>1, <1>7, <2>1 DEF TypeOK
    <2>3. pc'[e] = "replace" /\ backup'[e] = 0
        BY <1>1, <2>1 DEF TypeOK, Stage
    <2>4. Saved(e)'
        BY <1>2, <1>3, <1>9, <2>3 DEF Saved
    <2>5. Stage(e)'
        BY <1>1, <1>2, <1>3, <1>6, <2>3, <2>4 DEF Stage
    <2>6. QED
        BY <1>5, <2>2, <2>5 DEF EditInv, OneEditor
<1>10. CASE BackupFill(e)
    <2>1. /\ pc[e] = "fill" /\ backups' = With(backups, <<path[e], backup[e]>>, copy[e])
          /\ pc' = [pc EXCEPT ![e] = "replace"] /\ UNCHANGED <<copy, backup>>
        BY <1>10 DEF BackupFill, Goto
    <2>2. /\ path[e] \in DOMAIN files /\ copy[e] = files[path[e]] /\ backup[e] # 0
          /\ backup[e] \in 1..MaxTime /\ pc'[e] = "replace"
        BY <1>1, <1>3, <2>1 DEF Stage, TypeOK
    <2>3. /\ DOMAIN backups' = DOMAIN backups \cup {<<path[e], backup[e]>>}
          /\ backups'[<<path[e], backup[e]>>] = copy[e]
          /\ \A b \in DOMAIN backups : b # <<path[e], backup[e]>> => backups'[b] = backups[b]
        BY <2>1 DEF With
    <2>4. /\ DOMAIN backups' \subseteq Paths \X (1..MaxTime)
          /\ \A b \in DOMAIN backups' : IsContent(backups'[b])
        BY <1>1, <1>3, <1>4, <2>2, <2>3 DEF TypeOK
    <2>5. TypeOK'
        BY <1>1, <1>7, <2>1, <2>4 DEF TypeOK
    <2>6. Saved(e)'
        BY <1>2, <1>3, <2>1, <2>2, <2>3 DEF Saved
    <2>7. Stage(e)'
        BY <1>1, <1>2, <1>3, <1>6, <2>1, <2>2, <2>6 DEF Stage
    <2>8. QED
        BY <1>5, <2>5, <2>7 DEF EditInv, OneEditor
<1>11. QED
    BY <1>8, <1>9, <1>10 DEF BackupOpen

\* The edited document takes the place of the file.
LEMMA ReplaceStep ==
    ASSUME OneEditor, EditInv, NEW e \in Editors, Replace(e)
    PROVE  EditInv'
<1> USE TokenFilesAssumption
<1>1. TypeOK /\ Maps /\ PrintedInForce /\ EditUndone /\ Stage(e)
    BY DEF EditInv
<1>2. /\ pc[e] = "replace" /\ files' = With(files, path[e], Whole(doc[e]))
      /\ pc' = [pc EXCEPT ![e] = "validate"] /\ pc'[e] = "validate"
      /\ UNCHANGED <<now, backups, copy, backup, printed, revoked, edits, path, doc, prints, status, before>>
    BY <1>1 DEF Replace, Goto, TypeOK
<1>3. /\ path[e] \in Paths /\ IsDoc(doc[e]) /\ files = before[e] /\ status[e] = "running"
      /\ NothingLost(e) /\ Saved(e)
    BY <1>1, <1>2 DEF Stage
<1>4. Whole(doc[e]).doc = doc[e] /\ Whole(doc[e]).torn = FALSE
    BY DEF Whole
<1>5. /\ DOMAIN files' = DOMAIN files \cup {path[e]} /\ files'[path[e]] = Whole(doc[e])
      /\ \A f \in DOMAIN files : f # path[e] => files'[f] = files[f]
      /\ files' = [f \in DOMAIN files' |-> files'[f]]
    BY <1>2 DEF With
<1>6. TypeOK'
    <2>1. IsContent(Whole(doc[e])) /\ ~Whole(doc[e]).torn
        BY <1>3, <1>4 DEF IsContent, IsDoc
    <2>2. DOMAIN files' \subseteq Paths /\ \A f \in DOMAIN files' : ~files'[f].torn /\ IsContent(files'[f])
        BY <1>1, <1>3, <1>5, <2>1 DEF TypeOK
    <2>3. pc' \in [Editors -> {"idle", "backup", "fill", "replace", "validate", "restore"}]
        BY <1>1, <1>2 DEF TypeOK
    <2>4. QED
        BY <1>1, <1>2, <2>2, <2>3 DEF TypeOK
<1>7. Maps'
    BY <1>1, <1>2, <1>5 DEF Maps
<1>8. EditUndone'
    BY <1>2, <1>3 DEF EditUndone, OneEditor
<1>9. PrintedInForce'
    <2> SUFFICES ASSUME NEW x \in printed, x \notin revoked
                 PROVE  InForce(x[1], x[2])'
        BY <1>2 DEF PrintedInForce
    <2>1. PICK f \in DOMAIN files : Holds(files[f].doc, x[1], x[2])
        BY <1>1 DEF PrintedInForce, InForce, Holds
    <2>2. f \in DOMAIN files'
        BY <1>5
    <2>3. Holds(files'[f].doc, x[1], x[2])
        <3>1. CASE f = path[e]
            BY <1>3, <1>4, <1>5, <2>1, <3>1 DEF NothingLost
        <3>2. CASE f # path[e]
            BY <1>5, <2>1, <3>2
        <3>3. QED
            BY <3>1, <3>2
    <2>4. QED
        BY <2>2, <2>3 DEF InForce, Holds
<1>10. NothingLost(e)' /\ Saved(e)'
    BY <1>2, <1>3 DEF NothingLost, Saved
<1>11. Stage(e)'
    <2>1. files' = With(before'[e], path'[e], Whole(doc'[e]))
        BY <1>2, <1>3
    <2>2. \A f \in DOMAIN before'[e] : ~before'[e][f].torn /\ IsContent(before'[e][f])
        BY <1>1, <1>2, <1>3 DEF TypeOK
    <2>3. QED
        BY <1>1, <1>2, <1>10, <2>1, <2>2 DEF Stage
<1>12. QED
    BY <1>6, <1>7, <1>8, <1>9, <1>11 DEF EditInv, OneEditor

\* The merged configuration is loaded: the command is done, gives up a file that
\* was not there before, or goes on to restore.
LEMMA ValidateStep ==
    ASSUME OneEditor, EditInv, NEW e \in Editors, Validate(e)
    PROVE  EditInv'
<1>1. TypeOK /\ Maps /\ PrintedInForce /\ EditUndone /\ Stage(e)
    BY DEF EditInv
<1>2. pc[e] = "validate" /\ UNCHANGED <<now, files, backups, revoked, edits>>
    BY DEF Validate
<1>3. /\ path[e] \in Paths /\ prints[e] \subseteq TokenIDs \X Creds /\ Saved(e) /\ NothingLost(e)
      /\ \A x \in prints[e] : Holds(doc[e], x[1], x[2])
      /\ files = With(before[e], path[e], Whole(doc[e])) /\ status[e] = "running"
      /\ before[e] = [f \in DOMAIN before[e] |-> before[e][f]]
    BY <1>1, <1>2 DEF Stage
<1>4. /\ DOMAIN files = DOMAIN before[e] \cup {path[e]} /\ files[path[e]] = Whole(doc[e])
      /\ \A f \in DOMAIN before[e] : f # path[e] => files[f] = before[e][f]
    BY <1>3 DEF With
<1>5. /\ DOMAIN files' \subseteq Paths
      /\ \A f \in DOMAIN files' : ~files'[f].torn /\ IsContent(files'[f])
      /\ files' = [f \in DOMAIN files' |-> files'[f]]
      /\ DOMAIN backups' \subseteq Paths \X (1..MaxTime)
      /\ \A b \in DOMAIN backups' : IsContent(backups'[b])
      /\ printed \subseteq TokenIDs \X Creds
    BY <1>1, <1>2 DEF TypeOK, Maps
<1>6. CASE printed' = printed \cup prints[e] /\ End(e, "done")
    <2>1. printed' \subseteq TokenIDs \X Creds
        BY <1>3, <1>5, <1>6
    <2>2. \A x \in prints[e] : InForce(x[1], x[2])
        <3>1. path[e] \in DOMAIN files /\ files[path[e]].doc = doc[e]
            BY <1>4 DEF Whole
        <3>2. \A x \in prints[e] : Holds(files[path[e]].doc, x[1], x[2])
            BY <1>3, <3>1
        <3>3. QED
            BY <3>1, <3>2 DEF InForce, Holds
    <2>3. PrintedInForce'
        BY <1>1, <1>2, <1>6, <2>2 DEF PrintedInForce, InForce
    <2>4. QED
        BY <1>2, <1>5, <1>6, <2>1, <2>3, EndStep
<1>7. CASE printed' = printed /\ backup[e] = 0 /\ End(e, "failed")
    <2>1. path[e] \notin DOMAIN before[e]
        BY <1>3, <1>7 DEF Saved
    <2>2. \A f \in DOMAIN before[e] : files'[f] = before[e][f]
        BY <1>2, <1>4, <2>1
    <2>3. Restrict(files', DOMAIN before[e]) = before[e]
        BY <1>3, <2>2, Undone
    <2>4. PrintedInForce'
        BY <1>1, <1>2, <1>7 DEF PrintedInForce, InForce
    <2>5. QED
        BY <1>2, <1>5, <1>7, <2>3, <2>4, EndStep
<1>8. CASE printed' = printed /\ backup[e] # 0 /\ Goto(e, "restore") /\ UNCHANGED <<copy, backup>>
    <2>1. /\ pc' = [pc EXCEPT ![e] = "restore"] /\ pc'[e] = "restore"
          /\ UNCHANGED <<path, doc, prints, status, before>>
        BY <1>1, <1>8 DEF Goto, TypeOK
    <2>2. TypeOK'
        <3>1. pc' \in [Editors -> {"idle", "backup", "fill", "replace", "validate", "restore"}]
            BY <1>1, <2>1 DEF TypeOK
        <3>2. QED
            BY <1>1, <1>2, <1>8, <2>1, <3>1 DEF TypeOK
    <2>3. Maps' /\ PrintedInForce' /\ EditUndone'
        BY <1>1, <1>2, <1>8, <2>1 DEF Maps, PrintedInForce, InForce, EditUndone, KeptFiles, Recoverable
    <2>4. NothingLost(e)' /\ Saved(e)'
        BY <1>2, <1>3, <1>8, <2>1 DEF NothingLost, Saved
    <2>5. Stage(e)'
        BY <1>1, <1>2, <1>8, <2>1, <2>4 DEF Stage
    <2>6. QED
        BY <2>2, <2>3, <2>5 DEF EditInv, OneEditor
<1>9. QED
    BY <1>6, <1>7, <1>8 DEF Validate

\* The backup takes the place of the edited file: the files are those of before.
LEMMA RestoredStep ==
    ASSUME OneEditor, EditInv, NEW e \in Editors, pc[e] = "restore", End(e, "failed"),
           <<path[e], backup[e]>> \in DOMAIN backups,
           files' = With(files, path[e], backups[<<path[e], backup[e]>>]),
           backups' = Restrict(backups, DOMAIN backups \ {<<path[e], backup[e]>>}),
           UNCHANGED <<now, printed, revoked, edits>>
    PROVE  EditInv'
<1> DEFINE b == <<path[e], backup[e]>>
<1>1. TypeOK /\ Maps /\ PrintedInForce /\ Stage(e)
    BY DEF EditInv
<1>2. pc[e] = "restore" /\ End(e, "failed") /\ UNCHANGED <<now, printed, revoked, edits>>
    OBVIOUS
<1>3. /\ path[e] \in Paths /\ NothingLost(e) /\ Saved(e) /\ backup[e] # 0
      /\ files = With(before[e], path[e], Whole(doc[e]))
      /\ before[e] = [f \in DOMAIN before[e] |-> before[e][f]]
      /\ \A f \in DOMAIN before[e] : ~before[e][f].torn /\ IsContent(before[e][f])
    BY <1>1, <1>2 DEF Stage
<1>4. path[e] \in DOMAIN before[e] /\ b \in DOMAIN backups /\ backups[b] = before[e][path[e]]
    BY <1>3 DEF Saved
<1>5. files' = With(files, path[e], backups[b]) /\ backups' = Restrict(backups, DOMAIN backups \ {b})
    OBVIOUS
<1> HIDE DEF b
<1>6. /\ DOMAIN files = DOMAIN before[e] \cup {path[e]}
      /\ \A f \in DOMAIN before[e] : f # path[e] => files[f] = before[e][f]
    BY <1>3 DEF With
<1>7. /\ DOMAIN files' = DOMAIN before[e] /\ \A f \in DOMAIN before[e] : files'[f] = before[e][f]
      /\ files' = [f \in DOMAIN files' |-> files'[f]]
    <2>1. /\ DOMAIN files' = DOMAIN files \cup {path[e]} /\ files'[path[e]] = backups[b]
          /\ \A f \in DOMAIN files : f # path[e] => files'[f] = files[f]
          /\ files' = [f \in DOMAIN files' |-> files'[f]]
        BY <1>5 DEF With
    <2>2. QED
        BY <1>4, <1>6, <2>1
<1>8. /\ DOMAIN backups' \subseteq Paths \X (1..MaxTime)
      /\ \A c \in DOMAIN backups' : IsContent(backups'[c])
    <2>1. DOMAIN backups' \subseteq DOMAIN backups /\ \A c \in DOMAIN backups' : backups'[c] = backups[c]
        BY <1>5 DEF Restrict
    <2>2. QED
        BY <1>1, <2>1 DEF TypeOK
<1>9. Restrict(files', DOMAIN before[e]) = before[e]
    BY <1>3, <1>7, Undone
<1>10. PrintedInForce'
    <2> SUFFICES ASSUME NEW x \in printed, x \notin revoked
                 PROVE  InForce(x[1], x[2])'
        BY <1>2 DEF PrintedInForce
    <2>1. PICK f \in DOMAIN before[e] : Holds(before[e][f].doc, x[1], x[2])
        BY <1>3 DEF NothingLost, InFiles
    <2>2. f \in DOMAIN files' /\ files'[f] = before[e][f]
        BY <1>7
    <2>3. Holds(files'[f].doc, x[1], x[2])
        BY <2>1, <2>2
    <2>4. QED
        BY <2>2, <2>3 DEF InForce, Holds
<1>11. DOMAIN files' \subseteq Paths /\ \A f \in DOMAIN files' : ~files'[f].torn /\ IsContent(files'[f])
    BY <1>1, <1>3, <1>6, <1>7 DEF TypeOK
<1>12. printed' \subseteq TokenIDs \X Creds
    BY <1>1, <1>2 DEF TypeOK
<1>13. QED
    BY <1>2, <1>7, <1>8, <1>9, <1>10, <1>11, <1>12, EndStep

\* The restoring rename fails: the backup still holds the file as it was.
LEMMA UnrestoredStep ==
    ASSUME OneEditor, EditInv, NEW e \in Editors, pc[e] = "restore", End(e, "unrestored"),
           UNCHANGED <<files, backups, now, printed, revoked, edits>>
    PROVE  EditInv'
<1> DEFINE b == <<path[e], backup[e]>>
<1>1. TypeOK /\ Maps /\ PrintedInForce /\ Stage(e)
    BY DEF EditInv
<1>2. /\ Saved(e) /\ backup[e] # 0
      /\ files = With(before[e], path[e], Whole(doc[e]))
      /\ before[e] = [f \in DOMAIN before[e] |-> before[e][f]]
    BY <1>1 DEF Stage
<1>3. path[e] \in DOMAIN before[e] /\ b \in DOMAIN backups /\ backups[b] = before[e][path[e]]
    BY <1>2 DEF Saved
<1>4. With(files, path[e], backups[b]) = before[e]
    <2>1. /\ DOMAIN files = DOMAIN before[e] \cup {path[e]}
          /\ \A f \in DOMAIN before[e] : f # path[e] => files[f] = before[e][f]
        BY <1>2 DEF With
    <2>2. With(files, path[e], backups[b])
            = [f \in DOMAIN before[e] |-> IF f = path[e] THEN backups[b] ELSE files[f]]
        BY <1>3, <2>1 DEF With
    <2>3. [f \in DOMAIN before[e] |-> IF f = path[e] THEN backups[b] ELSE files[f]]
            = [f \in DOMAIN before[e] |-> before[e][f]]
        BY <1>3, <2>1
    <2>4. QED
        BY <1>2, <2>2, <2>3
<1>5. \E c \in DOMAIN backups' : With(files', c[1], backups'[c]) = before[e]
    <2>1. b \in DOMAIN backups' /\ b[1] = path[e] /\ files' = files /\ backups' = backups
        BY <1>3
    <2> HIDE DEF b
    <2>2. QED
        BY <1>4, <2>1
<1>6. /\ DOMAIN files' \subseteq Paths
      /\ \A f \in DOMAIN files' : ~files'[f].torn /\ IsContent(files'[f])
      /\ files' = [f \in DOMAIN files' |-> files'[f]]
      /\ DOMAIN backups' \subseteq Paths \X (1..MaxTime)
      /\ \A c \in DOMAIN backups' : IsContent(backups'[c])
      /\ printed' \subseteq TokenIDs \X Creds
    BY <1>1 DEF TypeOK, Maps
<1>7. PrintedInForce'
    BY <1>1 DEF PrintedInForce, InForce
<1>8. QED
    BY <1>5, <1>6, <1>7, EndStep

\* The two ends of a restore.
LEMMA RestoreStep ==
    ASSUME OneEditor, EditInv, NEW e \in Editors, Restore(e)
    PROVE  EditInv'
<1>1. pc[e] = "restore" /\ UNCHANGED <<now, printed, revoked, edits>>
    BY DEF Restore
<1>2. CASE /\ <<path[e], backup[e]>> \in DOMAIN backups /\ End(e, "failed")
           /\ files' = With(files, path[e], backups[<<path[e], backup[e]>>])
           /\ backups' = Restrict(backups, DOMAIN backups \ {<<path[e], backup[e]>>})
    BY <1>1, <1>2, RestoredStep
<1>3. CASE UNCHANGED <<files, backups>> /\ End(e, "unrestored")
    BY <1>1, <1>3, UnrestoredStep
<1>4. QED
    BY <1>2, <1>3 DEF Restore

\* A command that fails before the file is replaced, or is killed anywhere.
LEMMA BreakStep ==
    ASSUME OneEditor, EditInv, NEW e \in Editors, WriteFails(e) \/ Crash(e)
    PROVE  EditInv'
<1>1. TypeOK /\ Maps /\ PrintedInForce /\ Stage(e)
    BY DEF EditInv
<1>2. UNCHANGED <<now, files, backups, printed, revoked, edits>>
    BY DEF WriteFails, Crash
<1>3. /\ DOMAIN files' \subseteq Paths
      /\ \A f \in DOMAIN files' : ~files'[f].torn /\ IsContent(files'[f])
      /\ files' = [f \in DOMAIN files' |-> files'[f]]
      /\ DOMAIN backups' \subseteq Paths \X (1..MaxTime)
      /\ \A b \in DOMAIN backups' : IsContent(backups'[b])
      /\ printed' \subseteq TokenIDs \X Creds
    BY <1>1, <1>2 DEF TypeOK, Maps
<1>4. PrintedInForce'
    BY <1>1, <1>2 DEF PrintedInForce, InForce
<1>5. CASE WriteFails(e)
    <2>1. files' = before[e] /\ before[e] = [f \in DOMAIN before[e] |-> before[e][f]] /\ End(e, "failed")
        BY <1>1, <1>2, <1>5 DEF WriteFails, Stage
    <2>2. Restrict(files', DOMAIN before[e]) = before[e]
        BY <2>1, Undone
    <2>3. QED
        BY <1>2, <1>3, <1>4, <2>1, <2>2, EndStep
<1>6. CASE Crash(e)
    BY <1>2, <1>3, <1>4, <1>6, EndStep DEF Crash
<1>7. QED
    BY <1>5, <1>6

\* Every step keeps the invariant.
LEMMA EditStep == OneEditor /\ EditInv /\ [Next]_vars => EditInv'
<1> SUFFICES ASSUME OneEditor, EditInv, [Next]_vars PROVE EditInv'
    OBVIOUS
<1>1. ASSUME NEW e \in Editors, NEW f \in Paths, NEW t \in TokenIDs, Command(e, f, t) PROVE EditInv'
    BY <1>1, BeginStep
<1>2. ASSUME NEW e \in Editors, BackupOpen(e) \/ BackupFill(e) PROVE EditInv'
    BY <1>2, BackupStep
<1>3. ASSUME NEW e \in Editors, Replace(e) PROVE EditInv'
    BY <1>3, ReplaceStep
<1>4. ASSUME NEW e \in Editors, Validate(e) PROVE EditInv'
    BY <1>4, ValidateStep
<1>5. ASSUME NEW e \in Editors, Restore(e) PROVE EditInv'
    BY <1>5, RestoreStep
<1>6. ASSUME NEW e \in Editors, WriteFails(e) \/ Crash(e) PROVE EditInv'
    BY <1>6, BreakStep
<1>7. CASE Tick \/ UNCHANGED vars
    <2>1. UNCHANGED <<files, backups, commandVars, printed, revoked, edits>> /\ now' \in 1..MaxTime
        BY <1>7, TokenFilesAssumption DEF Tick, vars, EditInv, TypeOK
    <2>2. TypeOK' /\ Maps' /\ EditUndone' /\ PrintedInForce'
        BY <2>1 DEF EditInv, TypeOK, Maps, EditUndone, PrintedInForce, InForce, KeptFiles, Recoverable, commandVars
    <2>3. \A e \in Editors : Stage(e)'
        BY <2>1 DEF EditInv, Stage, Saved, NothingLost, commandVars
    <2>4. QED
        BY <2>2, <2>3 DEF EditInv
<1>8. QED
    BY <1>1, <1>2, <1>3, <1>4, <1>5, <1>6, <1>7 DEF Next

\* With one editor no token file is ever torn, whatever step a command fails or is
\* killed at: the file is replaced by a complete document or a complete backup.
THEOREM FilesNeverTorn == OneEditor => (Spec => []TypeOK)
<1> SUFFICES ASSUME OneEditor PROVE Spec => []TypeOK
    OBVIOUS
<1>1. EditInv /\ [Next]_vars => EditInv'
    BY EditStep
<1>2. EditInv => TypeOK
    BY DEF EditInv
<1>3. QED
    BY <1>1, <1>2, EditStart, PTL DEF Spec

\* With one editor a command that reports an error has changed no file that was
\* there before it, also after a crash in the same second left a torn backup; if
\* the restoring rename failed, the backup still undoes the command.
THEOREM FailedEditsAreUndone == OneEditor => (Spec => []EditUndone)
<1> SUFFICES ASSUME OneEditor PROVE Spec => []EditUndone
    OBVIOUS
<1>1. EditInv /\ [Next]_vars => EditInv'
    BY EditStep
<1>2. EditInv => EditUndone
    BY DEF EditInv
<1>3. QED
    BY <1>1, <1>2, EditStart, PTL DEF Spec

\* With one editor a raw token that was printed stays in force until a disable
\* names its credential: no failed, undone or killed command takes it away.
THEOREM PrintedStaysInForce == OneEditor => (Spec => []PrintedInForce)
<1> SUFFICES ASSUME OneEditor PROVE Spec => []PrintedInForce
    OBVIOUS
<1>1. EditInv /\ [Next]_vars => EditInv'
    BY EditStep
<1>2. EditInv => PrintedInForce
    BY DEF EditInv
<1>3. QED
    BY <1>1, <1>2, EditStart, PTL DEF Spec

=============================================================================

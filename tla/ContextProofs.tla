----------------------------- MODULE ContextProofs -----------------------------
(***************************************************************************)
(* What Contexts promises, proved for every instance: what is said to be   *)
(* fresh is current, since no change escapes between two looks at the      *)
(* repository; and no message is out of the model's reach, since a summary *)
(* holds all groups up to its cursor for ever.                             *)
(***************************************************************************)
EXTENDS Contexts, Integers, Sequences, FiniteSets, FiniteSetTheorems, SequenceTheorems,
        WellFoundedInduction, TLAPS

-------------------------------------------------------------------------------
(* Numbers *)

LEMMA LeastOf ==
    ASSUME NEW T \in SUBSET Nat, T # { }
    PROVE  \E x \in T : \A y \in T : x <= y
<1>1. PICK x \in T : \A y \in T : << y, x >> \notin OpToRel(<, Nat)
  BY WFMin, NatLessThanWellFounded
<1>2. ASSUME NEW y \in T PROVE x <= y
  <2>1. x \in Nat /\ y \in Nat
    OBVIOUS
  <2>2. ~(y < x)
    BY <1>1, <2>1 DEF OpToRel
  <2> QED
    BY <2>1, <2>2
<1> QED
  BY <1>2

-------------------------------------------------------------------------------
(* The working set *)

(* What the proof about the working set assumes.                             *)
SetLimits == MaxEvidence \in Nat /\ "none" \notin TrackedFiles

Places == TrackedFiles \cup { "none" }
Trees == [ TrackedFiles -> Nat ]
Kinds == { "mutation", "verification", "observation" }
ResultRows == { r \in [ tool : { "read", "edit", "check", "shell" }, file : Places, hash : Nat ] :
                  r.tool \in { "read", "edit" } => r.file \in TrackedFiles }
Prints == [ status : [ TrackedFiles -> { "clean", "untracked", "deleted", "modified" } ], hashes : Trees,
            commits : Nat ]
EvidenceRows == [ at : Nat, kind : Kinds, file : Places, fresh : BOOLEAN, print : Prints,
                  tree : Trees ]
ActiveRows == [ hash : Nat, fresh : { "none", "unknown", "fresh", "stale", "missing" } ]

(* What git says of a tree when HEAD is base, the n-th commit.               *)
PrintOf(tree, base, n) ==
    [ status |-> [ f \in TrackedFiles |->
                     IF tree[f] = base[f] \/ base[f] = Sets!Unlisted THEN "clean"
                     ELSE IF base[f] = Sets!Gone THEN "untracked"
                     ELSE IF tree[f] = Sets!Gone THEN "deleted" ELSE "modified" ],
      hashes |-> [ f \in TrackedFiles |-> IF tree[f] = base[f] \/ base[f] = Sets!Unlisted
                                          THEN Sets!NoHash ELSE tree[f] ],
      commits |-> n ]

EditedIn(list, from, to, f) ==
    \E n \in (from + 1)..to : list[n].tool = "edit" /\ (list[n].file = f \/ f = "none")

(* What is true of a piece of evidence when the results of the list up to    *)
(* the k-th are observed, print was the last look at the repository, and its *)
(* HEAD is base, the n-th commit.                                            *)
TrueOf(e, k, print, list, base, n) ==
    /\ e.at \in 1..k /\ e.print.commits <= n
    /\ e.print.commits = n => e.print = PrintOf(e.tree, base, n)
    /\ e.kind = "verification" /\ e.fresh => ~EditedIn(list, e.at, k, "none")
    /\ e.kind = "mutation" => e.file # "none" /\ (e.fresh => ~EditedIn(list, e.at, k, e.file))
    /\ e.kind = "observation" /\ e.fresh /\ e.file # "none" =>
         /\ print # Sets!Unseen
         /\ print.status[e.file] \notin { "clean", "untracked" } =>
              e.tree[e.file] = print.hashes[e.file]

EvidenceTrue(e, k, print) == TrueOf(e, k, print, results, setHead, commits)

SetTypes ==
    /\ disk \in Trees /\ setHead \in Trees /\ commits \in Nat
    /\ results \in Seq(ResultRows) /\ observed \in 0..Len(results)
    /\ setEvidence \in Seq(EvidenceRows) /\ Len(setEvidence) <= MaxEvidence
    /\ active \in [ TrackedFiles -> ActiveRows ]
    /\ setLast \in Prints \cup { Sets!Unseen } /\ setReported \in BOOLEAN
    /\ changes \in Nat

SetInv ==
    /\ SetTypes
    /\ \A n \in DOMAIN setEvidence : EvidenceTrue(setEvidence[n], observed, setLast)
    /\ Sets!FreshIsCurrent

(* What git says tells the tree.                                             *)
LEMMA PrintTells ==
    ASSUME NEW s \in Trees, NEW t \in Trees, PrintOf(s, setHead, commits) = PrintOf(t, setHead, commits)
    PROVE  \A f \in TrackedFiles : setHead[f] # Sets!Unlisted => s[f] = t[f]
<1>1. /\ PrintOf(s, setHead, commits).status = PrintOf(t, setHead, commits).status /\ PrintOf(s, setHead, commits).hashes = PrintOf(t, setHead, commits).hashes
  OBVIOUS
<1>2. ASSUME NEW f \in TrackedFiles, setHead[f] # Sets!Unlisted PROVE s[f] = t[f]
  <2>1. (IF s[f] = setHead[f] THEN "clean" ELSE IF setHead[f] = Sets!Gone THEN "untracked"
         ELSE IF s[f] = Sets!Gone THEN "deleted" ELSE "modified")
          = (IF t[f] = setHead[f] THEN "clean" ELSE IF setHead[f] = Sets!Gone THEN "untracked"
             ELSE IF t[f] = Sets!Gone THEN "deleted" ELSE "modified")
    BY <1>1, <1>2 DEF PrintOf
  <2>2. (IF s[f] = setHead[f] THEN Sets!NoHash ELSE s[f])
          = (IF t[f] = setHead[f] THEN Sets!NoHash ELSE t[f])
    BY <1>1, <1>2 DEF PrintOf
  <2> QED
    BY <2>1, <2>2
<1> QED
  BY <1>2

LEMMA PrintIsOne ==
    ASSUME NEW t \in Trees, setHead \in Trees, commits \in Nat
    PROVE  /\ PrintOf(t, setHead, commits) \in Prints /\ PrintOf(t, setHead, commits).commits = commits
           /\ \A f \in TrackedFiles :
                /\ PrintOf(t, setHead, commits).status[f] # "clean" => PrintOf(t, setHead, commits).hashes[f] = t[f]
                /\ PrintOf(t, setHead, commits).status[f] # "unseen"
                /\ PrintOf(t, setHead, commits).status[f] = "deleted" => t[f] = Sets!Gone
<1> DEFINE st == [ f \in TrackedFiles |->
                     IF t[f] = setHead[f] \/ setHead[f] = Sets!Unlisted THEN "clean"
                     ELSE IF setHead[f] = Sets!Gone THEN "untracked"
                     ELSE IF t[f] = Sets!Gone THEN "deleted" ELSE "modified" ]
           ha == [ f \in TrackedFiles |-> IF t[f] = setHead[f] \/ setHead[f] = Sets!Unlisted
                                          THEN Sets!NoHash ELSE t[f] ]
<1>1. PrintOf(t, setHead, commits) = [ status |-> st, hashes |-> ha, commits |-> commits ]
  BY DEF PrintOf
<1>2. st \in [ TrackedFiles -> { "clean", "untracked", "deleted", "modified" } ] /\ ha \in Trees
  BY DEF Trees, Sets!NoHash
<1>3. \A f \in TrackedFiles :
        /\ st[f] # "clean" => ha[f] = t[f]
        /\ st[f] # "unseen" /\ (st[f] = "deleted" => t[f] = Sets!Gone)
  OBVIOUS
<1> HIDE DEF st, ha
<1> QED
  BY <1>1, <1>2, <1>3 DEF Prints

LEMMA RepositoryIsPrint == Sets!Repository = PrintOf(disk, setHead, commits)
BY DEF Sets!Repository, PrintOf

-------------------------------------------------------------------------------
(* Evidence ages *)

Aged(e) == [ e EXCEPT !.fresh = FALSE ]

LEMMA AgedIsEvidence ==
    ASSUME NEW e \in EvidenceRows
    PROVE  /\ Aged(e) \in EvidenceRows /\ Aged(e).fresh = FALSE
           /\ Aged(e).at = e.at /\ Aged(e).kind = e.kind /\ Aged(e).file = e.file
           /\ Aged(e).print = e.print /\ Aged(e).tree = e.tree
BY DEF Aged, EvidenceRows

LEMMA AgedIsTrue ==
    ASSUME NEW e \in EvidenceRows, NEW k, NEW print, EvidenceTrue(e, k, print)
    PROVE  EvidenceTrue(Aged(e), k, print)
BY AgedIsEvidence DEF EvidenceTrue, TrueOf

(* Some of the evidence has become history.                                  *)
MayAge(old, new) ==
    /\ new \in Seq(EvidenceRows) /\ Len(new) = Len(old)
    /\ \A n \in 1..Len(old) : new[n] = old[n] \/ new[n] = Aged(old[n])

LEMMA SomeAge ==
    ASSUME NEW old \in Seq(EvidenceRows), NEW P \in SUBSET (1..Len(old)),
           NEW new, new = [ n \in DOMAIN old |-> IF n \in P THEN Aged(old[n]) ELSE old[n] ]
    PROVE  MayAge(old, new)
<1>1. DOMAIN old = 1..Len(old) /\ Len(old) \in Nat /\ \A n \in 1..Len(old) : old[n] \in EvidenceRows
  BY LenProperties
<1>2. \A n \in 1..Len(old) : Aged(old[n]) \in EvidenceRows
  BY <1>1, AgedIsEvidence
<1>3. new \in [ 1..Len(old) -> EvidenceRows ]
  BY <1>1, <1>2
<1>4. new \in Seq(EvidenceRows) /\ Len(new) = Len(old)
  BY <1>1, <1>3, LenProperties
<1> QED
  BY <1>1, <1>4 DEF MayAge

LEMMA InvalidAges ==
    ASSUME NEW items \in Seq(EvidenceRows), NEW kind, NEW F
    PROVE  /\ MayAge(items, Sets!Invalid(items, kind, F))
           /\ \A n \in 1..Len(items) : items[n].kind = kind /\ items[n].file \in F =>
                Sets!Invalid(items, kind, F)[n] = Aged(items[n])
<1> DEFINE P == { n \in 1..Len(items) : items[n].kind = kind /\ items[n].file \in F }
<1>1. DOMAIN items = 1..Len(items)
  BY LenProperties
<1>2. Sets!Invalid(items, kind, F) = [ n \in DOMAIN items |-> IF n \in P THEN Aged(items[n]) ELSE items[n] ]
  BY <1>1 DEF Sets!Invalid, Aged
<1>3. \A n \in P : Sets!Invalid(items, kind, F)[n] = Aged(items[n])
  BY <1>1, <1>2
<1>4. MayAge(items, Sets!Invalid(items, kind, F))
  <2> DEFINE new == Sets!Invalid(items, kind, F)
  <2>1. P \in SUBSET (1..Len(items))
    OBVIOUS
  <2>2. new = [ n \in DOMAIN items |-> IF n \in P THEN Aged(items[n]) ELSE items[n] ]
    BY <1>2
  <2> HIDE DEF P, new
  <2> QED
    BY <2>1, <2>2, SomeAge DEF new
<1> QED
  BY <1>3, <1>4

LEMMA UnverifiedAges ==
    ASSUME NEW items \in Seq(EvidenceRows)
    PROVE  /\ MayAge(items, Sets!UnverifiedIn(items))
           /\ \A n \in 1..Len(items) :
                items[n].kind = "verification" => Sets!UnverifiedIn(items)[n] = Aged(items[n])
<1> DEFINE P == { n \in 1..Len(items) : items[n].kind = "verification" }
<1>1. DOMAIN items = 1..Len(items)
  BY LenProperties
<1>2. Sets!UnverifiedIn(items) = [ n \in DOMAIN items |-> IF n \in P THEN Aged(items[n]) ELSE items[n] ]
  BY <1>1 DEF Sets!UnverifiedIn, Aged
<1>3. \A n \in P : Sets!UnverifiedIn(items)[n] = Aged(items[n])
  BY <1>1, <1>2
<1>4. MayAge(items, Sets!UnverifiedIn(items))
  <2> DEFINE new == Sets!UnverifiedIn(items)
  <2>1. P \in SUBSET (1..Len(items))
    OBVIOUS
  <2>2. new = [ n \in DOMAIN items |-> IF n \in P THEN Aged(items[n]) ELSE items[n] ]
    BY <1>2
  <2> HIDE DEF P, new
  <2> QED
    BY <2>1, <2>2, SomeAge DEF new
<1> QED
  BY <1>3, <1>4

LEMMA OutdatedAges ==
    ASSUME NEW items \in Seq(EvidenceRows)
    PROVE  /\ MayAge(items, Sets!Outdated(items))
           /\ \A n \in 1..Len(items) :
                items[n].kind = "verification" /\ items[n].print # Sets!Repository
                  => Sets!Outdated(items)[n] = Aged(items[n])
<1> DEFINE P == { n \in 1..Len(items) :
                    items[n].kind = "verification" /\ items[n].print # Sets!Repository }
<1>1. DOMAIN items = 1..Len(items)
  BY LenProperties
<1>2. Sets!Outdated(items) = [ n \in DOMAIN items |-> IF n \in P THEN Aged(items[n]) ELSE items[n] ]
  BY <1>1 DEF Sets!Outdated, Aged
<1>3. \A n \in P : Sets!Outdated(items)[n] = Aged(items[n])
  BY <1>1, <1>2
<1>4. MayAge(items, Sets!Outdated(items))
  <2> DEFINE new == Sets!Outdated(items)
  <2>1. P \in SUBSET (1..Len(items))
    OBVIOUS
  <2>2. new = [ n \in DOMAIN items |-> IF n \in P THEN Aged(items[n]) ELSE items[n] ]
    BY <1>2
  <2> HIDE DEF P, new
  <2> QED
    BY <2>1, <2>2, SomeAge DEF new
<1> QED
  BY <1>3, <1>4

LEMMA AgedStaysTrue ==
    ASSUME NEW old \in Seq(EvidenceRows), NEW new, MayAge(old, new), NEW k, NEW print,
           \A n \in 1..Len(old) : EvidenceTrue(old[n], k, print)
    PROVE  \A n \in 1..Len(new) : EvidenceTrue(new[n], k, print)
<1>1. ASSUME NEW n \in 1..Len(new) PROVE EvidenceTrue(new[n], k, print)
  <2>1. n \in 1..Len(old) /\ (new[n] = old[n] \/ new[n] = Aged(old[n]))
    BY DEF MayAge
  <2>2. old[n] \in EvidenceRows /\ EvidenceTrue(old[n], k, print)
    BY <2>1
  <2>3. EvidenceTrue(Aged(old[n]), k, print)
    BY <2>2, AgedIsTrue
  <2> QED
    BY <2>1, <2>2, <2>3
<1> QED
  BY <1>1

-------------------------------------------------------------------------------
(* Observing results *)

LEMMA EvidenceOfResult ==
    ASSUME SetTypes, NEW k \in 1..Len(results)
    PROVE  /\ Sets!Evidence(k) \in EvidenceRows
           /\ Sets!Evidence(k).at = k /\ Sets!Evidence(k).file = results[k].file
           /\ Sets!Evidence(k).print = Sets!Repository /\ Sets!Evidence(k).tree = disk
           /\ Sets!Evidence(k).kind = "mutation" => results[k].file \in TrackedFiles
<1>1. results[k] \in ResultRows
  BY DEF SetTypes
<1>2. results[k].file \in Places
  BY <1>1 DEF ResultRows
<1>3. Sets!Repository \in Prints /\ disk \in Trees
  BY RepositoryIsPrint, PrintIsOne DEF SetTypes
<1>4. Sets!Kind(results[k].tool) \in Kinds
  BY DEF Sets!Kind, Kinds
<1>5. k \in Nat
  BY DEF SetTypes
<1>9. Sets!Kind(results[k].tool) = "mutation" => results[k].file \in TrackedFiles
  BY <1>1 DEF ResultRows, Sets!Kind
<1> DEFINE r == Sets!Repository
           kind == Sets!Kind(results[k].tool)
           e == [ at |-> k, kind |-> kind, file |-> results[k].file, fresh |-> TRUE, print |-> r,
                  tree |-> disk ]
<1>6. Sets!Evidence(k) = e
  BY DEF Sets!Evidence
<1> HIDE DEF r, kind
<1>7. r \in Prints /\ kind \in Kinds
  BY <1>3, <1>4 DEF r, kind
<1>8. e \in EvidenceRows
  BY <1>2, <1>3, <1>5, <1>7 DEF EvidenceRows
<1> QED
  BY <1>6, <1>8, <1>9 DEF r, kind

LEMMA EvidenceIsTrue ==
    ASSUME SetLimits, SetTypes, NEW k \in 1..Len(results)
    PROVE  EvidenceTrue(Sets!Evidence(k), k, Sets!Repository)
<1> DEFINE e == Sets!Evidence(k)
<1>1. /\ e \in EvidenceRows /\ e.at = k /\ e.file = results[k].file
      /\ e.print = Sets!Repository /\ e.tree = disk
      /\ e.kind = "mutation" => e.file # "none"
  BY EvidenceOfResult DEF SetLimits
<1> HIDE DEF e
<1>2. Sets!Repository = PrintOf(disk, setHead, commits) /\ disk \in Trees /\ setHead \in Trees /\ commits \in Nat
      /\ k \in Nat /\ k # 0
  BY RepositoryIsPrint DEF SetTypes
<1>3. /\ PrintOf(disk, setHead, commits).commits = commits
      /\ \A f \in TrackedFiles :
           /\ PrintOf(disk, setHead, commits).status[f] # "clean" => PrintOf(disk, setHead, commits).hashes[f] = disk[f]
           /\ PrintOf(disk, setHead, commits).status[f] # "unseen"
  BY <1>2, PrintIsOne
<1>4. \A f : ~EditedIn(results, k, k, f)
  BY <1>2 DEF EditedIn
<1>5. e.file \in TrackedFiles \/ e.file = "none"
  BY <1>1 DEF EvidenceRows, Places
<1>6. e.file \in TrackedFiles => PrintOf(disk, setHead, commits) # Sets!Unseen
  <2>1. ASSUME e.file \in TrackedFiles, PrintOf(disk, setHead, commits) = Sets!Unseen PROVE FALSE
    <3>1. Sets!Unseen.status[e.file] = "unseen"
      BY <2>1 DEF Sets!Unseen
    <3> QED
      BY <1>3, <2>1, <3>1
  <2> QED
    BY <2>1
<1>7. e.at \in 1..k /\ e.print.commits <= commits
      /\ (e.print.commits = commits => e.print = PrintOf(e.tree, setHead, commits))
  BY <1>1, <1>2, <1>3
<1>8. ~EditedIn(results, e.at, k, "none") /\ ~EditedIn(results, e.at, k, e.file)
  BY <1>1, <1>4
<1>9. e.file # "none" =>
        /\ Sets!Repository # Sets!Unseen
        /\ Sets!Repository.status[e.file] \notin { "clean", "untracked" } =>
             e.tree[e.file] = Sets!Repository.hashes[e.file]
  BY <1>1, <1>2, <1>3, <1>5, <1>6
<1> QED
  BY <1>1, <1>7, <1>8, <1>9 DEF EvidenceTrue, TrueOf, e

(* What the next result leaves of evidence that was true before it.          *)
LEMMA TrueAfterOneMore ==
    ASSUME NEW e, NEW k \in Nat, k # 0, NEW print, EvidenceTrue(e, k - 1, print),
           results[k].tool = "edit" =>
             /\ ~(e.kind = "verification" /\ e.fresh)
             /\ ~(e.kind = "mutation" /\ e.fresh /\ e.file = results[k].file)
    PROVE  EvidenceTrue(e, k, print)
<1>1. \A j \in 1..(k - 1) : j \in 1..k
  OBVIOUS
<1>2. e.at \in 1..k
  BY <1>1 DEF EvidenceTrue, TrueOf
<1>3. ASSUME NEW f, EditedIn(results, e.at, k, f), ~EditedIn(results, e.at, k - 1, f)
      PROVE  results[k].tool = "edit" /\ (results[k].file = f \/ f = "none")
  <2>1. PICK n \in (e.at + 1)..k : results[n].tool = "edit" /\ (results[n].file = f \/ f = "none")
    BY <1>3 DEF EditedIn
  <2>2. n \notin (e.at + 1)..(k - 1)
    BY <1>3, <2>1 DEF EditedIn
  <2>3. n = k
    BY <1>2, <2>1, <2>2
  <2> QED
    BY <2>1, <2>3
<1> QED
  BY <1>2, <1>3 DEF EvidenceTrue, TrueOf

LEMMA OneMoreObserved ==
    ASSUME SetLimits, SetTypes, NEW k \in 1..Len(results),
           NEW items \in Seq(EvidenceRows), Len(items) <= MaxEvidence,
           \A n \in 1..Len(items) : EvidenceTrue(items[n], k - 1, Sets!Repository),
           NEW new, new = Sets!ObserveEvidence(items, k)
    PROVE  /\ new \in Seq(EvidenceRows) /\ Len(new) <= MaxEvidence
           /\ \A n \in 1..Len(new) : EvidenceTrue(new[n], k, Sets!Repository)
<1> DEFINE r == results[k]
           invalid == Sets!Invalid(items, "mutation", { r.file })
           unverified == Sets!UnverifiedIn(invalid)
           known == IF r.tool = "edit" THEN unverified ELSE items
           e == Sets!Evidence(k)
           p == Sets!Repository
<1>1. k \in Nat /\ k # 0
  BY DEF SetTypes
<1>2. new = Sets!Stalest(Append(known, e))
  BY DEF Sets!ObserveEvidence
<1>3. /\ invalid \in Seq(EvidenceRows) /\ Len(invalid) = Len(items)
      /\ \A n \in 1..Len(items) : /\ invalid[n] = items[n] \/ invalid[n] = Aged(items[n])
                                  /\ items[n].kind = "mutation" /\ items[n].file = r.file =>
                                       invalid[n] = Aged(items[n])
  BY InvalidAges DEF MayAge
<1>4. \A n \in 1..Len(invalid) : EvidenceTrue(invalid[n], k - 1, p)
  <2>1. MayAge(items, invalid)
    BY InvalidAges
  <2> HIDE DEF invalid, p
  <2> QED
    BY <2>1, AgedStaysTrue DEF p
<1> HIDE DEF invalid
<1>5. /\ unverified \in Seq(EvidenceRows) /\ Len(unverified) = Len(invalid)
      /\ \A n \in 1..Len(invalid) :
           /\ unverified[n] = invalid[n] \/ unverified[n] = Aged(invalid[n])
           /\ invalid[n].kind = "verification" => unverified[n] = Aged(invalid[n])
  BY <1>3, UnverifiedAges DEF MayAge
<1>6. \A n \in 1..Len(unverified) : EvidenceTrue(unverified[n], k - 1, p)
  <2>1. MayAge(invalid, unverified)
    BY <1>3, UnverifiedAges
  <2> HIDE DEF unverified, p
  <2> QED
    BY <1>3, <1>4, <2>1, AgedStaysTrue
<1> HIDE DEF unverified, p
<1>7. \A n \in 1..Len(items) : items[n] \in EvidenceRows /\ invalid[n] \in EvidenceRows
  BY <1>3
<1>8. ASSUME NEW n \in 1..Len(unverified)
      PROVE  /\ ~(unverified[n].kind = "verification" /\ unverified[n].fresh)
             /\ ~(unverified[n].kind = "mutation" /\ unverified[n].fresh
                    /\ unverified[n].file = r.file)
  <2>1. n \in 1..Len(items) /\ n \in 1..Len(invalid)
    BY <1>3, <1>5
  <2>2. /\ Aged(items[n]).fresh = FALSE /\ Aged(items[n]).file = items[n].file
        /\ Aged(items[n]).kind = items[n].kind
        /\ Aged(invalid[n]).fresh = FALSE /\ Aged(invalid[n]).file = invalid[n].file
        /\ Aged(invalid[n]).kind = invalid[n].kind
    BY <1>7, <2>1, AgedIsEvidence
  <2> QED
    BY <1>3, <1>5, <2>1, <2>2
<1>9. /\ known \in Seq(EvidenceRows) /\ Len(known) = Len(items)
      /\ \A n \in 1..Len(known) : EvidenceTrue(known[n], k, p)
  <2>1. CASE r.tool = "edit"
    <3>1. known = unverified
      BY <2>1
    <3>2. \A n \in 1..Len(unverified) : EvidenceTrue(unverified[n], k, p)
      BY <1>1, <1>6, <1>8, TrueAfterOneMore
    <3> QED
      BY <1>3, <1>5, <3>1, <3>2
  <2>2. CASE r.tool # "edit"
    <3>1. known = items
      BY <2>2
    <3>2. \A n \in 1..Len(items) : EvidenceTrue(items[n], k, p)
      BY <1>1, <2>2, TrueAfterOneMore DEF p
    <3> QED
      BY <3>1, <3>2
  <2> QED
    BY <2>1, <2>2
<1>10. e \in EvidenceRows /\ EvidenceTrue(e, k, p)
  BY EvidenceOfResult, EvidenceIsTrue DEF p
<1> HIDE DEF known, e, r
<1> DEFINE all == Append(known, e)
           m == Len(known)
<1>11. m \in Nat /\ m <= MaxEvidence
  BY <1>9
<1>12. /\ all \in Seq(EvidenceRows) /\ Len(all) = m + 1 /\ all[m + 1] = e
       /\ \A n \in 1..m : all[n] = known[n]
  BY <1>9, <1>10, AppendProperties
<1> HIDE DEF all
<1>13. \A n \in 1..(m + 1) : EvidenceTrue(all[n], k, p)
  BY <1>9, <1>10, <1>11, <1>12
<1>14. CASE Len(all) > MaxEvidence
  <2>1. new = Tail(all)
    BY <1>2, <1>14 DEF Sets!Stalest, all
  <2>2. /\ Tail(all) \in Seq(EvidenceRows) /\ Len(Tail(all)) = m
        /\ \A n \in 1..m : Tail(all)[n] = all[n + 1]
    BY <1>11, <1>12, <1>14, HeadTailProperties DEF SetLimits
  <2>3. \A n \in 1..m : n + 1 \in 1..(m + 1)
    BY <1>11
  <2> QED
    BY <1>11, <1>13, <2>1, <2>2, <2>3 DEF p
<1>15. CASE ~(Len(all) > MaxEvidence)
  <2>1. new = all
    BY <1>2, <1>15 DEF Sets!Stalest, all
  <2> QED
    BY <1>11, <1>12, <1>13, <1>15, <2>1 DEF p, SetLimits
<1> QED
  BY <1>14, <1>15

LEMMA OneMoreFile ==
    ASSUME SetTypes, NEW k \in 1..Len(results), NEW list \in [ TrackedFiles -> ActiveRows ]
    PROVE  Sets!ObserveFile(list, k) \in [ TrackedFiles -> ActiveRows ]
<1> DEFINE r == results[k]
<1>1. r \in ResultRows
  BY DEF SetTypes
<1> HIDE DEF r
<1>2. r.hash \in Nat /\ (r.tool = "read" => r.file \in TrackedFiles)
  BY <1>1 DEF ResultRows
<1>3. CASE r.tool = "read"
  <2> DEFINE touched == [ hash |-> r.hash, fresh |-> "fresh" ]
  <2>1. Sets!ObserveFile(list, k) = [ list EXCEPT ![r.file] = touched ]
    BY <1>3 DEF Sets!ObserveFile, r
  <2>2. touched \in ActiveRows
    BY <1>2 DEF ActiveRows
  <2> QED
    BY <2>1, <2>2
<1>4. CASE r.tool # "read"
  BY <1>4 DEF Sets!ObserveFile, r
<1> QED
  BY <1>3, <1>4

(* What the results up to the m-th make of evidence and files.               *)
ObservedTo(seen, items, list, m) ==
    seen = [ n \in observed..m |->
               IF n = observed THEN [ items |-> items, files |-> list ]
               ELSE [ items |-> Sets!ObserveEvidence(seen[n - 1].items, n),
                      files |-> Sets!ObserveFile(seen[n - 1].files, n) ] ]

LEMMA ObservedMore ==
    ASSUME NEW items, NEW list, observed \in Nat, NEW k \in Nat, k > observed, NEW s,
           ObservedTo(s, items, list, k - 1)
    PROVE  \E seen : ObservedTo(seen, items, list, k)
<1>1. k - 1 \in Nat /\ k - 1 >= observed
  OBVIOUS
<1> DEFINE Step(x, n) == [ items |-> Sets!ObserveEvidence(x.items, n),
                           files |-> Sets!ObserveFile(x.files, n) ]
           Start == [ items |-> items, files |-> list ]
<1>2. \A n \in observed..(k - 1) : s[n] = IF n = observed THEN Start ELSE Step(s[n - 1], n)
  BY DEF ObservedTo
<1>3. ASSUME NEW t, t = [ n \in observed..k |-> IF n = observed THEN Start ELSE Step(t[n - 1], n) ]
      PROVE  ObservedTo(t, items, list, k)
  BY <1>3 DEF ObservedTo
<1> HIDE DEF Step, Start
<1> DEFINE t == [ n \in observed..k |-> IF n < k THEN s[n] ELSE Step(s[k - 1], k) ]
<1>4. t[k] = Step(s[k - 1], k)
  BY <1>1
<1>5. \A n \in observed..(k - 1) : t[n] = s[n]
  BY <1>1
<1>6. t = [ n \in observed..k |-> t[n] ]
  OBVIOUS
<1> HIDE DEF t
<1>7. ASSUME NEW n \in observed..k
      PROVE  t[n] = IF n = observed THEN Start ELSE Step(t[n - 1], n)
  <2>1. CASE n = k
    <3>1. t[k - 1] = s[k - 1]
      BY <1>1, <1>5
    <3> QED
      BY <1>4, <2>1, <3>1
  <2>2. CASE n # k
    <3>1. n \in observed..(k - 1) /\ (n # observed => n - 1 \in observed..(k - 1))
      BY <2>2
    <3>2. t[n] = s[n] /\ (n # observed => t[n - 1] = s[n - 1])
      BY <1>5, <3>1
    <3> QED
      BY <1>2, <3>1, <3>2
  <2> QED
    BY <2>1, <2>2
<1>8. t = [ n \in observed..k |-> IF n = observed THEN Start ELSE Step(t[n - 1], n) ]
  BY <1>6, <1>7
<1> QED
  BY <1>3, <1>8

LEMMA ObservedExists ==
    ASSUME NEW items, NEW list, observed \in Nat, NEW m \in Nat, m >= observed
    PROVE  \E seen : ObservedTo(seen, items, list, m)
<1> DEFINE T == { k \in Nat : k >= observed /\ ~ \E seen : ObservedTo(seen, items, list, k) }
<1> SUFFICES ASSUME T # { } PROVE FALSE
  OBVIOUS
<1>1. T \in SUBSET Nat
  OBVIOUS
<1> HIDE DEF T
<1>2. PICK k \in T : \A j \in T : k <= j
  BY <1>1, LeastOf
<1> USE DEF T
<1>3. CASE k = observed
  <2> DEFINE s == [ n \in observed..observed |-> [ items |-> items, files |-> list ] ]
  <2>1. ObservedTo(s, items, list, observed)
    BY DEF ObservedTo
  <2> QED
    BY <1>2, <1>3, <2>1
<1>4. CASE k # observed
  <2>1. k - 1 \in Nat /\ k - 1 \notin T /\ k - 1 >= observed /\ k > observed
    BY <1>2, <1>4
  <2>2. PICK s : ObservedTo(s, items, list, k - 1)
    BY <2>1
  <2> QED
    BY <1>2, <2>1, <2>2, ObservedMore
<1> QED
  BY <1>3, <1>4

LEMMA AllObserved ==
    ASSUME SetLimits, SetTypes,
           NEW items \in Seq(EvidenceRows), Len(items) <= MaxEvidence,
           \A n \in 1..Len(items) : EvidenceTrue(items[n], observed, Sets!Repository),
           NEW all, all = Sets!ObserveAll(items, active)
    PROVE  /\ all.items \in Seq(EvidenceRows) /\ Len(all.items) <= MaxEvidence
           /\ \A n \in 1..Len(all.items) : EvidenceTrue(all.items[n], Len(results), Sets!Repository)
           /\ all.files \in [ TrackedFiles -> ActiveRows ]
<1> DEFINE m == Len(results)
           seen == CHOOSE seen : ObservedTo(seen, items, active, m)
<1>1. m \in Nat /\ observed \in Nat /\ m >= observed
  BY DEF SetTypes
<1>2. all = seen[m]
  BY DEF Sets!ObserveAll, ObservedTo
<1> HIDE DEF m
<1>3. ObservedTo(seen, items, active, m)
  BY <1>1, ObservedExists
<1> HIDE DEF seen
<1>4. \A n \in observed..m :
        seen[n] = IF n = observed THEN [ items |-> items, files |-> active ]
                  ELSE [ items |-> Sets!ObserveEvidence(seen[n - 1].items, n),
                         files |-> Sets!ObserveFile(seen[n - 1].files, n) ]
  BY <1>3 DEF ObservedTo
<1> DEFINE Good(x, k) ==
             /\ x.items \in Seq(EvidenceRows) /\ Len(x.items) <= MaxEvidence
             /\ \A n \in 1..Len(x.items) : EvidenceTrue(x.items[n], k, Sets!Repository)
             /\ x.files \in [ TrackedFiles -> ActiveRows ]
           T == { n \in observed..m : ~Good(seen[n], n) }
<1>5. ASSUME T # { } PROVE FALSE
  <2>1. T \in SUBSET Nat
    BY <1>1
  <2> HIDE DEF T
  <2>2. PICK n \in T : \A j \in T : n <= j
    BY <1>5, <2>1, LeastOf
  <2> USE DEF T
  <2>3. n \in observed..m /\ ~Good(seen[n], n)
    BY <2>2
  <2>4. CASE n = observed
    <3>1. seen[n] = [ items |-> items, files |-> active ]
      BY <1>1, <1>4, <2>3, <2>4
    <3>2. active \in [ TrackedFiles -> ActiveRows ]
      BY DEF SetTypes
    <3>3. seen[n].items = items /\ seen[n].files = active
      BY <3>1
    <3> QED
      BY <2>3, <2>4, <3>2, <3>3
  <2>5. CASE n # observed
    <3>1. n \in Nat /\ n - 1 \in observed..m /\ ~(n <= n - 1) /\ n \in 1..Len(results)
      BY <1>1, <2>3, <2>5 DEF m
    <3>2. Good(seen[n - 1], n - 1)
      BY <2>2, <3>1
    <3> DEFINE x == seen[n - 1]
               new == Sets!ObserveEvidence(x.items, n)
               list == Sets!ObserveFile(x.files, n)
    <3>8. seen[n] = [ items |-> new, files |-> list ]
      BY <1>4, <2>3, <2>5
    <3> HIDE DEF x, T, new, list
    <3>3. seen[n].items = new /\ seen[n].files = list
      BY <3>8
    <3> USE DEF new, list
    <3>4. /\ x.items \in Seq(EvidenceRows) /\ Len(x.items) <= MaxEvidence
          /\ \A j \in 1..Len(x.items) : EvidenceTrue(x.items[j], n - 1, Sets!Repository)
          /\ x.files \in [ TrackedFiles -> ActiveRows ]
      BY <3>2 DEF x
    <3>5. list \in [ TrackedFiles -> ActiveRows ]
      BY <3>1, <3>4, OneMoreFile
    <3>6. /\ new \in Seq(EvidenceRows) /\ Len(new) <= MaxEvidence
          /\ \A j \in 1..Len(new) : EvidenceTrue(new[j], n, Sets!Repository)
      <4> DEFINE old == x.items
      <4>1. new = Sets!ObserveEvidence(old, n)
        OBVIOUS
      <4>2. /\ old \in Seq(EvidenceRows) /\ Len(old) <= MaxEvidence
            /\ \A j \in 1..Len(old) : EvidenceTrue(old[j], n - 1, Sets!Repository)
        BY <3>4
      <4> HIDE DEF old, new
      <4> QED
        BY <3>1, <4>1, <4>2, OneMoreObserved
    <3> HIDE DEF new, list
    <3>7. Good(seen[n], n)
      BY <3>3, <3>5, <3>6
    <3> QED
      BY <2>3, <3>7
  <2> QED
    BY <2>4, <2>5
<1>6. m \in observed..m
  BY <1>1
<1>7. Good(seen[m], m)
  BY <1>5, <1>6
<1> QED
  BY <1>2, <1>7 DEF m

-------------------------------------------------------------------------------
(* Looking at the repository *)

(* What has changed since the last look, and the evidence after it.          *)
Touched == IF setLast = Sets!Unseen THEN { }
           ELSE Sets!Modified(setLast, Sets!Repository) \cup Sets!Deleted(Sets!Repository)
BeforeResults ==
    IF setLast # Sets!Unseen
         /\ (Touched # { } \/ Sets!Untracked(Sets!Repository) # { } \/ setLast.commits # commits)
    THEN Sets!UnverifiedIn(Sets!Invalid(setEvidence, "observation", Touched)) ELSE setEvidence

LEMMA ChangesAreSeen ==
    ASSUME SetInv
    PROVE  /\ BeforeResults \in Seq(EvidenceRows) /\ Len(BeforeResults) = Len(setEvidence)
           /\ \A n \in 1..Len(BeforeResults) :
                EvidenceTrue(BeforeResults[n], observed, Sets!Repository)
<1> DEFINE invalid == Sets!Invalid(setEvidence, "observation", Touched)
           unverified == Sets!UnverifiedIn(invalid)
           changed == setLast # Sets!Unseen /\
             (Touched # { } \/ Sets!Untracked(Sets!Repository) # { } \/ setLast.commits # commits)
           new == BeforeResults
<1>1. /\ setEvidence \in Seq(EvidenceRows) /\ DOMAIN setEvidence = 1..Len(setEvidence)
      /\ \A n \in 1..Len(setEvidence) :
           setEvidence[n] \in EvidenceRows /\ EvidenceTrue(setEvidence[n], observed, setLast)
  BY LenProperties DEF SetInv, SetTypes
<1>2. /\ invalid \in Seq(EvidenceRows) /\ Len(invalid) = Len(setEvidence)
      /\ \A n \in 1..Len(setEvidence) :
           /\ invalid[n] = setEvidence[n] \/ invalid[n] = Aged(setEvidence[n])
           /\ setEvidence[n].kind = "observation" /\ setEvidence[n].file \in Touched =>
                invalid[n] = Aged(setEvidence[n])
  BY <1>1, InvalidAges DEF MayAge
<1> HIDE DEF invalid
<1>3. /\ unverified \in Seq(EvidenceRows) /\ Len(unverified) = Len(invalid)
      /\ \A n \in 1..Len(invalid) :
           unverified[n] = invalid[n] \/ unverified[n] = Aged(invalid[n])
  BY <1>2, UnverifiedAges DEF MayAge
<1>4. new = IF changed THEN unverified ELSE setEvidence
  BY DEF BeforeResults, invalid
<1> HIDE DEF unverified, new
<1>5. new \in Seq(EvidenceRows) /\ Len(new) = Len(setEvidence)
  BY <1>1, <1>2, <1>3, <1>4
<1>6. ASSUME NEW n \in 1..Len(new)
      PROVE  EvidenceTrue(new[n], observed, Sets!Repository)
  <2> DEFINE e == setEvidence[n]
             a == new[n]
             p == Sets!Repository
  <2>1. e \in EvidenceRows /\ EvidenceTrue(e, observed, setLast)
    BY <1>1, <1>5, <1>6
  <2>2. invalid[n] \in EvidenceRows /\ n \in 1..Len(invalid) /\ n \in 1..Len(setEvidence)
    BY <1>2, <1>5, <1>6
  <2>3. /\ \A x \in { e, invalid[n] } :
             /\ Aged(x).fresh = FALSE /\ Aged(x).at = x.at /\ Aged(x).kind = x.kind
             /\ Aged(x).file = x.file /\ Aged(x).print = x.print /\ Aged(x).tree = x.tree
    BY <2>1, <2>2, AgedIsEvidence
  <2>4. /\ a.at = e.at /\ a.kind = e.kind /\ a.file = e.file /\ a.print = e.print /\ a.tree = e.tree
        /\ a.fresh => e.fresh
        /\ a.fresh /\ e.kind = "observation" /\ changed => e.file \notin Touched
    BY <1>2, <1>3, <1>4, <2>2, <2>3
  <2>5. p = PrintOf(disk, setHead, commits) /\ disk \in Trees /\ setHead \in Trees /\ commits \in Nat
    BY RepositoryIsPrint DEF SetInv, SetTypes
  <2>6. \A f \in TrackedFiles : p.status[f] # "unseen"
    BY <2>5, PrintIsOne
  <2> HIDE DEF a, p
  <2>7. ASSUME a.kind = "observation", a.fresh, a.file # "none"
        PROVE  /\ p # Sets!Unseen
               /\ p.status[a.file] \notin { "clean", "untracked" } => a.tree[a.file] = p.hashes[a.file]
    <3>1. a.file \in TrackedFiles
      BY <2>1, <2>4, <2>7 DEF EvidenceRows, Places
    <3>2. p # Sets!Unseen
      <4>1. Sets!Unseen.status[a.file] = "unseen"
        BY <3>1 DEF Sets!Unseen
      <4> QED
        BY <2>6, <3>1, <4>1
    <3>3. /\ setLast # Sets!Unseen
          /\ setLast.status[a.file] \notin { "clean", "untracked" } =>
               a.tree[a.file] = setLast.hashes[a.file]
      BY <2>1, <2>4, <2>7 DEF EvidenceTrue, TrueOf
    <3>4. a.file \notin Touched
      BY <2>4, <2>7, <3>3
    <3>5. a.file \notin Sets!Modified(setLast, p)
      BY <3>3, <3>4 DEF Touched, p
    <3>6. p.status[a.file] \notin { "clean", "untracked" } =>
            setLast.status[a.file] = p.status[a.file] /\ setLast.hashes[a.file] = p.hashes[a.file]
      BY <3>1, <3>5 DEF Sets!Modified
    <3> QED
      BY <3>2, <3>3, <3>6
  <2> QED
    BY <2>1, <2>4, <2>7 DEF EvidenceTrue, TrueOf, a, p
<1> QED
  BY <1>5, <1>6 DEF new

(* Where a tree agrees with the files, and a tracked file that is not as in  *)
(* HEAD.                                                                     *)
SameListed(tree) == \A f \in TrackedFiles : setHead[f] # Sets!Unlisted => tree[f] = disk[f]
Differs(f) == f # "none" /\ setHead[f] \notin { Sets!Gone, Sets!Unlisted, disk[f] }

(* What a report says after a look at the repository is so.                  *)
LEMMA LookIsCurrent ==
    ASSUME SetLimits, SetInv, Sets!Prepare
    PROVE  SetInv'
<1> DEFINE before == BeforeResults
           all == Sets!ObserveAll(before, active)
           items == all.items
           new == Sets!Outdated(items)
           m == Len(results)
           p == Sets!Repository
<1>1. /\ SetTypes /\ disk \in Trees /\ setHead \in Trees /\ commits \in Nat
      /\ results \in Seq(ResultRows) /\ m \in Nat /\ p = PrintOf(disk, setHead, commits) /\ p \in Prints
      /\ changes \in Nat /\ Len(setEvidence) <= MaxEvidence
  BY RepositoryIsPrint, PrintIsOne DEF SetInv, SetTypes
<1>2. /\ setEvidence' = new /\ observed' = m /\ setLast' = p /\ setReported' = TRUE
      /\ active' = [ f \in TrackedFiles |-> Sets!Freshness(f, all.files[f]) ]
      /\ disk' = disk /\ setHead' = setHead /\ commits' = commits /\ results' = results
      /\ changes' = changes
  BY DEF Sets!Prepare, BeforeResults, Touched
<1>3. /\ before \in Seq(EvidenceRows) /\ Len(before) <= MaxEvidence
      /\ \A n \in 1..Len(before) : EvidenceTrue(before[n], observed, p)
  BY <1>1, ChangesAreSeen
<1>4. /\ items \in Seq(EvidenceRows) /\ Len(items) <= MaxEvidence
      /\ \A n \in 1..Len(items) : EvidenceTrue(items[n], m, p)
      /\ all.files \in [ TrackedFiles -> ActiveRows ]
  <2>1. all = Sets!ObserveAll(before, active)
    OBVIOUS
  <2> HIDE DEF before, all
  <2> QED
    BY <1>1, <1>3, <2>1, AllObserved DEF p
<1> HIDE DEF before, items
<1>5. MayAge(items, new)
  BY <1>4, OutdatedAges
<1>6. /\ \A n \in 1..Len(items) :
           items[n].kind = "verification" /\ items[n].print # p => new[n] = Aged(items[n])
      /\ new \in Seq(EvidenceRows) /\ Len(new) = Len(items)
      /\ \A n \in 1..Len(items) : new[n] = items[n] \/ new[n] = Aged(items[n])
  BY <1>4, <1>5, OutdatedAges DEF MayAge
<1> HIDE DEF new, p, m, all
<1>7. \A n \in 1..Len(new) : EvidenceTrue(new[n], m, p)
  BY <1>4, <1>5, AgedStaysTrue
<1>8. ASSUME NEW f \in TrackedFiles
      PROVE  /\ active'[f] \in ActiveRows
             /\ active'[f].fresh = "fresh" => active'[f].hash = disk[f]
             /\ active'[f].fresh = "missing" <=> active'[f] # Sets!Inactive /\ disk[f] = Sets!Gone
  <2> DEFINE a == all.files[f]
  <2>1. a \in ActiveRows /\ active'[f] = Sets!Freshness(f, a)
    BY <1>2, <1>4
  <2> HIDE DEF a
  <2>2. /\ [ a EXCEPT !.fresh = "missing" ] \in ActiveRows
        /\ [ a EXCEPT !.fresh = "unknown" ] \in ActiveRows
        /\ [ a EXCEPT !.fresh = "fresh" ] \in ActiveRows
        /\ [ a EXCEPT !.fresh = "stale" ] \in ActiveRows
        /\ [ a EXCEPT !.fresh = "missing" ].fresh = "missing"
        /\ [ a EXCEPT !.fresh = "unknown" ].fresh = "unknown"
        /\ [ a EXCEPT !.fresh = "fresh" ].fresh = "fresh" /\ [ a EXCEPT !.fresh = "fresh" ].hash = a.hash
        /\ [ a EXCEPT !.fresh = "stale" ].fresh = "stale"
    BY <2>1 DEF ActiveRows
  <2>3. Sets!Inactive.fresh = "none"
    BY DEF Sets!Inactive
  <2>4. CASE a = Sets!Inactive
    BY <2>1, <2>3, <2>4 DEF Sets!Freshness
  <2>5. CASE a # Sets!Inactive /\ disk[f] = Sets!Gone
    BY <2>1, <2>2, <2>3, <2>5 DEF Sets!Freshness
  <2>6. CASE a # Sets!Inactive /\ disk[f] # Sets!Gone /\ a.hash = Sets!NoHash
    BY <2>1, <2>2, <2>6 DEF Sets!Freshness
  <2>7. CASE a # Sets!Inactive /\ disk[f] # Sets!Gone /\ a.hash # Sets!NoHash /\ a.hash = disk[f]
    <3>1. active'[f] = [ a EXCEPT !.fresh = "fresh" ]
      BY <2>1, <2>7 DEF Sets!Freshness
    <3> QED
      BY <2>2, <2>7, <3>1
  <2>8. CASE a # Sets!Inactive /\ disk[f] # Sets!Gone /\ a.hash # Sets!NoHash /\ a.hash # disk[f]
    <3>1. active'[f] = [ a EXCEPT !.fresh = "stale" ]
      BY <2>1, <2>8 DEF Sets!Freshness
    <3> QED
      BY <2>2, <2>8, <3>1
  <2> QED
    BY <2>4, <2>5, <2>6, <2>7, <2>8
<1>9. ASSUME NEW n \in 1..Len(new)
      PROVE  /\ new[n].kind = "verification" /\ new[n].fresh =>
                  ~EditedIn(results, new[n].at, m, "none") /\ SameListed(new[n].tree)
             /\ new[n].kind = "mutation" /\ new[n].fresh =>
                  ~EditedIn(results, new[n].at, m, new[n].file)
             /\ new[n].kind = "observation" /\ new[n].fresh /\ Differs(new[n].file) =>
                  new[n].tree[new[n].file] = disk[new[n].file]
  <2> DEFINE e == new[n]
  <2>1. n \in 1..Len(items) /\ items[n] \in EvidenceRows /\ e \in EvidenceRows
    BY <1>4, <1>6, <1>9
  <2>2. EvidenceTrue(e, m, p)
    BY <1>7, <1>9
  <2>3. Aged(items[n]).fresh = FALSE
    BY <2>1, AgedIsEvidence
  <2>4. ASSUME e.kind = "verification", e.fresh PROVE SameListed(e.tree)
    <3>1. e = items[n] /\ items[n].print = p
      BY <1>6, <2>1, <2>3, <2>4
    <3>2. p.commits = commits
      BY <1>1, PrintIsOne
    <3>3. PrintOf(e.tree, setHead, commits) = PrintOf(disk, setHead, commits)
      BY <1>1, <2>2, <3>1, <3>2 DEF EvidenceTrue, TrueOf
    <3>4. e.tree \in Trees
      BY <2>1 DEF EvidenceRows
    <3> QED
      BY <1>1, <3>3, <3>4, PrintTells DEF SameListed
  <2>5. ASSUME e.kind = "observation", e.fresh, Differs(e.file)
        PROVE  e.tree[e.file] = disk[e.file]
    <3>1. e.file \in TrackedFiles
      BY <2>1, <2>5 DEF EvidenceRows, Places, Differs
    <3>2. PrintOf(disk, setHead, commits).status[e.file] \notin { "clean", "untracked" }
      BY <2>5, <3>1 DEF PrintOf, Differs
    <3>3. PrintOf(disk, setHead, commits).hashes[e.file] = disk[e.file]
      BY <1>1, <3>1, <3>2, PrintIsOne
    <3>4. e.tree[e.file] = p.hashes[e.file]
      BY <1>1, <2>2, <2>5, <3>2 DEF EvidenceTrue, TrueOf, Differs
    <3> QED
      BY <1>1, <3>3, <3>4
  <2> HIDE DEF e
  <2>6. /\ e.kind = "verification" /\ e.fresh =>
             ~EditedIn(results, e.at, m, "none") /\ SameListed(e.tree)
        /\ e.kind = "mutation" /\ e.fresh => ~EditedIn(results, e.at, m, e.file)
        /\ e.kind = "observation" /\ e.fresh /\ Differs(e.file) => e.tree[e.file] = disk[e.file]
    BY <2>2, <2>4, <2>5 DEF EvidenceTrue, TrueOf
  <2> QED
    BY <2>6 DEF e
<1>10. SetTypes'
  <2>1. active' \in [ TrackedFiles -> ActiveRows ]
    BY <1>2, <1>8
  <2>2. m \in 0..m /\ m = Len(results')
    BY <1>1, <1>2 DEF m
  <2> QED
    BY <1>1, <1>2, <1>4, <1>6, <2>1, <2>2 DEF SetTypes
<1>11. \A n \in DOMAIN setEvidence' :
         TrueOf(setEvidence'[n], observed', setLast', results', setHead', commits')
  <2>1. DOMAIN new = 1..Len(new)
    BY <1>6, LenProperties
  <2> QED
    BY <1>2, <1>7, <2>1 DEF EvidenceTrue
<1>12. Sets!FreshIsCurrent'
  <2>1. ASSUME NEW e \in Sets!Range(setEvidence)'
        PROVE  \E n \in 1..Len(new) : e = new[n]
    BY <1>2, <1>6, <2>1 DEF Sets!Range
  <2>2. \A x, f : Sets!ReportsChange(x, f)' <=> EditedIn(results, x, m, f)
    BY <1>2 DEF Sets!ReportsChange, EditedIn, m
  <2>3. ASSUME NEW e \in Sets!Range(setEvidence)'
        PROVE  /\ e.kind = "verification" /\ e.fresh =>
                    ~EditedIn(results, e.at, m, "none") /\ SameListed(e.tree)
               /\ e.kind = "mutation" /\ e.fresh => ~EditedIn(results, e.at, m, e.file)
               /\ e.kind = "observation" /\ e.fresh /\ Differs(e.file) =>
                    e.tree[e.file] = disk[e.file]
    BY <1>9, <2>1, <2>3
  <2>4. ASSUME NEW e \in Sets!Range(setEvidence)', e.fresh
        PROVE  /\ e.kind = "verification" =>
                    /\ ~Sets!ReportsChange(e.at, "none")'
                    /\ \A f \in TrackedFiles : setHead'[f] # Sets!Unlisted => e.tree[f] = disk'[f]
               /\ e.kind = "mutation" => ~Sets!ReportsChange(e.at, e.file)'
               /\ e.kind = "observation" /\ e.file # "none"
                    /\ setHead'[e.file] \notin { Sets!Gone, Sets!Unlisted, disk'[e.file] } =>
                       e.tree[e.file] = disk'[e.file]
    <3>1. /\ Sets!ReportsChange(e.at, "none")' <=> EditedIn(results, e.at, m, "none")
          /\ Sets!ReportsChange(e.at, e.file)' <=> EditedIn(results, e.at, m, e.file)
      BY <2>2
    <3> QED
      BY <1>2, <2>3, <2>4, <3>1 DEF SameListed, Differs
  <2>5. \A f \in TrackedFiles :
          /\ active'[f].fresh = "fresh" => active'[f].hash = disk'[f]
          /\ active'[f].fresh = "missing" <=> active'[f] # Sets!Inactive /\ disk'[f] = Sets!Gone
    BY <1>2, <1>8
  <2> QED
    BY <2>4, <2>5 DEF Sets!FreshIsCurrent
<1> QED
  BY <1>10, <1>11, <1>12 DEF SetInv, EvidenceTrue

-------------------------------------------------------------------------------
(* Tools and the user *)

(* What changes files or adds results leaves the evidence as it is, and      *)
(* nothing is reported of it before the next look.                           *)
LEMMA OutsideIsUnseen ==
    ASSUME SetInv, setReported' = FALSE,
           disk' \in Trees, setHead' \in Trees, commits' \in Nat, changes' \in Nat,
           (setHead' = setHead /\ commits' = commits) \/ commits' = commits + 1,
           results' = results \/ \E r \in ResultRows : results' = Append(results, r),
           UNCHANGED << observed, setEvidence, active, setLast >>
    PROVE  SetInv'
<1>1. SetTypes /\ commits \in Nat /\ results \in Seq(ResultRows) /\ observed \in 0..Len(results)
      /\ Len(results) \in Nat
  BY DEF SetInv, SetTypes
<1>2. /\ results' \in Seq(ResultRows) /\ Len(results') \in Nat /\ Len(results') >= Len(results)
      /\ \A n \in 1..Len(results) : results'[n] = results[n]
  <2>1. CASE results' = results
    BY <1>1, <2>1
  <2>2. CASE \E r \in ResultRows : results' = Append(results, r)
    BY <1>1, <2>2, AppendProperties
  <2> QED
    BY <2>1, <2>2
<1>3. SetTypes'
  <2>1. observed' \in 0..Len(results')
    BY <1>1, <1>2
  <2> QED
    BY <1>1, <1>2, <2>1 DEF SetTypes
<1>4. ASSUME NEW n \in DOMAIN setEvidence
      PROVE  TrueOf(setEvidence[n], observed, setLast, results', setHead', commits')
  <2> DEFINE e == setEvidence[n]
  <2>1. TrueOf(e, observed, setLast, results, setHead, commits)
    BY <1>4 DEF SetInv, EvidenceTrue
  <2>2. e \in EvidenceRows
    BY <1>1, <1>4 DEF SetTypes
  <2>3. e.print.commits \in Nat
    BY <2>2 DEF EvidenceRows, Prints
  <2> HIDE DEF e
  <2>4. \A f : EditedIn(results', e.at, observed, f) <=> EditedIn(results, e.at, observed, f)
    <3>1. \A k \in (e.at + 1)..observed : k \in 1..Len(results)
      BY <1>1, <2>1 DEF TrueOf
    <3> QED
      BY <1>2, <3>1 DEF EditedIn
  <2>5. e.print.commits <= commits' /\ (e.print.commits = commits' => setHead' = setHead /\ commits' = commits)
    BY <1>1, <2>1, <2>3 DEF TrueOf
  <2>6. e.print.commits = commits' => e.print = PrintOf(e.tree, setHead', commits')
    BY <2>1, <2>5 DEF TrueOf
  <2>7. TrueOf(e, observed, setLast, results', setHead', commits')
    BY <2>1, <2>4, <2>5, <2>6 DEF TrueOf
  <2> QED
    BY <2>7 DEF e
<1>5. Sets!FreshIsCurrent'
  BY DEF Sets!FreshIsCurrent
<1>6. \A n \in DOMAIN setEvidence' :
        TrueOf(setEvidence'[n], observed', setLast', results', setHead', commits')
  BY <1>4
<1> QED
  BY <1>3, <1>5, <1>6 DEF SetInv, EvidenceTrue
LEMMA ToolIsUnseen ==
    ASSUME SetInv, NEW tool \in { "read", "edit", "check", "shell" }, NEW f \in Places,
           tool \in { "read", "edit" } => f \in TrackedFiles,
           Sets!Result(tool, f), disk' \in Trees, changes' \in Nat
    PROVE  SetInv'
<1> DEFINE hash == IF tool = "read" THEN disk[f] ELSE Sets!NoHash
           r == [ tool |-> tool, file |-> f, hash |-> hash ]
<1>1. SetTypes /\ disk \in Trees /\ setHead \in Trees /\ commits \in Nat
  BY DEF SetInv, SetTypes
<1>2. hash \in Nat
  BY <1>1 DEF Trees, Sets!NoHash
<1>3. /\ results' = Append(results, r) /\ setReported' = FALSE /\ setHead' = setHead /\ commits' = commits
      /\ UNCHANGED << observed, setEvidence, active, setLast >>
  BY DEF Sets!Result
<1> HIDE DEF hash
<1>4. r \in ResultRows
  BY <1>2 DEF ResultRows
<1> HIDE DEF r
<1>5. \E x \in ResultRows : results' = Append(results, x)
  BY <1>3, <1>4
<1> QED
  BY <1>1, <1>3, <1>5, OutsideIsUnseen

LEMMA NewTextIsText ==
    ASSUME SetTypes, NEW f \in TrackedFiles, Sets!NewText(f)
    PROVE  disk' \in Trees /\ changes' \in Nat
<1>1. disk \in Trees /\ changes + 3 \in Nat /\ changes + 1 \in Nat
  BY DEF SetTypes
<1>2. disk' = [ disk EXCEPT ![f] = changes + 3 ] /\ changes' = changes + 1
  <2>1. 2 + changes + 1 = changes + 3
    BY <1>1 DEF SetTypes
  <2> QED
    BY <2>1 DEF Sets!NewText, Sets!Text
<1> QED
  BY <1>1, <1>2 DEF Trees

LEMMA ToolStep ==
    ASSUME SetInv, NEW f \in TrackedFiles,
           Sets!ReadFile(f) \/ Sets!EditFile(f) \/ Sets!RunCommand(f)
    PROVE  SetInv'
<1>1. SetTypes /\ disk \in Trees /\ changes \in Nat /\ f \in Places /\ "none" \in Places
  BY DEF SetInv, SetTypes, Places
<1>2. CASE Sets!ReadFile(f)
  <2>1. Sets!Result("read", f) /\ disk' = disk /\ changes' = changes
    BY <1>2 DEF Sets!ReadFile
  <2> QED
    BY <1>1, <2>1, ToolIsUnseen
<1>3. CASE Sets!EditFile(f)
  <2>1. Sets!Result("edit", f) /\ Sets!NewText(f)
    BY <1>3 DEF Sets!EditFile
  <2> QED
    BY <1>1, <2>1, NewTextIsText, ToolIsUnseen
<1>4. CASE Sets!RunCommand(f)
  <2>1. Sets!Result("shell", "none") /\ Sets!NewText(f)
    BY <1>4 DEF Sets!RunCommand
  <2> QED
    BY <1>1, <2>1, NewTextIsText, ToolIsUnseen
<1> QED
  BY <1>2, <1>3, <1>4

LEMMA UserStep ==
    ASSUME SetInv, NEW f \in TrackedFiles,
           Sets!UserEdits(f) \/ Sets!UserReverts(f) \/ Sets!UserDeletes(f)
    PROVE  SetInv'
<1>1. SetTypes /\ disk \in Trees /\ setHead \in Trees /\ commits \in Nat /\ changes \in Nat
  BY DEF SetInv, SetTypes
<1>2. /\ results' = results /\ setReported' = FALSE /\ setHead' = setHead /\ commits' = commits
      /\ UNCHANGED << observed, setEvidence, active, setLast >>
  BY DEF Sets!UserEdits, Sets!UserReverts, Sets!UserDeletes, Sets!Outside
<1>3. disk' \in Trees /\ changes' \in Nat
  <2>1. CASE Sets!UserEdits(f)
    BY <1>1, <2>1, NewTextIsText DEF Sets!UserEdits
  <2>2. CASE Sets!UserReverts(f)
    BY <1>1, <2>2 DEF Sets!UserReverts, Trees
  <2>3. CASE Sets!UserDeletes(f)
    BY <1>1, <2>3 DEF Sets!UserDeletes, Trees, Sets!Gone
  <2> QED
    BY <2>1, <2>2, <2>3
<1> QED
  BY <1>1, <1>2, <1>3, OutsideIsUnseen

LEMMA CommitStep ==
    ASSUME SetInv, Sets!UserCommits
    PROVE  SetInv'
<1>1. SetTypes /\ disk \in Trees /\ commits + 1 \in Nat /\ changes \in Nat
  BY DEF SetInv, SetTypes
<1>2. /\ results' = results /\ setReported' = FALSE /\ commits' = commits + 1
      /\ UNCHANGED << observed, setEvidence, active, setLast >> /\ disk' = disk /\ changes' = changes
      /\ setHead' = [ f \in TrackedFiles |-> IF setHead[f] = Sets!Unlisted THEN Sets!Unlisted ELSE disk[f] ]
  BY DEF Sets!UserCommits, Sets!Outside
<1>3. setHead' \in Trees
  BY <1>1, <1>2 DEF Trees, Sets!Unlisted
<1> QED
  BY <1>1, <1>2, <1>3, OutsideIsUnseen

(* After a restart nothing is known, and nothing is said.                    *)
LEMMA NothingKnown ==
    ASSUME SetLimits, disk \in Trees, setHead \in Trees, commits \in Nat, changes \in Nat,
           results \in Seq(ResultRows), observed = 0, setEvidence = << >>,
           active = [ f \in TrackedFiles |-> Sets!Inactive ], setLast = Sets!Unseen,
           setReported = FALSE
    PROVE  SetInv
<1>1. setEvidence \in Seq(EvidenceRows) /\ Len(setEvidence) = 0 /\ DOMAIN setEvidence = { }
  OBVIOUS
<1>2. Sets!Inactive \in ActiveRows
  BY DEF Sets!Inactive, ActiveRows, Sets!NoHash
<1>3. observed \in 0..Len(results)
  BY LenProperties
<1>4. Len(setEvidence) <= MaxEvidence
  BY <1>1 DEF SetLimits
<1>5. active \in [ TrackedFiles -> ActiveRows ] /\ setLast \in Prints \cup { Sets!Unseen }
  BY <1>2
<1>6. SetTypes
  BY <1>1, <1>3, <1>4, <1>5 DEF SetTypes
<1>7. Sets!FreshIsCurrent
  BY DEF Sets!FreshIsCurrent
<1> QED
  BY <1>1, <1>6, <1>7 DEF SetInv

LEMMA SetInvInit ==
    ASSUME SetLimits, Sets!Init
    PROVE  SetInv
<1>1. disk \in Trees /\ setHead \in Trees /\ commits \in Nat /\ changes \in Nat
  BY DEF Sets!Init, Trees, Sets!Text, Sets!Gone, Sets!Unlisted
<1>2. results \in Seq(ResultRows)
  BY DEF Sets!Init
<1> QED
  BY <1>1, <1>2, NothingKnown DEF Sets!Init

LEMMA RestartStep ==
    ASSUME SetLimits, SetInv, Sets!Restart
    PROVE  SetInv'
<1>1. SetTypes' /\ Len(setEvidence') = 0 /\ DOMAIN setEvidence' = { }
  <2>1. /\ disk' = disk /\ setHead' = setHead /\ commits' = commits /\ changes' = changes
        /\ results' = results /\ observed' = 0 /\ setEvidence' = << >> /\ setLast' = Sets!Unseen
        /\ active' = [ f \in TrackedFiles |-> Sets!Inactive ] /\ setReported' = FALSE
    BY DEF Sets!Restart
  <2>2. Sets!Inactive \in ActiveRows
    BY DEF Sets!Inactive, ActiveRows, Sets!NoHash
  <2>3. observed' \in 0..Len(results')
    BY <2>1, LenProperties DEF SetInv, SetTypes
  <2>4. Len(setEvidence') = 0 /\ DOMAIN setEvidence' = { } /\ setEvidence' \in Seq(EvidenceRows)
    BY <2>1
  <2>5. Len(setEvidence') <= MaxEvidence
    BY <2>4 DEF SetLimits
  <2>6. setLast' \in Prints \cup { Sets!Unseen } /\ active' \in [ TrackedFiles -> ActiveRows ]
    BY <2>1, <2>2
  <2> QED
    BY <2>1, <2>3, <2>4, <2>5, <2>6 DEF SetTypes, SetInv
<1>2. Sets!FreshIsCurrent'
  BY DEF Sets!Restart, Sets!FreshIsCurrent
<1> QED
  BY <1>1, <1>2 DEF SetInv

LEMMA SetInvStep ==
    ASSUME SetLimits, SetInv, [Sets!Next]_(Sets!setVars)
    PROVE  SetInv'
<1>1. CASE Sets!Prepare
  BY <1>1, LookIsCurrent
<1>2. CASE Sets!RunCheck
  <2>1. Sets!Result("check", "none") /\ disk' = disk /\ changes' = changes
    BY <1>2 DEF Sets!RunCheck
  <2>2. "none" \in Places /\ disk \in Trees /\ changes \in Nat
    BY DEF Places, SetInv, SetTypes
  <2> QED
    BY <2>1, <2>2, ToolIsUnseen
<1>3. CASE Sets!UserCommits
  BY <1>3, CommitStep
<1>4. CASE Sets!Restart
  BY <1>4, RestartStep
<1>5. ASSUME NEW f \in TrackedFiles,
             Sets!ReadFile(f) \/ Sets!EditFile(f) \/ Sets!RunCommand(f)
               \/ Sets!UserEdits(f) \/ Sets!UserReverts(f) \/ Sets!UserDeletes(f)
      PROVE  SetInv'
  BY <1>5, ToolStep, UserStep
<1>6. CASE UNCHANGED Sets!setVars
  <2>1. /\ disk' = disk /\ setHead' = setHead /\ commits' = commits /\ changes' = changes
        /\ results' = results /\ observed' = observed /\ setEvidence' = setEvidence
        /\ setLast' = setLast /\ active' = active /\ setReported' = setReported
    BY <1>6 DEF Sets!setVars
  <2>2. SetTypes'
    BY <2>1 DEF SetInv, SetTypes
  <2>3. Sets!FreshIsCurrent'
    BY <2>1 DEF SetInv, Sets!FreshIsCurrent, Sets!ReportsChange, Sets!Range
  <2>4. \A n \in DOMAIN setEvidence' :
          TrueOf(setEvidence'[n], observed', setLast', results', setHead', commits')
    BY <2>1 DEF SetInv, EvidenceTrue
  <2> QED
    BY <2>2, <2>3, <2>4 DEF SetInv, EvidenceTrue
<1> QED
  BY <1>1, <1>2, <1>3, <1>4, <1>5, <1>6 DEF Sets!Next

LEMMA FreshStaysCurrent ==
    ASSUME SetLimits
    PROVE  Sets!Spec => [](Sets!TypeOK /\ Sets!FreshIsCurrent)
<1>1. Sets!Init => SetInv
  BY SetInvInit
<1>2. SetInv /\ [Sets!Next]_(Sets!setVars) => SetInv'
  BY SetInvStep
<1>3. SetInv => Sets!TypeOK /\ Sets!FreshIsCurrent
  <2>1. SetTypes => \A f \in TrackedFiles : active[f] \in ActiveRows
    BY DEF SetTypes
  <2> QED
    BY <2>1 DEF SetInv, SetTypes, Sets!TypeOK, ActiveRows
<1> QED
  BY <1>1, <1>2, <1>3, PTL DEF Sets!Spec

-------------------------------------------------------------------------------
(* Sums *)

(* A sum takes away one element after the other, down to the empty set.      *)
PickOf(s) == CHOOSE x \in s : TRUE
SumTo(sum, f, S, n) ==
    sum = [ s \in { s \in SUBSET S : Cardinality(s) <= n } |->
              IF s = { } THEN 0 ELSE f[PickOf(s)] + sum[s \ { PickOf(s) }] ]

LEMMA PickIsOne ==
    ASSUME NEW S, IsFiniteSet(S), NEW s \in SUBSET S, s # { }
    PROVE  /\ PickOf(s) \in s /\ s \ { PickOf(s) } \in SUBSET S
           /\ Cardinality(s \ { PickOf(s) }) = Cardinality(s) - 1
           /\ Cardinality(s) \in Nat /\ Cardinality(s \ { PickOf(s) }) \in Nat
<1>1. PickOf(s) \in s
  BY DEF PickOf
<1>2. IsFiniteSet(s)
  BY FS_Subset
<1> QED
  BY <1>1, <1>2, FS_RemoveElement, FS_CardinalityType, FS_Subset

LEMMA SumMore ==
    ASSUME NEW S, IsFiniteSet(S), NEW f, NEW n \in Nat, NEW old, SumTo(old, f, S, n)
    PROVE  \E sum : SumTo(sum, f, S, n + 1)
<1> DEFINE Of(m) == { s \in SUBSET S : Cardinality(s) <= m }
           Step(x, s) == IF s = { } THEN 0 ELSE f[PickOf(s)] + x[s \ { PickOf(s) }]
           sum == [ s \in Of(n + 1) |-> Step(old, s) ]
<1>1. ASSUME NEW s \in SUBSET S PROVE Cardinality(s) \in Nat
  BY FS_Subset, FS_CardinalityType
<1>2. ASSUME NEW s \in Of(n) PROVE s \in Of(n + 1) /\ sum[s] = old[s]
  <2>1. s \in Of(n + 1)
    BY <1>1
  <2> QED
    BY <2>1 DEF SumTo
<1>3. ASSUME NEW s \in Of(n + 1) PROVE sum[s] = Step(sum, s)
  <2>1. CASE s = { }
    BY <2>1
  <2>2. CASE s # { }
    <3>1. s \ { PickOf(s) } \in Of(n)
      BY <1>1, <2>2, PickIsOne
    <3>2. sum[s \ { PickOf(s) }] = old[s \ { PickOf(s) }]
      BY <1>2, <3>1
    <3> QED
      BY <3>2
  <2> QED
    BY <2>1, <2>2
<1>4. sum = [ s \in Of(n + 1) |-> sum[s] ]
  OBVIOUS
<1> HIDE DEF sum
<1>5. sum = [ s \in Of(n + 1) |-> Step(sum, s) ]
  BY <1>3, <1>4
<1> QED
  BY <1>5 DEF SumTo

LEMMA SumExists ==
    ASSUME NEW S, IsFiniteSet(S), NEW f, NEW n \in Nat
    PROVE  \E sum : SumTo(sum, f, S, n)
<1> DEFINE T == { m \in Nat : ~ \E sum : SumTo(sum, f, S, m) }
<1>1. ASSUME T # { } PROVE FALSE
  <2>0. T \in SUBSET Nat
    OBVIOUS
  <2> HIDE DEF T
  <2>1. PICK m \in T : \A k \in T : m <= k
    BY <1>1, <2>0, LeastOf
  <2> USE DEF T
  <2>2. CASE m = 0
    <3> DEFINE sum == [ s \in { s \in SUBSET S : Cardinality(s) <= 0 } |-> 0 ]
    <3>1. ASSUME NEW s \in SUBSET S, Cardinality(s) <= 0 PROVE s = { }
      BY <3>1, FS_Subset, FS_CardinalityType, FS_EmptySet
    <3>2. sum = [ s \in { s \in SUBSET S : Cardinality(s) <= 0 } |->
                    IF s = { } THEN 0 ELSE f[PickOf(s)] + sum[s \ { PickOf(s) }] ]
      BY <3>1
    <3> HIDE DEF sum
    <3>3. SumTo(sum, f, S, 0)
      BY <3>2 DEF SumTo
    <3> QED
      BY <2>2, <3>3
  <2>3. CASE m # 0
    <3>1. m - 1 \in Nat /\ m - 1 \notin T
      BY <2>1, <2>3
    <3>2. PICK old : SumTo(old, f, S, m - 1)
      BY <3>1
    <3>3. \E sum : SumTo(sum, f, S, (m - 1) + 1)
      BY <3>1, <3>2, SumMore
    <3> QED
      BY <2>1, <3>3
  <2> QED
    BY <2>2, <2>3
<1> QED
  BY <1>1

LEMMA SumIsNat ==
    ASSUME NEW S, IsFiniteSet(S), NEW f, \A x \in S : f[x] \in Nat
    PROVE  Windows!SumFunctionOnSet(f, S) \in Nat
<1> DEFINE c == Cardinality(S)
           Is(sum) == sum = [ s \in SUBSET S |-> IF s = { } THEN 0
                                ELSE f[PickOf(s)] + sum[s \ { PickOf(s) }] ]
           sum == CHOOSE g : Is(g)
<1>1. Windows!SumFunctionOnSet(f, S) = sum[S]
  BY DEF Windows!SumFunctionOnSet, Windows!FoldFunctionOnSet, Windows!MapThenFoldSet, PickOf
<1>2. c \in Nat
  BY FS_CardinalityType
<1>3. SUBSET S = { s \in SUBSET S : Cardinality(s) <= c }
  BY <1>2, FS_Subset, FS_CardinalityType
<1>4. PICK g : SumTo(g, f, S, c)
  BY <1>2, SumExists
<1>5. Is(g)
  BY <1>3, <1>4 DEF SumTo
<1>6. Is(sum)
  <2> HIDE DEF Is
  <2> QED
    BY <1>5
<1> HIDE DEF sum
<1>7. \A s \in SUBSET S : sum[s] = IF s = { } THEN 0 ELSE f[PickOf(s)] + sum[s \ { PickOf(s) }]
  BY <1>6
<1> HIDE DEF Is
<1> DEFINE T == { n \in Nat : \E s \in SUBSET S : Cardinality(s) = n /\ sum[s] \notin Nat }
<1>8. ASSUME T # { } PROVE FALSE
  <2>0. T \in SUBSET Nat
    OBVIOUS
  <2> HIDE DEF T
  <2>1. PICK n \in T : \A k \in T : n <= k
    BY <1>8, <2>0, LeastOf
  <2> USE DEF T
  <2>2. PICK s \in SUBSET S : Cardinality(s) = n /\ sum[s] \notin Nat
    BY <2>1
  <2>3. s # { }
    <3>1. { } \in SUBSET S /\ 0 \in Nat
      OBVIOUS
    <3>2. sum[{ }] = 0
      BY <1>7, <3>1
    <3> QED
      BY <2>2, <3>1, <3>2
  <2> DEFINE r == s \ { PickOf(s) }
  <2>4. PickOf(s) \in S /\ r \in SUBSET S /\ Cardinality(r) = n - 1 /\ Cardinality(r) \in Nat /\ n \in Nat
    BY <2>2, <2>3, PickIsOne
  <2>5. ASSUME Cardinality(r) \in T PROVE FALSE
    <3>1. n <= Cardinality(r)
      BY <2>1, <2>5
    <3> QED
      BY <2>4, <3>1
  <2>6. sum[r] \in Nat
    BY <2>4, <2>5
  <2>7. sum[s] = f[PickOf(s)] + sum[r]
    BY <1>7, <2>3
  <2> QED
    BY <2>2, <2>4, <2>6, <2>7
<1>9. S \in SUBSET S /\ (sum[S] \notin Nat => c \in T)
  BY <1>2
<1> QED
  BY <1>1, <1>8, <1>9

-------------------------------------------------------------------------------
(* The messages of a session *)

(* What the proof about the messages assumes.                                *)
WindowLimits ==
    /\ Budget \in Nat /\ Fixed \in Nat /\ Required \in Nat
    /\ ToolBatches \subseteq Seq({ "read", "output", "edit" }) /\ Recalls \subseteq Nat
    /\ MaxGroups \in Nat /\ MaxReloads \in Nat

ToolNames == { "read", "output", "edit", "answer" }
GroupRows ==
    { g \in [ id : Nat \ { 0 }, who : { "user", "text", "tools" }, open : BOOLEAN,
              results : Seq([ tool : ToolNames, version : Nat ]) ] : g.open => g.who = "tools" }
SummaryRows == [ cursor : Nat, covers : SUBSET Nat, same : BOOLEAN ]

IdsGrow(l) == \A i, j \in 1..Len(l) : i < j => l[i].id < l[j].id

(* A summary holds all groups up to its cursor, which is one of the first m; *)
(* all of them are closed, and results among them were read by the model.    *)
HoldsTo(s, l, m) ==
    \/ s.cursor = 0
    \/ \E c \in 1..m :
         /\ l[c].id = s.cursor
         /\ \A i \in 1..c : /\ l[i].id \in s.covers /\ ~l[i].open
                            /\ l[i].who = "tools" => \E j \in (i + 1)..m : l[j].who # "user"

(* The groups that no restart takes away.                                    *)
Lasting == IF behind THEN Len(contextLog) - 1 ELSE Len(contextLog)

WindowTypes ==
    /\ contextLog \in Seq(GroupRows) /\ Len(contextLog) <= MaxGroups /\ IdsGrow(contextLog)
    /\ crashes \in Nat /\ crashes <= MaxReloads
    /\ behind \in BOOLEAN /\ (behind => contextLog # << >>)
    /\ snapshot \in SummaryRows /\ checkpoint \in SummaryRows /\ files \subseteq SummaryRows
    /\ shown.tokens \in Nat

SummariesHold ==
    \A s \in files \cup { snapshot, checkpoint } : HoldsTo(s, contextLog, Lasting)

WindowInv == WindowTypes /\ SummariesHold /\ Windows!ContextIsWhole

LEMMA GroupsTyped ==
    ASSUME contextLog \in Seq(GroupRows)
    PROVE  /\ DOMAIN contextLog = 1..Len(contextLog) /\ Len(contextLog) \in Nat
           /\ \A i \in 1..Len(contextLog) :
                /\ contextLog[i].id \in Nat \ { 0 } /\ contextLog[i].open \in BOOLEAN
                /\ contextLog[i].who \in { "user", "text", "tools" }
                /\ contextLog[i].open => contextLog[i].who = "tools"
                /\ contextLog[i].results \in Seq([ tool : ToolNames, version : Nat ])
                /\ IsFiniteSet(DOMAIN contextLog[i].results)
                /\ \A k \in DOMAIN contextLog[i].results : contextLog[i].results[k].tool \in ToolNames
<1>1. DOMAIN contextLog = 1..Len(contextLog) /\ Len(contextLog) \in Nat
  BY LenProperties
<1>2. ASSUME NEW i \in 1..Len(contextLog)
      PROVE  /\ contextLog[i].id \in Nat \ { 0 } /\ contextLog[i].open \in BOOLEAN
             /\ contextLog[i].who \in { "user", "text", "tools" }
             /\ contextLog[i].open => contextLog[i].who = "tools"
             /\ contextLog[i].results \in Seq([ tool : ToolNames, version : Nat ])
  <2>1. contextLog[i] \in GroupRows
    BY <1>1
  <2> QED
    BY <2>1 DEF GroupRows
<1>3. ASSUME NEW rs \in Seq([ tool : ToolNames, version : Nat ])
      PROVE  IsFiniteSet(DOMAIN rs) /\ \A k \in DOMAIN rs : rs[k].tool \in ToolNames
  <2>1. DOMAIN rs = 1..Len(rs) /\ Len(rs) \in Int /\ 1 \in Int
    BY LenProperties
  <2>2. IsFiniteSet(1..Len(rs))
    BY <2>1, FS_Interval
  <2>3. ASSUME NEW k \in DOMAIN rs PROVE rs[k].tool \in ToolNames
    <3>1. rs[k] \in [ tool : ToolNames, version : Nat ]
      BY <2>1, ElementOfSeq
    <3> QED
      BY <3>1
  <2> QED
    BY <2>1, <2>2, <2>3
<1> QED
  BY <1>1, <1>2, <1>3

-------------------------------------------------------------------------------
(* Sizes *)

LEMMA CostIsNat ==
    ASSUME contextLog \in Seq(GroupRows), NEW i \in 1..Len(contextLog), NEW forms,
           DOMAIN forms = DOMAIN contextLog[i].results
    PROVE  Windows!ResultsCost(i, forms) \in Nat
<1> DEFINE cost == [ k \in DOMAIN forms |-> CASE forms[k] = "full" -> Windows!Size[contextLog[i].results[k].tool]
                                             [] forms[k] = "thinned" -> 1
                                             [] OTHER -> 0 ]
<1>1. Windows!ResultsCost(i, forms) = Windows!SumFunctionOnSet(cost, DOMAIN forms)
  BY DEF Windows!ResultsCost, Windows!SumFunction
<1>2. IsFiniteSet(DOMAIN forms)
  BY GroupsTyped
<1>3. \A t \in ToolNames : Windows!Size[t] \in Nat
  BY DEF Windows!Size, ToolNames
<1>4. ASSUME NEW k \in DOMAIN forms PROVE cost[k] \in Nat
  <2>1. Windows!Size[contextLog[i].results[k].tool] \in Nat
    BY <1>3, GroupsTyped
  <2> QED
    BY <2>1
<1> HIDE DEF cost
<1> QED
  BY <1>1, <1>2, <1>4, SumIsNat

IsView(view) ==
    /\ DOMAIN view \subseteq 1..Len(contextLog)
    /\ \A i \in DOMAIN view : DOMAIN view[i] = DOMAIN contextLog[i].results

LEMMA TokensAreNat ==
    ASSUME contextLog \in Seq(GroupRows), NEW view, IsView(view)
    PROVE  Windows!Tokens(view) \in Nat
<1> DEFINE cost == [ i \in DOMAIN view |-> IF Windows!IsOmitted(view[i]) THEN 0
                                           ELSE 1 + Windows!ResultsCost(i, view[i]) ]
<1>1. Windows!Tokens(view) = Windows!SumFunctionOnSet(cost, DOMAIN view)
  BY DEF Windows!Tokens, Windows!SumFunction
<1>2. IsFiniteSet(DOMAIN view)
  <2>1. Len(contextLog) \in Int /\ 1 \in Int
    BY GroupsTyped
  <2> QED
    BY <2>1, FS_Interval, FS_Subset DEF IsView
<1>3. ASSUME NEW i \in DOMAIN view PROVE cost[i] \in Nat
  <2>1. Windows!ResultsCost(i, view[i]) \in Nat
    BY CostIsNat DEF IsView
  <2> QED
    BY <2>1
<1> HIDE DEF cost
<1> QED
  BY <1>1, <1>2, <1>3, SumIsNat

(* The optional items that fit, one after the other.                         *)
ItemRows == [ size : Nat, memory : BOOLEAN ]
UsedRows == [ all : Nat, memory : Nat ]
UsedTo(used, items, available, m) ==
    used = [ n \in 0..m |-> IF n = 0 THEN [ all |-> 0, memory |-> 0 ]
                            ELSE Windows!Select(used[n - 1], items[n], available) ]

LEMMA SelectedMore ==
    ASSUME NEW items, NEW available, NEW m \in Nat, m # 0, NEW old,
           UsedTo(old, items, available, m - 1)
    PROVE  \E used : UsedTo(used, items, available, m)
<1> DEFINE Step(x, n) == IF n = 0 THEN [ all |-> 0, memory |-> 0 ]
                         ELSE Windows!Select(x[n - 1], items[n], available)
           used == [ n \in 0..m |-> IF n < m THEN old[n] ELSE Windows!Select(old[m - 1], items[m], available) ]
<1>1. \A n \in 0..(m - 1) : old[n] = Step(old, n)
  BY DEF UsedTo
<1>2. \A n \in 0..(m - 1) : used[n] = old[n]
  OBVIOUS
<1>3. used[m] = Windows!Select(old[m - 1], items[m], available)
  OBVIOUS
<1>4. used = [ n \in 0..m |-> used[n] ]
  OBVIOUS
<1> HIDE DEF used
<1>5. ASSUME NEW n \in 0..m PROVE used[n] = Step(used, n)
  <2>1. CASE n = m
    <3>1. used[m - 1] = old[m - 1]
      BY <1>2
    <3> QED
      BY <1>3, <2>1, <3>1
  <2>2. CASE n # m
    <3>1. n \in 0..(m - 1) /\ (n # 0 => n - 1 \in 0..(m - 1))
      BY <2>2
    <3>2. used[n] = Step(old, n) /\ (n # 0 => used[n - 1] = old[n - 1])
      BY <1>1, <1>2, <3>1
    <3> QED
      BY <3>2
  <2> QED
    BY <2>1, <2>2
<1>6. used = [ n \in 0..m |-> Step(used, n) ]
  BY <1>4, <1>5
<1> QED
  BY <1>6 DEF UsedTo

LEMMA SelectedExists ==
    ASSUME NEW items, NEW available, NEW n \in Nat
    PROVE  \E used : UsedTo(used, items, available, n)
<1> DEFINE T == { m \in Nat : ~ \E used : UsedTo(used, items, available, m) }
<1>1. ASSUME T # { } PROVE FALSE
  <2>0. T \in SUBSET Nat
    OBVIOUS
  <2> HIDE DEF T
  <2>1. PICK m \in T : \A k \in T : m <= k
    BY <1>1, <2>0, LeastOf
  <2> USE DEF T
  <2>2. CASE m = 0
    <3> DEFINE used == [ j \in 0..0 |-> [ all |-> 0, memory |-> 0 ] ]
    <3>1. used = [ j \in 0..0 |-> IF j = 0 THEN [ all |-> 0, memory |-> 0 ]
                                  ELSE Windows!Select(used[j - 1], items[j], available) ]
      OBVIOUS
    <3> HIDE DEF used
    <3>2. UsedTo(used, items, available, 0)
      BY <3>1 DEF UsedTo
    <3> QED
      BY <2>2, <3>2
  <2>3. CASE m # 0
    <3>1. m - 1 \in Nat /\ m - 1 \notin T
      BY <2>1, <2>3
    <3>2. PICK old : UsedTo(old, items, available, m - 1)
      BY <3>1
    <3> QED
      BY <2>1, <2>3, <3>2, SelectedMore
  <2> QED
    BY <2>2, <2>3
<1> QED
  BY <1>1

LEMMA SelectIsUsed ==
    ASSUME NEW used \in UsedRows, NEW item \in ItemRows, NEW available
    PROVE  Windows!Select(used, item, available) \in UsedRows
<1> DEFINE memory == used.memory + IF item.memory THEN item.size ELSE 0
           all == used.all + item.size
           next == [ all |-> all, memory |-> memory ]
<1>1. Windows!Select(used, item, available) = used \/ Windows!Select(used, item, available) = next
  BY DEF Windows!Select
<1>2. all \in Nat /\ memory \in Nat
  BY DEF UsedRows, ItemRows
<1> HIDE DEF all, memory
<1>3. next \in UsedRows
  BY <1>2 DEF UsedRows
<1> QED
  BY <1>1, <1>3

LEMMA SelectedIsNat ==
    ASSUME NEW items \in Seq(ItemRows), NEW available
    PROVE  Windows!Selected(items, available) \in Nat
<1> DEFINE m == Len(items)
           Is(g) == UsedTo(g, items, available, m)
           used == CHOOSE g : Is(g)
<1>1. m \in Nat /\ \A n \in 1..m : items[n] \in ItemRows
  BY LenProperties
<1>2. Windows!Selected(items, available) = used[m].all
  BY DEF Windows!Selected, UsedTo
<1>3. Is(used)
  <2>1. \E g : Is(g)
    BY <1>1, SelectedExists
  <2> HIDE DEF Is
  <2> QED
    BY <2>1
<1> HIDE DEF used
<1>4. \A n \in 0..m : used[n] = IF n = 0 THEN [ all |-> 0, memory |-> 0 ]
                                ELSE Windows!Select(used[n - 1], items[n], available)
  BY <1>3 DEF UsedTo
<1> HIDE DEF m, Is
<1> DEFINE T == { n \in Nat : n <= m /\ used[n] \notin UsedRows }
<1>5. ASSUME T # { } PROVE FALSE
  <2>0. T \in SUBSET Nat
    OBVIOUS
  <2> HIDE DEF T
  <2>1. PICK n \in T : \A k \in T : n <= k
    BY <1>5, <2>0, LeastOf
  <2> USE DEF T
  <2>2. n \in 0..m /\ used[n] \notin UsedRows
    BY <1>1, <2>1
  <2>3. [ all |-> 0, memory |-> 0 ] \in UsedRows
    BY DEF UsedRows
  <2>4. n # 0
    BY <1>4, <2>2, <2>3
  <2>5. n - 1 \in Nat /\ n - 1 \notin T /\ n \in 1..m
    BY <1>1, <2>1, <2>2, <2>4
  <2>6. used[n - 1] \in UsedRows
    BY <1>1, <2>5
  <2>7. used[n] = Windows!Select(used[n - 1], items[n], available)
    BY <1>4, <2>2, <2>4
  <2> QED
    BY <1>1, <2>2, <2>5, <2>6, <2>7, SelectIsUsed
<1>6. used[m] \in UsedRows
  BY <1>1, <1>5
<1> QED
  BY <1>2, <1>6 DEF UsedRows

LEMMA ItemsAreItems ==
    ASSUME NEW recalled \in Nat
    PROVE  Windows!Items(recalled) \in Seq(ItemRows)
<1> DEFINE one == [ size |-> 1, memory |-> FALSE ]
           more == [ size |-> 1, memory |-> TRUE ]
           memories == [ n \in 1..recalled |-> more ]
           read == IF \E i \in DOMAIN contextLog : contextLog[i].results # << >> THEN << one >> ELSE << >>
<1>1. Windows!Items(recalled) = << one >> \o read \o memories
  BY DEF Windows!Items
<1>2. one \in ItemRows /\ more \in ItemRows
  BY DEF ItemRows
<1> HIDE DEF one, more
<1>3. memories \in Seq(ItemRows)
  BY <1>2
<1>4. << one >> \in Seq(ItemRows) /\ read \in Seq(ItemRows)
  BY <1>2
<1> HIDE DEF memories, read
<1> QED
  BY <1>1, <1>3, <1>4

LEMMA SizeIsNat ==
    ASSUME WindowLimits, contextLog \in Seq(GroupRows), NEW view, IsView(view), NEW summary,
           NEW recalled \in Nat, NEW overflow \in BOOLEAN
    PROVE  Windows!Materialize(view, summary, recalled, overflow) \in Nat
<1> DEFINE base == Fixed + Windows!Tokens(view)
           available == IF base + 1 >= Budget THEN 0 ELSE Budget - base - 1
           attached == Required + IF summary = Windows!NoSummary THEN 0 ELSE 1
           selected == Windows!Selected(Windows!Items(recalled), available - Required)
<1>1. Budget \in Nat /\ base \in Nat /\ attached \in Nat /\ Required \in Nat
  BY TokensAreNat DEF WindowLimits
<1>2. selected \in Nat
  BY ItemsAreItems, SelectedIsNat
<1>3. Windows!Materialize(view, summary, recalled, overflow)
        \in { base + attached, Budget + 1, base + attached + selected }
  BY DEF Windows!Materialize
<1> HIDE DEF base, attached, selected
<1> QED
  BY <1>1, <1>2, <1>3

-------------------------------------------------------------------------------
(* What a summary holds *)

LEMMA HoldsLonger ==
    ASSUME NEW s, NEW l, NEW m \in Int, HoldsTo(s, l, m), NEW new, NEW n \in Int, m <= n,
           \A i \in 1..m : new[i].id = l[i].id /\ new[i].who = l[i].who /\ (new[i].open => l[i].open)
    PROVE  HoldsTo(s, new, n)
<1>1. CASE s.cursor = 0
  BY <1>1 DEF HoldsTo
<1>2. CASE s.cursor # 0
  <2>1. PICK c \in 1..m :
          /\ l[c].id = s.cursor
          /\ \A i \in 1..c : /\ l[i].id \in s.covers /\ ~l[i].open
                             /\ l[i].who = "tools" => \E j \in (i + 1)..m : l[j].who # "user"
    BY <1>2 DEF HoldsTo
  <2>2. c \in 1..n /\ new[c].id = s.cursor
    BY <2>1
  <2>3. ASSUME NEW i \in 1..c
        PROVE  /\ new[i].id \in s.covers /\ ~new[i].open
               /\ new[i].who = "tools" => \E j \in (i + 1)..n : new[j].who # "user"
    <3>1. i \in 1..m /\ i \in Nat
      BY <2>1
    <3>2. new[i].id \in s.covers /\ ~new[i].open /\ new[i].who = l[i].who
      BY <2>1, <3>1
    <3>3. ASSUME new[i].who = "tools" PROVE \E j \in (i + 1)..n : new[j].who # "user"
      <4>1. PICK j \in (i + 1)..m : l[j].who # "user"
        BY <2>1, <3>2, <3>3
      <4>2. j \in 1..m /\ j \in (i + 1)..n
        BY <3>1
      <4> QED
        BY <4>1, <4>2
    <3> QED
      BY <3>2, <3>3
  <2> QED
    BY <2>2, <2>3 DEF HoldsTo
<1> QED
  BY <1>1, <1>2

(* The groups behind the cursor of a summary, and what it says of the rest.  *)
LEMMA BehindCursor ==
    ASSUME contextLog \in Seq(GroupRows), IdsGrow(contextLog), NEW s \in SummaryRows,
           HoldsTo(s, contextLog, Len(contextLog))
    PROVE  \E c \in 0..Len(contextLog) :
             /\ Windows!After(s.cursor) = (c + 1)..Len(contextLog)
             /\ \A i \in 1..c :
                  /\ contextLog[i].id \in s.covers /\ contextLog[i].id <= s.cursor /\ ~contextLog[i].open
                  /\ contextLog[i].who = "tools" =>
                       \E j \in (i + 1)..Len(contextLog) : contextLog[j].who # "user"
<1> DEFINE m == Len(contextLog)
<1>1. /\ DOMAIN contextLog = 1..m /\ m \in Nat
      /\ \A i \in 1..m : contextLog[i].id \in Nat \ { 0 }
  BY GroupsTyped
<1>2. s.cursor \in Nat
  BY DEF SummaryRows
<1>3. CASE s.cursor = 0
  <2>1. s.cursor \notin Windows!Ids
    BY <1>1, <1>3 DEF Windows!Ids
  <2>2. Windows!After(s.cursor) = (0 + 1)..m
    BY <1>1, <2>1 DEF Windows!After
  <2> QED
    BY <1>1, <2>2
<1>4. CASE s.cursor # 0
  <2>1. PICK c \in 1..m :
          /\ contextLog[c].id = s.cursor
          /\ \A i \in 1..c :
               /\ contextLog[i].id \in s.covers /\ ~contextLog[i].open
               /\ contextLog[i].who = "tools" => \E j \in (i + 1)..m : contextLog[j].who # "user"
    BY <1>4 DEF HoldsTo
  <2>2. s.cursor \in Windows!Ids
    BY <1>1, <2>1 DEF Windows!Ids
  <2>3. \A i \in 1..m : contextLog[i].id > s.cursor <=> i > c
    BY <1>1, <2>1 DEF IdsGrow
  <2>4. Windows!After(s.cursor) = { i \in 1..m : contextLog[i].id > s.cursor }
    BY <1>1, <2>2 DEF Windows!After
  <2>5. { i \in 1..m : contextLog[i].id > s.cursor } = (c + 1)..m
    BY <1>1, <2>1, <2>3
  <2>6. \A i \in 1..c : i \in 1..m /\ ~(i > c)
    BY <1>1, <2>1
  <2>7. \A i \in 1..c : contextLog[i].id <= s.cursor
    BY <1>1, <1>2, <2>3, <2>6
  <2> QED
    BY <1>1, <2>1, <2>4, <2>5, <2>7
<1> QED
  BY <1>3, <1>4

LEMMA GreatestOf ==
    ASSUME NEW n \in Nat, NEW S \in SUBSET (1..n), S # { }
    PROVE  \E x \in S : \A y \in S : y <= x
<1> DEFINE T == { n - x : x \in S }
<1>1. T \in SUBSET Nat /\ T # { }
  <2>1. \A x \in S : n - x \in Nat
    OBVIOUS
  <2> QED
    BY <2>1
<1> HIDE DEF T
<1>2. PICK t \in T : \A u \in T : t <= u
  BY <1>1, LeastOf
<1> USE DEF T
<1>3. PICK x \in S : t = n - x
  OBVIOUS
<1>4. \A y \in S : n - x <= n - y
  BY <1>2, <1>3
<1> QED
  BY <1>4

LEMMA PrefixGoesDown ==
    ASSUME contextLog \in Seq(GroupRows), NEW groups \in SUBSET (1..Len(contextLog)), groups # { },
           NEW prefix, prefix = Windows!CompactPrefix(groups)
    PROVE  /\ prefix \in SUBSET groups
           /\ \A i \in prefix, j \in groups : j <= i => j \in prefix
           /\ \A i \in prefix : i \notin Windows!Unconsumed(groups)
<1> DEFINE cost == [ i \in groups |-> 1 + Windows!ResultsCost(i, [ k \in DOMAIN contextLog[i].results |-> "full" ]) ]
           newer(i) == { j \in groups : j >= i }
           Fits(i) == newer(i) = { i } \/ Windows!SumFunctionOnSet(cost, newer(i)) <= KeepRecent
           kept == Windows!Kept(groups)
           rest == groups \ kept
           least == Windows!Min(groups)
           taken == IF rest = { } THEN { least } ELSE rest
<1>1. kept = { i \in groups : \A j \in groups : j >= i => Fits(j) }
  BY DEF Windows!Kept
<1>2. groups \subseteq Nat
  BY GroupsTyped
<1> HIDE DEF Fits, kept
<1>3. \A i \in rest, j \in groups : j <= i => j \in rest
  BY <1>1, <1>2
<1>4. least \in groups /\ \A j \in groups : least <= j
  <2>1. \E x \in groups : \A y \in groups : x <= y
    BY <1>2, LeastOf
  <2> QED
    BY <2>1 DEF Windows!Min
<1>5. prefix = { i \in taken : \A j \in Windows!Unconsumed(groups) : i < j }
  BY DEF Windows!CompactPrefix, kept
<1> HIDE DEF least, rest
<1>6. taken \subseteq groups
  BY <1>4 DEF rest
<1>7. \A i \in taken, j \in groups : j <= i => j \in taken
  BY <1>2, <1>3, <1>4
<1> HIDE DEF taken
<1> DEFINE new == Windows!Unconsumed(groups)
<1>8. new \subseteq groups
  BY DEF Windows!Unconsumed
<1>9. prefix = { i \in taken : \A j \in new : i < j }
  BY <1>5
<1> HIDE DEF new
<1>10. prefix \in SUBSET groups
  BY <1>6, <1>9
<1>11. ASSUME NEW i \in prefix, NEW j \in groups, j <= i PROVE j \in prefix
  <2>1. j \in taken /\ i \in groups /\ \A k \in new : i < k
    BY <1>7, <1>9, <1>10, <1>11
  <2>2. \A k \in new : j < k
    BY <1>2, <1>8, <1>11, <2>1
  <2> QED
    BY <1>9, <2>1, <2>2
<1>12. ASSUME NEW i \in prefix PROVE i \notin new
  BY <1>2, <1>9, <1>10
<1> QED
  BY <1>10, <1>11, <1>12 DEF new

LEMMA CompactedHolds ==
    ASSUME contextLog \in Seq(GroupRows), IdsGrow(contextLog), NEW s \in SummaryRows,
           HoldsTo(s, contextLog, Len(contextLog)),
           \A i \in 1..Len(contextLog) : ~contextLog[i].open
    PROVE  /\ Windows!Compacted(s) \in SummaryRows
           /\ HoldsTo(Windows!Compacted(s), contextLog, Len(contextLog))
<1> DEFINE m == Len(contextLog)
           groups == Windows!After(s.cursor)
           prefix == Windows!CompactPrefix(groups)
           x == Windows!Max(prefix)
           covers == s.covers \cup { contextLog[i].id : i \in prefix }
           new == [ cursor |-> contextLog[x].id, same |-> TRUE, covers |-> covers ]
<1>1. /\ DOMAIN contextLog = 1..m /\ m \in Nat
      /\ \A i \in 1..m : contextLog[i].id \in Nat \ { 0 }
  BY GroupsTyped
<1>2. Windows!Compacted(s) = IF Windows!Cardinality(groups) < 4 \/ prefix = { } THEN s ELSE new
  BY DEF Windows!Compacted, Windows!Summary
<1>3. CASE Windows!Cardinality(groups) < 4 \/ prefix = { }
  BY <1>2, <1>3
<1>4. CASE ~(Windows!Cardinality(groups) < 4 \/ prefix = { })
  <2>1. groups # { }
    <3>1. Windows!Cardinality(groups) = Cardinality(groups)
      BY DEF Windows!Cardinality, Cardinality
    <3>2. ASSUME groups = { } PROVE FALSE
      <4>1. Windows!Cardinality(groups) = 0
        BY <3>1, <3>2, FS_EmptySet
      <4> QED
        BY <1>4, <4>1
    <3> QED
      BY <3>2
  <2>2. PICK c \in 0..m :
          /\ groups = (c + 1)..m
          /\ \A i \in 1..c :
               /\ contextLog[i].id \in s.covers /\ contextLog[i].id <= s.cursor /\ ~contextLog[i].open
               /\ contextLog[i].who = "tools" => \E j \in (i + 1)..m : contextLog[j].who # "user"
    BY BehindCursor
  <2>3. groups \in SUBSET (1..m)
    BY <1>1, <2>2
  <2> HIDE DEF groups, prefix
  <2>4. /\ prefix \in SUBSET groups /\ prefix # { }
        /\ \A i \in prefix, j \in groups : j <= i => j \in prefix
        /\ \A i \in prefix : i \notin Windows!Unconsumed(groups)
    BY <1>4, <2>1, <2>3, PrefixGoesDown DEF prefix
  <2>5. x \in prefix /\ \A y \in prefix : y <= x
    <3>1. prefix \in SUBSET (1..m)
      BY <2>3, <2>4
    <3>2. \E g \in prefix : \A y \in prefix : y <= g
      BY <1>1, <2>4, <3>1, GreatestOf
    <3>3. \E g \in prefix : \A y \in prefix : g >= y
      BY <3>1, <3>2
    <3>4. x \in prefix /\ \A y \in prefix : x >= y
      BY <3>3 DEF Windows!Max
    <3> QED
      BY <3>1, <3>4
  <2>6. x \in 1..m /\ x \in groups
    BY <2>3, <2>4, <2>5
  <2>7. covers \in SUBSET Nat /\ contextLog[x].id \in Nat
    BY <1>1, <2>3, <2>4, <2>6 DEF SummaryRows
  <2>8. ASSUME NEW i \in 1..x
        PROVE  /\ contextLog[i].id \in covers /\ ~contextLog[i].open
               /\ contextLog[i].who = "tools" => \E j \in (i + 1)..m : contextLog[j].who # "user"
    <3>1. CASE i <= c
      BY <2>2, <2>6, <3>1
    <3>2. CASE ~(i <= c)
      <4>1. i \in groups /\ i \in prefix /\ i \in 1..m
        BY <2>2, <2>4, <2>5, <2>6, <3>2
      <4>2. i \notin Windows!Unconsumed(groups) /\ ~contextLog[i].open
        BY <2>4, <4>1
      <4>3. ASSUME contextLog[i].who = "tools"
            PROVE  \E j \in (i + 1)..m : contextLog[j].who # "user"
        <5>1. \E j \in groups : j > i /\ contextLog[j].who # "user"
          BY <4>1, <4>2, <4>3 DEF Windows!Unconsumed, Windows!Closed
        <5> QED
          BY <2>2, <4>1, <5>1
      <4> QED
        BY <4>1, <4>2, <4>3
    <3> QED
      BY <3>1, <3>2
  <2> HIDE DEF x, covers
  <2>9. new \in SummaryRows /\ new.cursor = contextLog[x].id /\ new.covers = covers
    BY <2>7 DEF SummaryRows
  <2> HIDE DEF new
  <2>10. HoldsTo(new, contextLog, m)
    BY <2>6, <2>8, <2>9 DEF HoldsTo
  <2> QED
    BY <1>2, <1>4, <2>9, <2>10
<1> QED
  BY <1>3, <1>4

-------------------------------------------------------------------------------
(* What the model is shown *)

(* A view of the groups shows every result, unless a newer one is the same,  *)
(* or it has been thinned; what no answer has followed yet it shows in full. *)
ShownOf(view, groups) ==
    /\ DOMAIN view = groups
    /\ \A i \in groups :
         /\ DOMAIN view[i] = DOMAIN contextLog[i].results
         /\ \A k \in DOMAIN contextLog[i].results :
              /\ \/ view[i][k] = "full"
                 \/ Windows!Repeated(i, k, groups)
                 \/ view[i][k] = "thinned" /\ k \in 1..2
              /\ i \in Windows!Unconsumed(groups) => view[i][k] = "full"

LEMMA ProjectShows ==
    ASSUME NEW cursor
    PROVE  ShownOf(Windows!Project(cursor), Windows!After(cursor))
<1> DEFINE groups == Windows!After(cursor)
           Omitted(i) == Windows!Closed(i) /\ \A k \in DOMAIN contextLog[i].results : Windows!Repeated(i, k, groups)
           view == [ i \in groups |-> [ k \in DOMAIN contextLog[i].results |->
                       IF Omitted(i) THEN "omitted"
                       ELSE IF Windows!Repeated(i, k, groups) THEN "marker" ELSE "full" ] ]
<1>1. Windows!Project(cursor) = view
  BY DEF Windows!Project
<1>2. ASSUME NEW i \in groups, NEW k \in DOMAIN contextLog[i].results
      PROVE  /\ view[i][k] = "full" \/ Windows!Repeated(i, k, groups)
             /\ i \in Windows!Unconsumed(groups) => ~Windows!Repeated(i, k, groups)
  BY DEF Windows!Repeated
<1>3. DOMAIN view = groups /\ \A i \in groups : DOMAIN view[i] = DOMAIN contextLog[i].results
  OBVIOUS
<1> HIDE DEF view, groups
<1>4. ShownOf(view, groups)
  BY <1>2, <1>3 DEF ShownOf
<1> QED
  BY <1>1, <1>4 DEF groups

LEMMA ThinShows ==
    ASSUME NEW groups, NEW view, ShownOf(view, groups), NEW target
    PROVE  ShownOf(Windows!Thin(view, target), groups)
<1> DEFINE all == Windows!Thinnable(view)
           rank == [ p \in all |-> Windows!Cardinality({ q \in all :
                       q[1] < p[1] \/ (q[1] = p[1] /\ q[2] <= p[2]) }) ]
           Shrunk(n) == [ i \in DOMAIN view |-> [ k \in DOMAIN view[i] |->
                            IF << i, k >> \in all /\ rank[<< i, k >>] <= n THEN "thinned" ELSE view[i][k] ] ]
           enough == { n \in 0..Windows!Cardinality(all) : Windows!Tokens(Shrunk(n)) <= target }
           count == IF enough = { } THEN Windows!Cardinality(all) ELSE Windows!Min(enough)
           new == Shrunk(count)
<1>1. Windows!Thin(view, target) = new
  BY DEF Windows!Thin
<1> HIDE DEF count
<1>2. ASSUME NEW i, NEW k, << i, k >> \in all
      PROVE  k \in 1..2 /\ i \notin Windows!Unconsumed(groups)
  BY <1>2 DEF Windows!Thinnable, ShownOf
<1> HIDE DEF all, rank
<1>3. DOMAIN view = groups /\ \A i \in groups : DOMAIN view[i] = DOMAIN contextLog[i].results
  BY DEF ShownOf
<1>4. DOMAIN new = groups /\ \A i \in groups : DOMAIN new[i] = DOMAIN contextLog[i].results
  BY <1>3
<1>5. ASSUME NEW i \in groups, NEW k \in DOMAIN contextLog[i].results
      PROVE  new[i][k] = view[i][k] \/ (new[i][k] = "thinned" /\ << i, k >> \in all)
  BY <1>3
<1> HIDE DEF new
<1>6. ShownOf(new, groups)
  BY <1>2, <1>4, <1>5 DEF ShownOf
<1> QED
  BY <1>1, <1>6

(* A result is shown, or its text is in an artifact file of A or in a newer  *)
(* result.                                                                   *)
Again(view, A, i, k) ==
    \E j \in DOMAIN view : \E l \in DOMAIN view[j] :
        /\ j > i /\ contextLog[j].results[l] = contextLog[i].results[k]
        /\ view[j][l] = "full" \/ << contextLog[j].id, l >> \in A
Reached(view, A, i, k) ==
    \/ view[i][k] = "full"
    \/ view[i][k] = "thinned" /\ << contextLog[i].id, k >> \in A
    \/ Again(view, A, i, k)

LEMMA ViewReaches ==
    ASSUME contextLog \in Seq(GroupRows), NEW groups \in SUBSET (1..Len(contextLog)),
           NEW view, ShownOf(view, groups), NEW A,
           \A p \in Windows!Archived(view) : << contextLog[p[1]].id, p[2] >> \in A,
           NEW i \in groups, NEW k \in DOMAIN contextLog[i].results
    PROVE  Reached(view, A, i, k)
<1>1. ASSUME NEW j \in groups, NEW l \in DOMAIN contextLog[j].results, ~Windows!Repeated(j, l, groups),
             view[j][l] # "full"
      PROVE  view[j][l] = "thinned" /\ << contextLog[j].id, l >> \in A
  <2>1. view[j][l] = "thinned" /\ l \in 1..2 /\ l \in DOMAIN view[j] /\ DOMAIN view = groups
    BY <1>1 DEF ShownOf
  <2> DEFINE p == << j, l >>
  <2>2. p \in (DOMAIN view) \X (1..2) /\ p[1] = j /\ p[2] = l
    BY <2>1
  <2> HIDE DEF p
  <2>3. p \in Windows!Archived(view)
    BY <1>1, <2>1, <2>2 DEF Windows!Archived
  <2> QED
    BY <2>1, <2>2, <2>3
<1>2. CASE ~Windows!Repeated(i, k, groups)
  BY <1>1, <1>2 DEF Reached
<1>3. CASE Windows!Repeated(i, k, groups)
  <2> DEFINE J == { j \in groups : j > i /\ Windows!Closed(j)
                                 /\ \E l \in DOMAIN contextLog[j].results :
                                      contextLog[j].results[l] = contextLog[i].results[k] }
  <2>1. J # { }
    BY <1>3 DEF Windows!Repeated, Windows!Range
  <2>2. J \in SUBSET (1..Len(contextLog)) /\ Len(contextLog) \in Nat
    BY GroupsTyped
  <2> HIDE DEF J
  <2>3. PICK j \in J : \A x \in J : x <= j
    BY <2>1, <2>2, GreatestOf
  <2> USE DEF J
  <2>4. PICK l \in DOMAIN contextLog[j].results : contextLog[j].results[l] = contextLog[i].results[k]
    OBVIOUS
  <2>5. j \in groups /\ j > i /\ j \in Nat
    BY <2>2
  <2>6. ASSUME Windows!Repeated(j, l, groups) PROVE FALSE
    <3>1. PICK x \in groups : x > j /\ Windows!Closed(x) /\ contextLog[j].results[l] \in Windows!Range(contextLog[x].results)
      BY <2>6 DEF Windows!Repeated
    <3>2. \E n \in DOMAIN contextLog[x].results : contextLog[x].results[n] = contextLog[i].results[k]
      BY <2>4, <3>1 DEF Windows!Range
    <3>3. x > i /\ x \in Nat
      BY <2>2, <2>5, <3>1
    <3>4. x \in J
      BY <3>1, <3>2, <3>3
    <3> QED
      BY <2>3, <2>5, <3>1, <3>3, <3>4
  <2>7. l \in DOMAIN view[j]
    BY <2>5 DEF ShownOf
  <2>8. view[j][l] = "full" \/ << contextLog[j].id, l >> \in A
    BY <1>1, <2>5, <2>6
  <2> QED
    BY <2>4, <2>5, <2>7, <2>8 DEF Reached, Again, ShownOf
<1> QED
  BY <1>2, <1>3

LEMMA ShownIsWhole ==
    ASSUME contextLog \in Seq(GroupRows), IdsGrow(contextLog),
           \A i \in 1..Len(contextLog) : ~contextLog[i].open,
           NEW s \in SummaryRows, HoldsTo(s, contextLog, Len(contextLog)),
           NEW view, ShownOf(view, Windows!After(s.cursor)), NEW tokens, tokens <= Budget,
           contextLog' = contextLog, snapshot' = s,
           shown' = [ cursor |-> s.cursor, view |-> view, tokens |-> tokens ],
           archived' = archived \cup { << contextLog[p[1]].id, p[2] >> : p \in Windows!Archived(view) }
    PROVE  Windows!ContextIsWhole'
<1> DEFINE m == Len(contextLog)
           groups == Windows!After(s.cursor)
           new == Windows!Unconsumed(DOMAIN contextLog)
<1>1. DOMAIN contextLog = 1..m /\ m \in Nat
  BY GroupsTyped
<1>2. PICK c \in 0..m :
        /\ groups = (c + 1)..m
        /\ \A i \in 1..c :
             /\ contextLog[i].id \in s.covers /\ contextLog[i].id <= s.cursor /\ ~contextLog[i].open
             /\ contextLog[i].who = "tools" => \E j \in (i + 1)..m : contextLog[j].who # "user"
  BY BehindCursor
<1>3. groups \in SUBSET (1..m)
  BY <1>1, <1>2
<1>4. \A i \in (1..m) \ groups : contextLog[i].id \in s.covers /\ contextLog[i].id <= s.cursor
  BY <1>1, <1>2
<1>5. ShownOf(view, groups)
  OBVIOUS
<1>6. ASSUME NEW i \in new PROVE i \in groups /\ Windows!Range(view[i]) \subseteq { "full" }
  <2>1. i \in 1..m /\ Windows!Closed(i) /\ \A j \in 1..m : j > i => contextLog[j].who = "user"
    BY <1>1 DEF Windows!Unconsumed
  <2>2. contextLog[i].who = "tools"
    BY <2>1 DEF Windows!Closed
  <2>3. i \in groups
    <3>1. ASSUME i \in 1..c PROVE FALSE
      <4>1. PICK j \in (i + 1)..m : contextLog[j].who # "user"
        BY <1>2, <2>2, <3>1
      <4>2. j \in 1..m /\ j > i
        BY <2>1, <4>1
      <4> QED
        BY <2>1, <4>1, <4>2
    <3> QED
      BY <1>1, <1>2, <2>1, <3>1
  <2>4. i \in Windows!Unconsumed(groups)
    BY <1>3, <2>1, <2>3 DEF Windows!Unconsumed
  <2>5. \A k \in DOMAIN view[i] : view[i][k] = "full"
    BY <1>5, <2>3, <2>4 DEF ShownOf
  <2> QED
    BY <2>3, <2>5 DEF Windows!Range
<1> DEFINE A == archived'
<1>7. \A p \in Windows!Archived(view) : << contextLog[p[1]].id, p[2] >> \in A
  OBVIOUS
<1> HIDE DEF groups, A
<1>8. ASSUME NEW i \in groups, NEW k \in DOMAIN contextLog[i].results
      PROVE  Reached(view, A, i, k)
  BY <1>3, <1>5, <1>7, ViewReaches
<1>9. DOMAIN view = groups
  BY <1>5 DEF ShownOf
<1>10. /\ shown'.view = view /\ shown'.cursor = s.cursor /\ shown'.tokens = tokens
       /\ contextLog' = contextLog /\ snapshot' = s
  OBVIOUS
<1>11. ASSUME NEW i, NEW k PROVE Windows!Elsewhere(i, k)' <=> Again(view, A, i, k)
  BY <1>10 DEF Windows!Elsewhere, Again, A
<1>12. Windows!Unconsumed(DOMAIN contextLog)' = new
  BY DEF Windows!Unconsumed, Windows!Closed
<1> HIDE DEF new
<1>13. ASSUME NEW i \in DOMAIN contextLog'
       PROVE  /\ ~contextLog'[i].open
              /\ \/ contextLog'[i].id \in snapshot'.covers /\ snapshot'.cursor = shown'.cursor
                      /\ contextLog'[i].id <= shown'.cursor
                 \/ /\ i \in DOMAIN shown'.view
                    /\ \A k \in DOMAIN contextLog'[i].results :
                         CASE shown'.view[i][k] = "full" -> TRUE
                           [] OTHER -> \/ /\ shown'.view[i][k] = "thinned"
                                          /\ << contextLog'[i].id, k >> \in archived'
                                       \/ Windows!Elsewhere(i, k)'
  <2>1. i \in 1..m /\ ~contextLog[i].open
    BY <1>1, <1>10
  <2>2. CASE i \notin groups
    BY <1>4, <1>10, <2>1, <2>2
  <2>3. CASE i \in groups
    <3>1. \A k \in DOMAIN contextLog[i].results :
            \/ shown'.view[i][k] = "full"
            \/ shown'.view[i][k] = "thinned" /\ << contextLog'[i].id, k >> \in archived'
            \/ Windows!Elsewhere(i, k)'
      BY <1>8, <1>10, <1>11, <2>3 DEF Reached, A
    <3> QED
      BY <1>9, <1>10, <2>1, <2>3, <3>1
  <2> QED
    BY <2>2, <2>3
<1>14. \A i \in Windows!Unconsumed(DOMAIN contextLog)' :
         i \in DOMAIN shown'.view /\ Windows!Range(shown'.view[i]) \subseteq { "full" }
  BY <1>6, <1>9, <1>10, <1>12
<1>15. shown'.tokens <= Budget
  BY <1>10
<1> QED
  BY <1>13, <1>14, <1>15 DEF Windows!ContextIsWhole

LEMMA LastingIsLength ==
    ASSUME WindowTypes
    PROVE  Lasting \in Int /\ Lasting <= Len(contextLog) /\ Len(contextLog) \in Nat
BY GroupsTyped DEF WindowTypes, Lasting

LEMMA HoldsNow ==
    ASSUME WindowTypes, NEW s, HoldsTo(s, contextLog, Lasting)
    PROVE  HoldsTo(s, contextLog, Len(contextLog))
BY LastingIsLength, HoldsLonger

LEMMA ValidatedHolds ==
    ASSUME WindowTypes, SummariesHold
    PROVE  Windows!Validated \in SummaryRows /\ HoldsTo(Windows!Validated, contextLog, Len(contextLog))
<1>1. Windows!NoSummary \in SummaryRows /\ HoldsTo(Windows!NoSummary, contextLog, Len(contextLog))
  BY DEF Windows!NoSummary, SummaryRows, HoldsTo
<1>2. snapshot \in SummaryRows /\ HoldsTo(snapshot, contextLog, Len(contextLog))
  BY HoldsNow DEF WindowTypes, SummariesHold
<1> QED
  BY <1>1, <1>2 DEF Windows!Validated

LEMMA SummaryHolds ==
    ASSUME WindowTypes, NEW s \in SummaryRows, HoldsTo(s, contextLog, Len(contextLog)),
           \A i \in 1..Len(contextLog) : ~contextLog[i].open, NEW outcome
    PROVE  /\ Windows!AfterCompaction(s, outcome) \in SummaryRows
           /\ HoldsTo(Windows!AfterCompaction(s, outcome), contextLog, Len(contextLog))
<1>1. Windows!Compacted(s) \in SummaryRows /\ HoldsTo(Windows!Compacted(s), contextLog, Len(contextLog))
  BY CompactedHolds DEF WindowTypes
<1> QED
  BY <1>1 DEF Windows!AfterCompaction

LEMMA ViewIsView ==
    ASSUME WindowTypes, NEW cursor, NEW view, ShownOf(view, Windows!After(cursor))
    PROVE  IsView(view)
<1>1. Windows!After(cursor) \subseteq 1..Len(contextLog)
  BY GroupsTyped DEF WindowTypes, Windows!After
<1> QED
  BY <1>1 DEF ShownOf, IsView

(* One prepare: the summary that it goes on with, and what is shown.         *)
PreparedWith(s, view, tokens) ==
    /\ snapshot' = s /\ files' \subseteq files \cup { s }
    /\ \/ shown' = Windows!Nothing
       \/ /\ tokens <= Budget
          /\ shown' = [ cursor |-> s.cursor, view |-> view, tokens |-> tokens ]
          /\ archived' = archived \cup { << contextLog[p[1]].id, p[2] >> : p \in Windows!Archived(view) }

LEMMA ShowIsPrepared ==
    ASSUME NEW s, NEW view, NEW tokens \in Nat, Budget \in Nat, Windows!Show(s, view, tokens),
           snapshot' = s, files' \subseteq files \cup { s }
    PROVE  PreparedWith(s, view, tokens)
<1>1. CASE tokens > Budget
  BY <1>1 DEF Windows!Show, Windows!Refuse, PreparedWith
<1>2. CASE ~(tokens > Budget)
  <2>1. tokens <= Budget
    BY <1>2
  <2>2. /\ shown' = [ cursor |-> s.cursor, view |-> view, tokens |-> tokens ]
        /\ archived' = archived \cup { << contextLog[p[1]].id, p[2] >> : p \in Windows!Archived(view) }
    BY <1>2 DEF Windows!Show
  <2> QED
    BY <2>1, <2>2 DEF PreparedWith
<1> QED
  BY <1>1, <1>2

LEMMA PrepareShows ==
    ASSUME WindowLimits, WindowTypes, SummariesHold, NEW outcome, NEW recalled \in Recalls,
           Windows!Prepare(outcome, recalled), \A i \in 1..Len(contextLog) : ~contextLog[i].open
    PROVE  \E s \in SummaryRows, tokens \in Nat : \E view :
             /\ HoldsTo(s, contextLog, Len(contextLog))
             /\ ShownOf(view, Windows!After(s.cursor)) /\ PreparedWith(s, view, tokens)
<1> DEFINE v == Windows!Validated
           before == Windows!Project(v.cursor)
           size == Windows!Materialize(before, v, recalled, TRUE)
           thin == Windows!Thin(before, Windows!Target(before, size))
           thinSize == IF thin = before THEN size ELSE Windows!Materialize(thin, v, recalled, TRUE)
           summary == Windows!AfterCompaction(v, outcome)
           after == Windows!Project(summary.cursor)
           smaller == Windows!Materialize(after, summary, recalled, FALSE)
           least == Windows!Thin(after, Windows!Target(after, smaller))
           leastSize == IF least = after THEN smaller ELSE Windows!Materialize(least, summary, recalled, FALSE)
<1>1. recalled \in Nat /\ Budget \in Nat /\ contextLog \in Seq(GroupRows) /\ DOMAIN contextLog = 1..Len(contextLog)
  BY GroupsTyped DEF WindowLimits, WindowTypes
<1>2. \/ snapshot' = v /\ files' = files /\ Windows!Show(v, before, size)
      \/ snapshot' = v /\ files' = files /\ Windows!Show(v, thin, thinSize)
      \/ /\ snapshot' = summary /\ files' = files \cup ({ summary } \ { Windows!NoSummary })
         /\ Windows!Refuse \/ Windows!Show(summary, after, smaller) \/ Windows!Show(summary, least, leastSize)
  BY <1>1 DEF Windows!Prepare
<1>3. v \in SummaryRows /\ HoldsTo(v, contextLog, Len(contextLog))
  BY ValidatedHolds
<1> HIDE DEF v
<1>4. summary \in SummaryRows /\ HoldsTo(summary, contextLog, Len(contextLog))
  BY <1>3, SummaryHolds
<1> HIDE DEF summary
<1>5. ShownOf(before, Windows!After(v.cursor)) /\ ShownOf(after, Windows!After(summary.cursor))
  BY ProjectShows
<1> HIDE DEF before, after
<1>6. ShownOf(thin, Windows!After(v.cursor)) /\ ShownOf(least, Windows!After(summary.cursor))
  BY <1>5, ThinShows
<1> HIDE DEF thin, least
<1>7. IsView(before) /\ IsView(after) /\ IsView(thin) /\ IsView(least)
  BY <1>5, <1>6, ViewIsView
<1>8. size \in Nat /\ thinSize \in Nat /\ smaller \in Nat /\ leastSize \in Nat
  BY <1>1, <1>7, SizeIsNat
<1> HIDE DEF size, thinSize, smaller, leastSize
<1>9. CASE snapshot' = v /\ files' = files /\ Windows!Show(v, before, size)
  BY <1>1, <1>3, <1>5, <1>8, <1>9, ShowIsPrepared
<1>10. CASE snapshot' = v /\ files' = files /\ Windows!Show(v, thin, thinSize)
  BY <1>1, <1>3, <1>6, <1>8, <1>10, ShowIsPrepared
<1>11. CASE /\ snapshot' = summary /\ files' = files \cup ({ summary } \ { Windows!NoSummary })
            /\ Windows!Refuse \/ Windows!Show(summary, after, smaller) \/ Windows!Show(summary, least, leastSize)
  <2>1. files' \subseteq files \cup { summary }
    BY <1>11
  <2>2. CASE Windows!Refuse
    <3>1. PreparedWith(summary, after, smaller)
      BY <1>11, <2>1, <2>2 DEF PreparedWith, Windows!Refuse
    <3> QED
      BY <1>4, <1>5, <1>8, <3>1
  <2>3. CASE Windows!Show(summary, after, smaller)
    BY <1>1, <1>4, <1>5, <1>8, <1>11, <2>1, <2>3, ShowIsPrepared
  <2>4. CASE Windows!Show(summary, least, leastSize)
    BY <1>1, <1>4, <1>6, <1>8, <1>11, <2>1, <2>4, ShowIsPrepared
  <2> QED
    BY <1>11, <2>2, <2>3, <2>4
<1> QED
  BY <1>2, <1>9, <1>10, <1>11

LEMMA PrepareStep ==
    ASSUME WindowLimits, WindowInv, NEW outcome, NEW recalled \in Recalls,
           Windows!Prepare(outcome, recalled)
    PROVE  WindowInv'
<1>1. /\ WindowTypes /\ SummariesHold /\ DOMAIN contextLog = 1..Len(contextLog)
      /\ contextLog' = contextLog /\ crashes' = crashes /\ checkpoint' = snapshot /\ behind' = FALSE
  BY GroupsTyped DEF WindowInv, WindowTypes, Windows!Prepare
<1>2. /\ Lasting' = Len(contextLog)
      /\ \A s \in files \cup { snapshot } : HoldsTo(s, contextLog, Len(contextLog))
  BY <1>1, HoldsNow DEF Lasting, SummariesHold
<1>3. Windows!Nothing.tokens = 0
  BY DEF Windows!Nothing
<1>4. CASE \E i \in DOMAIN contextLog : contextLog[i].open
  <2>1. shown' = Windows!Nothing /\ snapshot' = snapshot /\ files' = files
    BY <1>4 DEF Windows!Prepare, Windows!Refuse
  <2>2. WindowTypes'
    <3>1. shown'.tokens \in Nat
      BY <1>3, <2>1
    <3> QED
      BY <1>1, <2>1, <3>1 DEF WindowTypes
  <2>3. SummariesHold'
    BY <1>1, <1>2, <2>1 DEF SummariesHold
  <2>4. Windows!ContextIsWhole'
    BY <2>1 DEF Windows!ContextIsWhole, Windows!Nothing
  <2> QED
    BY <2>2, <2>3, <2>4 DEF WindowInv
<1>5. CASE ~ \E i \in DOMAIN contextLog : contextLog[i].open
  <2>0. \A i \in 1..Len(contextLog) : ~contextLog[i].open
    BY <1>1, <1>5
  <2>1. PICK s \in SummaryRows, tokens \in Nat : \E view :
          /\ HoldsTo(s, contextLog, Len(contextLog))
          /\ ShownOf(view, Windows!After(s.cursor)) /\ PreparedWith(s, view, tokens)
    BY <1>1, <2>0, PrepareShows
  <2>2. PICK view : /\ HoldsTo(s, contextLog, Len(contextLog))
                    /\ ShownOf(view, Windows!After(s.cursor)) /\ PreparedWith(s, view, tokens)
    BY <2>1
  <2>3. snapshot' = s /\ files' \subseteq files \cup { s }
    BY <2>2 DEF PreparedWith
  <2>4. shown'.tokens \in Nat
    BY <1>3, <2>2 DEF PreparedWith
  <2>5. WindowTypes'
    BY <1>1, <2>3, <2>4 DEF WindowTypes
  <2>6. SummariesHold'
    BY <1>1, <1>2, <2>2, <2>3 DEF SummariesHold
  <2>7. Windows!ContextIsWhole'
    <3>1. CASE shown' = Windows!Nothing
      BY <3>1 DEF Windows!ContextIsWhole, Windows!Nothing
    <3>2. CASE shown' # Windows!Nothing
      <4>1. /\ tokens <= Budget
            /\ shown' = [ cursor |-> s.cursor, view |-> view, tokens |-> tokens ]
            /\ archived' = archived \cup { << contextLog[p[1]].id, p[2] >> : p \in Windows!Archived(view) }
        BY <2>2, <3>2 DEF PreparedWith
      <4>2. contextLog \in Seq(GroupRows) /\ IdsGrow(contextLog)
        BY <1>1 DEF WindowTypes
      <4> QED
        BY <1>1, <2>0, <2>2, <2>3, <4>1, <4>2, ShownIsWhole
    <3> QED
      BY <3>1, <3>2
  <2> QED
    BY <2>5, <2>6, <2>7 DEF WindowInv
<1> QED
  BY <1>4, <1>5

-------------------------------------------------------------------------------
(* The session goes on *)

LEMMA NewIdIsNew ==
    ASSUME WindowTypes
    PROVE  /\ Windows!NewId \in Nat \ { 0 }
           /\ \A i \in 1..Len(contextLog) : contextLog[i].id < Windows!NewId
<1> DEFINE m == Len(contextLog)
<1>1. m \in Nat /\ crashes \in Nat /\ \A i \in 1..m : contextLog[i].id \in Nat \ { 0 }
  BY GroupsTyped DEF WindowTypes
<1>2. CASE contextLog = << >>
  BY <1>1, <1>2 DEF Windows!NewId
<1>3. CASE contextLog # << >>
  <2>1. m # 0 /\ m \in 1..m
    BY <1>1, <1>3 DEF WindowTypes
  <2>2. Windows!NewId = 1 + crashes + contextLog[m].id
    BY <1>3 DEF Windows!NewId, Windows!Last
  <2>3. \A i \in 1..m : contextLog[i].id <= contextLog[m].id
    BY <1>1, <2>1 DEF WindowTypes, IdsGrow
  <2> QED
    BY <1>1, <2>1, <2>2, <2>3
<1> QED
  BY <1>2, <1>3

LEMMA GroupIsRow ==
    ASSUME WindowTypes, NEW who \in { "user", "text", "tools" }, NEW tools \in Seq(ToolNames),
           NEW open \in BOOLEAN, open => who = "tools"
    PROVE  /\ Windows!Group(who, tools, open) \in GroupRows
           /\ Windows!Group(who, tools, open).id = Windows!NewId
           /\ Windows!Group(who, tools, open).who = who
           /\ Windows!Group(who, tools, open).open = open
<1> DEFINE version == Windows!Cardinality({ i \in DOMAIN contextLog :
                        \E r \in Windows!Range(contextLog[i].results) : r.tool = "edit" })
           row(k) == [ tool |-> tools[k], version |-> version ]
           list == [ k \in DOMAIN tools |-> row(k) ]
           new == Windows!NewId
           g == [ id |-> new, who |-> who, open |-> open, results |-> list ]
           Row == [ tool : ToolNames, version : Nat ]
<1>1. Windows!Group(who, tools, open) = g
  BY DEF Windows!Group
<1>2. version \in Nat
  <2> DEFINE edits == { i \in DOMAIN contextLog :
                          \E r \in Windows!Range(contextLog[i].results) : r.tool = "edit" }
  <2>1. DOMAIN contextLog = 1..Len(contextLog) /\ Len(contextLog) \in Int /\ 1 \in Int
    BY GroupsTyped DEF WindowTypes
  <2>2. IsFiniteSet(edits)
    BY <2>1, FS_Interval, FS_Subset
  <2>3. Cardinality(edits) \in Nat
    BY <2>2, FS_CardinalityType
  <2> HIDE DEF edits
  <2>4. Windows!Cardinality(edits) = Cardinality(edits)
    BY DEF Windows!Cardinality, Cardinality
  <2> QED
    BY <2>3, <2>4 DEF edits
<1> HIDE DEF version
<1>3. DOMAIN tools = 1..Len(tools) /\ Len(tools) \in Nat /\ \A k \in 1..Len(tools) : tools[k] \in ToolNames
  BY LenProperties, ElementOfSeq
<1>4. ASSUME NEW k \in 1..Len(tools) PROVE row(k) \in Row
  BY <1>2, <1>3
<1> HIDE DEF row, Row
<1>5. list \in [ 1..Len(tools) -> Row ]
  BY <1>3, <1>4
<1>6. list \in Seq(Row)
  BY <1>3, <1>5
<1>7. new \in Nat \ { 0 }
  BY NewIdIsNew
<1> HIDE DEF list, new
<1>8. g \in GroupRows /\ g.id = new /\ g.who = who /\ g.open = open
  BY <1>6, <1>7 DEF GroupRows, Row
<1> QED
  BY <1>1, <1>8 DEF new

LEMMA CommitKeeps ==
    ASSUME WindowLimits, WindowInv, NEW g \in GroupRows, g.id = Windows!NewId, Windows!Commit(g)
    PROVE  WindowInv'
<1> DEFINE m == Len(contextLog)
<1>1. /\ WindowTypes /\ SummariesHold /\ contextLog \in Seq(GroupRows) /\ m \in Nat /\ m < MaxGroups
      /\ contextLog' = Append(contextLog, g) /\ checkpoint' = snapshot /\ behind' = TRUE
      /\ shown' = Windows!Nothing /\ snapshot' = snapshot /\ files' = files /\ crashes' = crashes
  BY GroupsTyped DEF WindowInv, WindowTypes, Windows!Commit
<1>2. /\ contextLog' \in Seq(GroupRows) /\ Len(contextLog') = m + 1 /\ contextLog'[m + 1] = g
      /\ \A i \in 1..m : contextLog'[i] = contextLog[i]
  BY <1>1, AppendProperties
<1>3. IdsGrow(contextLog')
  <2>1. ASSUME NEW i \in 1..(m + 1), NEW j \in 1..(m + 1), i < j
        PROVE  contextLog'[i].id < contextLog'[j].id
    <3>1. i \in 1..m
      BY <1>1, <2>1
    <3>2. CASE j = m + 1
      BY <1>1, <1>2, <3>1, <3>2, NewIdIsNew
    <3>3. CASE j # m + 1
      <4>1. j \in 1..m
        BY <1>1, <3>3
      <4> QED
        BY <1>1, <1>2, <2>1, <3>1, <4>1 DEF WindowTypes, IdsGrow
    <3> QED
      BY <3>2, <3>3
  <2> QED
    BY <1>2, <2>1 DEF IdsGrow
<1>4. Lasting' = m
  BY <1>1, <1>2 DEF Lasting
<1>5. SummariesHold'
  <2>1. ASSUME NEW s \in files \cup { snapshot } PROVE HoldsTo(s, contextLog', m)
    <3>1. HoldsTo(s, contextLog, m)
      BY <1>1, HoldsNow DEF SummariesHold
    <3>2. m \in Int /\ m <= m
      BY <1>1
    <3>3. \A i \in 1..m : /\ contextLog'[i].id = contextLog[i].id /\ contextLog'[i].who = contextLog[i].who
                          /\ contextLog'[i].open => contextLog[i].open
      BY <1>2
    <3> HIDE DEF m
    <3> QED
      BY <3>1, <3>2, <3>3, HoldsLonger
  <2> QED
    BY <1>1, <1>4, <2>1 DEF SummariesHold
<1>6. WindowTypes'
  <2>1. contextLog' # << >> /\ Len(contextLog') <= MaxGroups /\ Windows!Nothing.tokens \in Nat
    <3>1. m + 1 <= MaxGroups
      BY <1>1 DEF WindowLimits
    <3>2. Len(<< >>) = 0
      OBVIOUS
    <3> QED
      BY <1>1, <1>2, <3>1, <3>2 DEF Windows!Nothing
  <2> QED
    BY <1>1, <1>2, <1>3, <2>1 DEF WindowTypes
<1>7. Windows!ContextIsWhole'
  BY <1>1 DEF Windows!ContextIsWhole, Windows!Nothing
<1> QED
  BY <1>5, <1>6, <1>7 DEF WindowInv

LEMMA SessionStep ==
    ASSUME WindowLimits, WindowInv,
           \/ Windows!UserMessage \/ Windows!Answer \/ Windows!AskUser
           \/ \E batch \in ToolBatches : Windows!RunTools(batch)
    PROVE  WindowInv'
<1>1. WindowTypes /\ << >> \in Seq(ToolNames)
  BY DEF WindowInv
<1>2. CASE Windows!UserMessage
  <2> DEFINE g == Windows!Group("user", << >>, FALSE)
  <2>1. g \in GroupRows /\ g.id = Windows!NewId
    BY <1>1, GroupIsRow
  <2>2. Windows!Commit(g)
    BY <1>2 DEF Windows!UserMessage
  <2> HIDE DEF g
  <2> QED
    BY <2>1, <2>2, CommitKeeps
<1>3. CASE Windows!Answer
  <2> DEFINE g == Windows!Group("text", << >>, FALSE)
  <2>1. g \in GroupRows /\ g.id = Windows!NewId
    BY <1>1, GroupIsRow
  <2>2. Windows!Commit(g)
    BY <1>3 DEF Windows!Answer
  <2> HIDE DEF g
  <2> QED
    BY <2>1, <2>2, CommitKeeps
<1>4. CASE Windows!AskUser
  <2> DEFINE g == Windows!Group("tools", << >>, TRUE)
  <2>1. g \in GroupRows /\ g.id = Windows!NewId
    BY <1>1, GroupIsRow
  <2>2. Windows!Commit(g)
    BY <1>4 DEF Windows!AskUser
  <2> HIDE DEF g
  <2> QED
    BY <2>1, <2>2, CommitKeeps
<1>5. ASSUME NEW batch \in ToolBatches, Windows!RunTools(batch) PROVE WindowInv'
  <2> DEFINE g == Windows!Group("tools", batch, FALSE)
  <2>1. batch \in Seq(ToolNames)
    BY DEF WindowLimits, ToolNames
  <2>2. g \in GroupRows /\ g.id = Windows!NewId
    BY <1>1, <2>1, GroupIsRow
  <2>3. Windows!Commit(g)
    BY <1>5 DEF Windows!RunTools
  <2> HIDE DEF g
  <2> QED
    BY <2>2, <2>3, CommitKeeps
<1> QED
  BY <1>2, <1>3, <1>4, <1>5

(* The answer closes the open call; the group keeps its place.               *)
LEMMA AnswerUserStep ==
    ASSUME WindowLimits, WindowInv, Windows!AnswerUser
    PROVE  WindowInv'
<1> DEFINE m == Len(contextLog)
           row == Windows!Group("tools", << "answer" >>, FALSE)
           id == contextLog[m].id
           g == [ row EXCEPT !.id = id ]
<1>1. /\ WindowTypes /\ SummariesHold /\ Windows!ContextIsWhole
      /\ contextLog \in Seq(GroupRows) /\ m \in Nat /\ m \in 1..m
      /\ DOMAIN contextLog = 1..m /\ IdsGrow(contextLog)
  <2>1. contextLog # << >>
    BY DEF Windows!AnswerUser
  <2> QED
    BY <2>1, GroupsTyped DEF WindowInv, WindowTypes
<1>2. contextLog[m].open /\ contextLog[m].who = "tools" /\ id \in Nat \ { 0 }
  BY <1>1, GroupsTyped DEF Windows!AnswerUser, Windows!Last
<1>3. shown = Windows!Nothing
  BY <1>1, <1>2 DEF Windows!ContextIsWhole
<1>4. row \in GroupRows /\ row.who = "tools" /\ row.open = FALSE
  <2>1. << "answer" >> \in Seq(ToolNames)
    BY DEF ToolNames
  <2> QED
    BY <1>1, <2>1, GroupIsRow
<1>5. /\ contextLog' = [ contextLog EXCEPT ![m] = g ] /\ checkpoint' = snapshot /\ behind' = FALSE
      /\ shown' = shown /\ snapshot' = snapshot /\ files' = files /\ crashes' = crashes
  BY DEF Windows!AnswerUser
<1> HIDE DEF row, id
<1>6. g \in GroupRows /\ g.id = id /\ g.who = "tools" /\ g.open = FALSE
  BY <1>2, <1>4 DEF GroupRows
<1> HIDE DEF g
<1>7. /\ contextLog' \in Seq(GroupRows) /\ Len(contextLog') = m
      /\ \A i \in 1..m : /\ contextLog'[i].id = contextLog[i].id /\ contextLog'[i].who = contextLog[i].who
                         /\ contextLog'[i].open => contextLog[i].open
  <2>1. contextLog' \in Seq(GroupRows) /\ Len(contextLog') = m
    BY <1>1, <1>5, <1>6, ExceptSeq
  <2>2. \A i \in 1..m : contextLog'[i] = IF i = m THEN g ELSE contextLog[i]
    BY <1>1, <1>5
  <2> QED
    BY <1>2, <1>6, <2>1, <2>2 DEF id
<1>8. WindowTypes'
  <2>1. IdsGrow(contextLog')
    BY <1>1, <1>7 DEF IdsGrow
  <2>2. contextLog' # << >>
    BY <1>1, <1>7
  <2> QED
    BY <1>1, <1>5, <1>7, <2>1, <2>2 DEF WindowTypes
<1>9. SummariesHold'
  <2>1. Lasting' = m
    BY <1>5, <1>7 DEF Lasting
  <2>2. ASSUME NEW s \in files \cup { snapshot } PROVE HoldsTo(s, contextLog', m)
    <3>1. HoldsTo(s, contextLog, m)
      BY <1>1, HoldsNow DEF SummariesHold
    <3>2. m \in Int /\ m <= m
      BY <1>1
    <3> HIDE DEF m
    <3> QED
      BY <1>7, <3>1, <3>2, HoldsLonger
  <2> QED
    BY <1>5, <2>1, <2>2 DEF SummariesHold
<1>10. Windows!ContextIsWhole'
  BY <1>3, <1>5 DEF Windows!ContextIsWhole, Windows!Nothing
<1> QED
  BY <1>8, <1>9, <1>10 DEF WindowInv

(* What is loaded ends at worst before the last commit: no summary reaches   *)
(* behind it.                                                                *)
LEMMA NewProcessStep ==
    ASSUME WindowLimits, WindowInv, NEW lag \in BOOLEAN, NEW same \in BOOLEAN,
           Windows!Restart(lag, same)
    PROVE  WindowInv'
<1> DEFINE m == Len(contextLog)
<1>1. /\ WindowTypes /\ SummariesHold /\ contextLog \in Seq(GroupRows) /\ m \in Nat
      /\ DOMAIN contextLog = 1..m /\ IdsGrow(contextLog)
      /\ crashes < MaxReloads /\ crashes' = crashes + 1 /\ shown' = Windows!Nothing
      /\ behind' = FALSE /\ files' = files /\ checkpoint' = checkpoint
  BY GroupsTyped DEF WindowInv, WindowTypes, Windows!Restart
<1> DEFINE n == Len(contextLog')
<1>2. /\ contextLog' \in Seq(GroupRows) /\ n \in Nat /\ Lasting <= n /\ n <= m
      /\ \A i \in 1..n : contextLog'[i] = contextLog[i]
  <2>1. CASE lag /\ behind
    <3>1. contextLog # << >> /\ m # 0 /\ Lasting = m - 1
      BY <1>1, <2>1 DEF WindowTypes, Lasting
    <3>2. contextLog' = SubSeq(contextLog, 1, m - 1)
      BY <2>1 DEF Windows!Restart, Windows!Front
    <3>3. m - 1 \in Nat /\ m - 1 <= m
      BY <1>1, <3>1
    <3>4. contextLog' \in Seq(GroupRows) /\ n = m - 1
      BY <1>1, <3>2, <3>3
    <3>5. \A i \in 1..(m - 1) : contextLog'[i] = contextLog[i]
      BY <1>1, <3>2, <3>3
    <3> QED
      BY <3>1, <3>3, <3>4, <3>5
  <2>2. CASE ~(lag /\ behind)
    <3>1. contextLog' = contextLog
      BY <2>2 DEF Windows!Restart
    <3>2. Lasting <= m
      BY <1>1, LastingIsLength
    <3>3. m \in Int /\ m <= m
      BY <1>1
    <3> QED
      BY <1>1, <3>1, <3>2, <3>3
  <2> QED
    BY <2>1, <2>2
<1>3. Lasting' = n /\ Lasting \in Int /\ n \in Int
  BY <1>1, <1>2, LastingIsLength DEF Lasting
<1>4. ASSUME NEW s, HoldsTo(s, contextLog, Lasting)
      PROVE  HoldsTo(s, contextLog', n)
  <2>1. \A i \in 1..Lasting : i \in 1..n
    BY <1>2, <1>3
  <2>2. \A i \in 1..Lasting : /\ contextLog'[i].id = contextLog[i].id
                              /\ contextLog'[i].who = contextLog[i].who
                              /\ contextLog'[i].open => contextLog[i].open
    BY <1>2, <2>1
  <2> QED
    BY <1>2, <1>3, <1>4, <2>2, HoldsLonger
<1>5. snapshot' \in SummaryRows /\ HoldsTo(snapshot', contextLog', n)
  <2>1. CASE checkpoint \in files
    <3> DEFINE c == [ checkpoint EXCEPT !.same = same ]
    <3>1. snapshot' = c
      BY <2>1 DEF Windows!Restart
    <3>2. c \in SummaryRows /\ c.cursor = checkpoint.cursor /\ c.covers = checkpoint.covers
      BY <1>1 DEF WindowTypes, SummaryRows
    <3>3. HoldsTo(checkpoint, contextLog', n)
      BY <1>1, <1>4 DEF SummariesHold
    <3> HIDE DEF c
    <3>4. HoldsTo(c, contextLog', n)
      BY <3>2, <3>3 DEF HoldsTo
    <3> QED
      BY <3>1, <3>2, <3>4
  <2>2. CASE checkpoint \notin files
    <3>1. snapshot' = Windows!NoSummary
      BY <2>2 DEF Windows!Restart
    <3> QED
      BY <3>1 DEF Windows!NoSummary, SummaryRows, HoldsTo
  <2> QED
    BY <2>1, <2>2
<1>6. SummariesHold'
  <2>1. \A s \in files \cup { checkpoint } : HoldsTo(s, contextLog', n)
    BY <1>1, <1>4 DEF SummariesHold
  <2> QED
    BY <1>1, <1>3, <1>5, <2>1 DEF SummariesHold
<1>7. WindowTypes'
  <2>1. IdsGrow(contextLog')
    <3>1. \A i \in 1..n : i \in 1..m
      BY <1>1, <1>2
    <3> QED
      BY <1>1, <1>2, <3>1 DEF IdsGrow
  <2>2. Windows!Nothing.tokens \in Nat
    BY DEF Windows!Nothing
  <2>3. crashes + 1 \in Nat /\ crashes + 1 <= MaxReloads /\ n <= MaxGroups
    BY <1>1, <1>2 DEF WindowTypes, WindowLimits
  <2> QED
    BY <1>1, <1>2, <1>5, <2>1, <2>2, <2>3 DEF WindowTypes
<1>8. Windows!ContextIsWhole'
  BY <1>1 DEF Windows!ContextIsWhole, Windows!Nothing
<1> QED
  BY <1>6, <1>7, <1>8 DEF WindowInv

-------------------------------------------------------------------------------
(* The messages together *)

LEMMA WindowInvInit ==
    ASSUME WindowLimits, Windows!Init
    PROVE  WindowInv
<1>1. /\ contextLog = << >> /\ snapshot = Windows!NoSummary /\ files = { }
      /\ checkpoint = Windows!NoSummary /\ shown = Windows!Nothing /\ behind = FALSE /\ crashes = 0
  BY DEF Windows!Init
<1>2. WindowTypes
  <2>1. Windows!NoSummary \in SummaryRows /\ Windows!Nothing.tokens \in Nat
    BY DEF Windows!NoSummary, Windows!Nothing, SummaryRows
  <2>2. contextLog \in Seq(GroupRows) /\ Len(contextLog) = 0 /\ IdsGrow(contextLog)
    BY <1>1 DEF IdsGrow
  <2>3. 0 <= MaxGroups /\ 0 <= MaxReloads
    BY DEF WindowLimits
  <2> QED
    BY <1>1, <2>1, <2>2, <2>3 DEF WindowTypes
<1>3. SummariesHold
  BY <1>1 DEF SummariesHold, HoldsTo, Windows!NoSummary
<1>4. Windows!ContextIsWhole
  BY <1>1 DEF Windows!ContextIsWhole, Windows!Nothing
<1> QED
  BY <1>2, <1>3, <1>4 DEF WindowInv

LEMMA WindowInvStep ==
    ASSUME WindowLimits, WindowInv, [Windows!Next]_(Windows!contextVars)
    PROVE  WindowInv'
<1>1. ASSUME NEW outcome \in Windows!Outcomes, NEW recalled \in Recalls,
             Windows!Prepare(outcome, recalled)
      PROVE  WindowInv'
  BY <1>1, PrepareStep
<1>2. CASE \/ Windows!UserMessage \/ Windows!Answer \/ Windows!AskUser
           \/ \E batch \in ToolBatches : Windows!RunTools(batch)
  BY <1>2, SessionStep
<1>3. CASE Windows!AnswerUser
  BY <1>3, AnswerUserStep
<1>4. ASSUME NEW lag \in BOOLEAN, NEW same \in BOOLEAN, Windows!Restart(lag, same)
      PROVE  WindowInv'
  BY <1>4, NewProcessStep
<1>5. CASE UNCHANGED Windows!contextVars
  <2>1. /\ contextLog' = contextLog /\ snapshot' = snapshot /\ files' = files
        /\ checkpoint' = checkpoint /\ archived' = archived /\ shown' = shown
        /\ behind' = behind /\ crashes' = crashes
    BY <1>5 DEF Windows!contextVars
  <2>2. WindowTypes'
    BY <2>1 DEF WindowInv, WindowTypes
  <2>3. SummariesHold'
    BY <2>1 DEF WindowInv, SummariesHold, Lasting
  <2>4. Windows!ContextIsWhole'
    BY <2>1 DEF WindowInv, Windows!ContextIsWhole, Windows!Unconsumed, Windows!Closed,
                Windows!Elsewhere, Windows!Range, Windows!Nothing
  <2> QED
    BY <2>2, <2>3, <2>4 DEF WindowInv
<1> QED
  BY <1>1, <1>2, <1>3, <1>4, <1>5 DEF Windows!Next

LEMMA WindowInvTrue ==
    ASSUME WindowInv
    PROVE  Windows!TypeOK /\ Windows!ContextIsWhole
<1>1. \A s \in SummaryRows : s.cursor \in Nat /\ s.covers \subseteq Nat
  BY DEF SummaryRows
<1> QED
  BY <1>1 DEF WindowInv, WindowTypes, Windows!TypeOK

LEMMA ContextStaysWhole ==
    ASSUME WindowLimits
    PROVE  Windows!Spec => [](Windows!TypeOK /\ Windows!ContextIsWhole)
<1>1. Windows!Init => WindowInv
  BY WindowInvInit
<1>2. WindowInv /\ [Windows!Next]_(Windows!contextVars) => WindowInv'
  BY WindowInvStep
<1>3. WindowInv => Windows!TypeOK /\ Windows!ContextIsWhole
  BY WindowInvTrue
<1> QED
  BY <1>1, <1>2, <1>3, PTL DEF Windows!Spec

-------------------------------------------------------------------------------
(* Messages and files together *)

(* What the model reads of a session is whole: every group of messages is in *)
(* its summary, in full, in a newer repeat or in an artifact file, however   *)
(* often messages are thinned, summaries fail and processes restart; and     *)
(* evidence is only called fresh while the files are as it found them        *)
(* (ContextService.prepare, ContextCompactor, ContextState.refresh_freshness).*)
THEOREM ContextStaysTrue ==
    ASSUME SetLimits, WindowLimits
    PROVE  Windows!Spec /\ Sets!Spec => []ContextIsTrue
<1>1. Windows!Spec => [](Windows!TypeOK /\ Windows!ContextIsWhole)
  BY ContextStaysWhole
<1>2. Sets!Spec => [](Sets!TypeOK /\ Sets!FreshIsCurrent)
  BY FreshStaysCurrent
<1>3. (Windows!TypeOK /\ Windows!ContextIsWhole) /\ (Sets!TypeOK /\ Sets!FreshIsCurrent)
        => ContextIsTrue
  BY DEF ContextIsTrue
<1> QED
  BY <1>1, <1>2, <1>3, PTL
===============================================================================

------------------------ MODULE ArtifactStateProofs -------------------------
(***************************************************************************)
(* Theorems about ArtifactState: what state.json may hold, for any number  *)
(* of processes, any cap and whatever fails.                               *)
(***************************************************************************)
EXTENDS ArtifactState, SequenceTheorems, TLAPS

(* The newest artifact first, none twice, and none after the m-th made.    *)
Listing(artifacts, m) ==
    /\ artifacts \in Seq(Artifact)
    /\ \A i \in DOMAIN artifacts : artifacts[i] <= m
    /\ \A i, j \in DOMAIN artifacts : i < j => artifacts[i] > artifacts[j]

(* The artifacts from the k-th to the m-th are at the front, up to Cap.    *)
Recent(artifacts, k, m) ==
    \A n \in k..m : m - n < Cap =>
        m - n + 1 <= Len(artifacts) /\ artifacts[m - n + 1] = n

Listings ==
    /\ Listing(file.artifacts, made)
    /\ \A s \in Server : Listing(fallback[s], made) /\ Listing(list[s], made)
    /\ \A s \in Server : Len(list[s]) <= Cap /\ (pc[s] # "idle" => Len(list[s]) >= 1)

(* What is about to be appended, and what failed, is nowhere else, unless  *)
(* it was put into a default array.                                        *)
Known(n) == n \in Range(file.artifacts)

Own ==
    /\ \A s \in Server : Range(fallback[s]) \subseteq blind
    /\ \A s \in Server : pc[s] # "idle" /\ Head(list[s]) \notin blind =>
          /\ ~Known(Head(list[s]))
          /\ \A t \in Server : t # s => Head(list[s]) \notin Range(list[t])
    /\ failed \subseteq 1..made
    /\ \A n \in failed \ blind : ~Known(n) /\ \A s \in Server : n \notin Range(list[s])

(* While no append is disturbed, one process at most is at work, and it    *)
(* holds what the file held.                                               *)
Undisturbed ==
    /\ since <= made + 1
    /\ since <= made =>
        /\ Idle => file.status = "whole" /\ Recent(file.artifacts, since, made)
        /\ \A s \in Server : pc[s] # "idle" =>
              /\ \A t \in Server : t # s => pc[t] = "idle"
              /\ Recent(list[s], since, made)
              /\ pc[s] = "opened" => file.status = "empty"

AppendInv == TypeOK /\ Listings /\ Own /\ Undisturbed

-----------------------------------------------------------------------------
(* Lists.                                                                  *)

(* What cutting a list leaves of it.                                       *)
LEMMA NewestShape ==
    ASSUME NEW S, NEW seq \in Seq(S)
    PROVE  /\ Newest(seq) \in Seq(S)
           /\ Len(Newest(seq)) = IF Len(seq) < Cap THEN Len(seq) ELSE Cap
           /\ \A i \in 1..Len(Newest(seq)) : i \in 1..Len(seq) /\ Newest(seq)[i] = seq[i]
<1> DEFINE n == IF Len(seq) < Cap THEN Len(seq) ELSE Cap
<1>1. n \in Nat /\ n <= Len(seq) /\ Len(seq) \in Nat
  BY ArtifactAssumption
<1>2. \A i \in 1..n : seq[i] \in S
  BY <1>1
<1>3. /\ SubSeq(seq, 1, n) \in Seq(S)
      /\ Len(SubSeq(seq, 1, n)) = IF 1 <= n THEN n - 1 + 1 ELSE 0
      /\ \A i \in 1..(n - 1 + 1) : SubSeq(seq, 1, n)[i] = seq[1 + i - 1]
  BY <1>1, <1>2, SubSeqProperties
<1> QED  BY <1>1, <1>3 DEF Newest

(* A new artifact in front of a list.                                      *)
LEMMA InFront ==
    ASSUME NEW S, NEW n \in S, NEW seq \in Seq(S)
    PROVE  /\ <<n>> \o seq \in Seq(S)
           /\ Len(<<n>> \o seq) = Len(seq) + 1
           /\ (<<n>> \o seq)[1] = n
           /\ \A i \in 1..(Len(seq) + 1) : i # 1 =>
                 i - 1 \in 1..Len(seq) /\ (<<n>> \o seq)[i] = seq[i - 1]
<1>1. <<n>> \in Seq(S) /\ Len(<<n>>) = 1 /\ <<n>>[1] = n
  OBVIOUS
<1>2. /\ <<n>> \o seq \in Seq(S)
      /\ Len(<<n>> \o seq) = 1 + Len(seq)
      /\ \A i \in 1..(1 + Len(seq)) :
            (<<n>> \o seq)[i] = IF i <= 1 THEN <<n>>[i] ELSE seq[i - 1]
  BY <1>1, ConcatProperties
<1> QED  BY <1>1, <1>2

(* The artifact with the next number, put in front of a list, makes a list *)
(* of the newest again, also after it is cut.                              *)
LEMMA Prepended ==
    ASSUME NEW m \in Nat, NEW n \in Artifact, n = m + 1, NEW seq, Listing(seq, m),
           NEW new, new = <<n>> \o seq \/ new = Newest(<<n>> \o seq)
    PROVE  /\ Listing(new, n) /\ Len(new) >= 1 /\ new[1] = n /\ Head(new) = n
           /\ Range(new) \subseteq {n} \cup Range(seq)
           /\ new = Newest(<<n>> \o seq) =>
                 /\ Len(new) = (IF Len(seq) + 1 < Cap THEN Len(seq) + 1 ELSE Cap)
                 /\ Len(new) <= Cap
                 /\ \A i \in 1..Len(new) : i # 1 => i - 1 \in 1..Len(seq) /\ new[i] = seq[i - 1]
<1> PICK all : all = <<n>> \o seq
  OBVIOUS
<1>1. /\ all \in Seq(Artifact) /\ Len(all) = Len(seq) + 1 /\ Len(seq) \in Nat
      /\ all[1] = n
      /\ \A i \in 1..Len(all) : i # 1 => i - 1 \in 1..Len(seq) /\ all[i] = seq[i - 1]
  BY InFront DEF Listing
<1>2. /\ new \in Seq(Artifact)
      /\ Len(new) \in 1..Len(all)
      /\ \A i \in 1..Len(new) : i \in 1..Len(all) /\ new[i] = all[i]
      /\ new = Newest(all) => Len(new) = IF Len(all) < Cap THEN Len(all) ELSE Cap
  <2>1. Len(Newest(all)) = IF Len(all) < Cap THEN Len(all) ELSE Cap
    BY <1>1, NewestShape
  <2>2. CASE new = all
    BY <1>1, <2>1, <2>2
  <2>3. CASE new = Newest(all)
    <3>1. /\ Newest(all) \in Seq(Artifact)
          /\ \A i \in 1..Len(Newest(all)) : i \in 1..Len(all) /\ Newest(all)[i] = all[i]
      BY <1>1, NewestShape
    <3>2. Len(Newest(all)) \in 1..Len(all)
      BY <1>1, <2>1, ArtifactAssumption
    <3> QED  BY <2>1, <2>3, <3>1, <3>2
  <2> QED  BY <2>2, <2>3
<1>3. \A i \in 1..Len(new) : new[i] = IF i = 1 THEN n ELSE seq[i - 1]
  BY <1>1, <1>2
<1>4. \A i \in 1..Len(seq) : seq[i] \in Nat /\ seq[i] <= m
  BY ArtifactAssumption DEF Artifact, Listing
<1>5. DOMAIN new = 1..Len(new) /\ DOMAIN seq = 1..Len(seq)
  BY <1>2 DEF Listing
<1>6. \A i \in 1..Len(new) : i # 1 => i - 1 \in 1..Len(seq)
  BY <1>1, <1>2
<1>7. ASSUME NEW i \in 1..Len(new) PROVE new[i] <= n
  <2>1. CASE i = 1
    BY <1>3, <2>1
  <2>2. CASE i # 1
    <3>1. seq[i - 1] \in Nat /\ seq[i - 1] <= m
      BY <1>4, <1>6, <2>2
    <3> QED  BY <1>3, <2>2, <3>1
  <2> QED  BY <2>1, <2>2
<1>8. ASSUME NEW i \in 1..Len(new), NEW j \in 1..Len(new), i < j
      PROVE  new[i] > new[j]
  <2>1. /\ new[j] = seq[j - 1] /\ j - 1 \in 1..Len(seq) /\ seq[j - 1] \in Nat
        /\ seq[j - 1] <= m
    <3>1. j # 1
      BY <1>8
    <3> QED  BY <1>3, <1>4, <1>6, <3>1
  <2>2. CASE i = 1
    BY <1>3, <2>1, <2>2
  <2>3. CASE i # 1
    <3>1. new[i] = seq[i - 1] /\ i - 1 \in 1..Len(seq) /\ i - 1 < j - 1
      BY <1>3, <1>6, <1>8, <2>3
    <3> QED  BY <1>5, <2>1, <3>1 DEF Listing
  <2> QED  BY <2>2, <2>3
<1>9. Range(new) \subseteq {n} \cup Range(seq)
  <2> SUFFICES ASSUME NEW i \in 1..Len(new) PROVE new[i] \in {n} \cup Range(seq)
    BY <1>5 DEF Range
  <2>1. CASE i = 1
    BY <1>3, <2>1
  <2>2. CASE i # 1
    BY <1>3, <1>5, <1>6, <2>2 DEF Range
  <2> QED  BY <2>1, <2>2
<1>10. Head(new) = new[1] /\ new[1] = n /\ Len(new) >= 1
  BY <1>2, <1>3
<1>11. Listing(new, n)
  BY <1>2, <1>5, <1>7, <1>8 DEF Listing
<1> QED  BY <1>1, <1>2, <1>3, <1>6, <1>9, <1>10, <1>11, ArtifactAssumption

-----------------------------------------------------------------------------
(* Steps.                                                                  *)

(* A new artifact goes in front of what the file holds or, where the file  *)
(* cannot be read, of the default array, which then keeps it.              *)
LEMMA LoadShape ==
    ASSUME TypeOK, Listings, NEW s \in Server, Load(s)
    PROVE  /\ made \in Nat /\ made' = made + 1 /\ made' \in Artifact
           /\ \E seq :
                /\ Listing(seq, made)
                /\ list' = [list EXCEPT ![s] = Newest(<<made'>> \o seq)]
                /\ \/ /\ file.status = "whole" /\ seq = file.artifacts
                      /\ UNCHANGED <<fallback, blind>>
                   \/ /\ file.status # "whole" /\ seq = fallback[s]
                      /\ fallback' = [fallback EXCEPT ![s] = <<made'>> \o seq]
                      /\ blind' = blind \cup {made'}
           /\ pc' = [pc EXCEPT ![s] = "loaded"] /\ pc[s] = "idle"
           /\ UNCHANGED <<file, failed, faults>>
<1>1. made \in Nat /\ made' = made + 1 /\ made' \in Artifact
  BY ArtifactAssumption DEF TypeOK, Load, Artifact
<1>2. CASE file.status = "whole"
  BY <1>1, <1>2 DEF Load, Goto, Listings
<1>3. CASE file.status # "whole"
  <2>1. /\ fallback' = [fallback EXCEPT ![s] = <<made'>> \o fallback[s]]
        /\ list' = [list EXCEPT ![s] = Newest(fallback'[s])]
        /\ blind' = blind \cup {made'}
    BY <1>3 DEF Load
  <2>2. fallback'[s] = <<made'>> \o fallback[s]
    BY <2>1 DEF TypeOK
  <2> QED  BY <1>1, <2>1, <2>2 DEF Load, Goto, Listings
<1> QED  BY <1>1, <1>2, <1>3

(* What is left of the file by a write that ends early.                    *)
LEMMA PartlyShape ==
    ASSUME TypeOK, NEW s \in Server, Partly(s)
    PROVE  /\ file' = file \/ file' = Unreadable("garbled")
           /\ pc[s] # "opened" => file' = file
BY DEF Partly

(* A listing remains one when more artifacts are made.                     *)
LEMMA ListingGrows ==
    ASSUME NEW m \in Nat, NEW n \in Nat, m <= n, NEW seq, Listing(seq, m)
    PROVE  Listing(seq, n)
<1>1. \A i \in DOMAIN seq : seq[i] \in Nat
  BY ArtifactAssumption DEF Listing, Artifact
<1> QED  BY <1>1 DEF Listing

(* The types, and no list is ever longer than Cap or out of order.         *)
LEMMA ListingsStep ==
    ASSUME TypeOK, Listings, Undisturbed, [Next]_vars
    PROVE  TypeOK' /\ Listings'
<1>0. Listing(<<>>, made) /\ \A status : Unreadable(status).artifacts = <<>>
  BY DEF Listing, Unreadable
<1>1. ASSUME NEW s \in Server, Load(s) PROVE TypeOK' /\ Listings'
  <2>0. /\ made \in Nat /\ made' = made + 1 /\ made' \in Artifact /\ made' \in Nat
        /\ pc' = [pc EXCEPT ![s] = "loaded"] /\ UNCHANGED <<file, failed, faults>>
    BY <1>1, LoadShape
  <2>1. PICK seq :
                /\ Listing(seq, made)
                /\ list' = [list EXCEPT ![s] = Newest(<<made'>> \o seq)]
                /\ \/ UNCHANGED <<fallback, blind>>
                   \/ /\ fallback' = [fallback EXCEPT ![s] = <<made'>> \o seq]
                      /\ blind' = blind \cup {made'}
    BY <1>1, LoadShape
  <2>2. \A x : Listing(x, made) => Listing(x, made')
    BY <2>0, ListingGrows
  <2>3. Listing(<<made'>> \o seq, made')
    <3> PICK all, n, m : all = <<n>> \o seq /\ n = made' /\ m = made
      OBVIOUS
    <3>1. m \in Nat /\ n \in Artifact /\ n = m + 1 /\ Listing(seq, m)
      BY <2>0, <2>1
    <3>2. Listing(all, n)
      BY <3>1, Prepended
    <3> QED  BY <3>2
  <2>4. /\ Listing(Newest(<<made'>> \o seq), made')
        /\ Len(Newest(<<made'>> \o seq)) >= 1 /\ Len(Newest(<<made'>> \o seq)) <= Cap
    BY <2>0, <2>1, Prepended
  <2>5. Listings'
    BY <2>0, <2>1, <2>2, <2>3, <2>4 DEF Listings, TypeOK
  <2>6. TypeOK'
    <3>1. since' \in 1..(MaxAppends + 2)
      BY <1>1, <2>0, ArtifactAssumption DEF Load, TypeOK, Artifact
    <3>2. fallback' \in [Server -> Seq(Artifact)] /\ list' \in [Server -> Seq(Artifact)]
      BY <2>1, <2>3, <2>4 DEF TypeOK, Listing
    <3>3. blind' \subseteq Artifact /\ made' \in 0..MaxAppends
      <4>1. made' \in 0..MaxAppends
        BY <2>0, ArtifactAssumption DEF Artifact
      <4>2. blind' \subseteq Artifact
        BY <2>0, <2>1 DEF TypeOK
      <4> QED  BY <4>1, <4>2
    <3> QED  BY <2>0, <3>1, <3>2, <3>3 DEF TypeOK
  <2> QED  BY <2>5, <2>6
<1>2. ASSUME NEW s \in Server, NEW label \in {"idle", "loaded", "opened"}, Goto(s, label),
             made' = made, file' \in {file, Unreadable("empty"), Unreadable("garbled"),
                                     Whole(list[s])},
             list' = list \/ (list' = [list EXCEPT ![s] = <<>>] /\ label = "idle"),
             fallback' \in {fallback, [fallback EXCEPT ![s] = <<>>]},
             label # "idle" => pc[s] # "idle"
      PROVE  /\ Listings'
             /\ file' \in File /\ Len(file'.artifacts) <= Cap
             /\ fallback' \in [Server -> Seq(Artifact)]
             /\ pc' \in [Server -> {"idle", "loaded", "opened"}]
             /\ list' \in [Server -> Seq(Artifact)]
  <2> PICK m : m = made
    OBVIOUS
  <2>0. m = made' /\ Listing(<<>>, m)
    BY <1>0, <1>2
  <2>1. /\ file' \in File /\ Len(file'.artifacts) <= Cap /\ Listing(file'.artifacts, m)
    <3>1. CASE file' = file
      BY <3>1 DEF TypeOK, Listings
    <3>2. CASE file' \in {Unreadable("empty"), Unreadable("garbled")}
      BY <1>0, <2>0, <3>2, ArtifactAssumption DEF File, Unreadable
    <3>3. CASE file' = Whole(list[s])
      BY <3>3 DEF File, Whole, TypeOK, Listings
    <3> QED  BY <1>2, <3>1, <3>2, <3>3
  <2>2. /\ fallback' \in [Server -> Seq(Artifact)]
        /\ \A t \in Server : Listing(fallback'[t], m)
    <3>1. \A t \in Server : fallback[t] \in Seq(Artifact) /\ Listing(fallback[t], m)
      BY DEF TypeOK, Listings
    <3>2. <<>> \in Seq(Artifact)
      OBVIOUS
    <3>3. CASE fallback' = fallback
      BY <3>1, <3>3 DEF TypeOK
    <3>4. CASE fallback' = [fallback EXCEPT ![s] = <<>>]
      BY <1>0, <2>0, <3>1, <3>2, <3>4 DEF TypeOK
    <3> QED  BY <1>2, <3>3, <3>4
  <2>3. /\ pc' \in [Server -> {"idle", "loaded", "opened"}]
        /\ \A t \in Server : t # s => pc'[t] = pc[t]
        /\ pc'[s] = label
    BY <1>2 DEF TypeOK, Goto
  <2>4. /\ list' \in [Server -> Seq(Artifact)]
        /\ \A t \in Server : /\ Listing(list'[t], m) /\ Len(list'[t]) <= Cap
                             /\ pc'[t] # "idle" => Len(list'[t]) >= 1
    <3>1. \A t \in Server : /\ list[t] \in Seq(Artifact) /\ Listing(list[t], m)
                            /\ Len(list[t]) <= Cap /\ (pc[t] # "idle" => Len(list[t]) >= 1)
      BY DEF TypeOK, Listings
    <3>2. <<>> \in Seq(Artifact) /\ Len(<<>>) <= Cap
      BY ArtifactAssumption
    <3>3. CASE list' = list
      BY <1>2, <2>3, <3>1, <3>3 DEF TypeOK
    <3>4. CASE list' = [list EXCEPT ![s] = <<>>] /\ label = "idle"
      BY <2>0, <2>3, <3>1, <3>2, <3>4 DEF TypeOK
    <3> QED  BY <1>2, <3>3, <3>4
  <2>5. Listings'
    BY <2>0, <2>1, <2>2, <2>4 DEF Listings
  <2> QED  BY <2>1, <2>2, <2>3, <2>4, <2>5
<1>3. ASSUME NEW s \in Server, Open(s) \/ Write(s) PROVE TypeOK' /\ Listings'
  <2>1. pc[s] # "idle" /\ UNCHANGED <<made, failed, blind, since, faults, fallback>>
    BY <1>3 DEF Open, Write
  <2>2. CASE Open(s)
    BY <1>2, <2>1, <2>2 DEF Open, TypeOK
  <2>3. CASE Write(s)
    BY <1>2, <2>1, <2>3 DEF Write, TypeOK
  <2> QED  BY <1>3, <2>2, <2>3
<1>4. ASSUME NEW s \in Server, SaveFails(s) \/ Crash(s) PROVE TypeOK' /\ Listings'
  <2>1. /\ made' = made /\ blind' = blind /\ faults' \in 0..MaxFaults
        /\ since' \in {since, made + 1} /\ Partly(s) /\ Goto(s, "idle")
        /\ list' = [list EXCEPT ![s] = <<>>]
        /\ fallback' \in {fallback, [fallback EXCEPT ![s] = <<>>]}
    BY <1>4, ArtifactAssumption DEF SaveFails, Crash, Fault, TypeOK
  <2>2. failed' \subseteq Artifact
    <3>1. CASE SaveFails(s)
      <4>1. Head(list[s]) \in Artifact
        <5>1. list[s] \in Seq(Artifact) /\ Len(list[s]) >= 1
          BY <3>1 DEF SaveFails, TypeOK, Listings
        <5> QED  BY <5>1
      <4> QED  BY <3>1, <4>1 DEF SaveFails, TypeOK
    <3>2. CASE Crash(s)
      BY <3>2 DEF Crash, TypeOK
    <3> QED  BY <1>4, <3>1, <3>2
  <2>3. since' \in 1..(MaxAppends + 2)
    BY <2>1, ArtifactAssumption DEF TypeOK
  <2> QED  BY <1>2, <2>1, <2>2, <2>3, PartlyShape DEF TypeOK
<1>6. CASE UNCHANGED vars
  BY <1>6 DEF vars, TypeOK, Listings
<1> QED  BY <1>1, <1>3, <1>4, <1>6 DEF Next, Exhausted

(* The numbers in a listing are those of artifacts made, and the head is   *)
(* one of them.                                                            *)
LEMMA ListingRange ==
    ASSUME NEW m \in Nat, NEW seq, Listing(seq, m)
    PROVE  /\ Range(seq) \subseteq Artifact \cap (1..m)
           /\ Len(seq) >= 1 => Head(seq) \in Range(seq) /\ Head(seq) = seq[1]
<1>1. seq \in Seq(Artifact) /\ DOMAIN seq = 1..Len(seq) /\ \A i \in DOMAIN seq : seq[i] <= m
  BY DEF Listing
<1>2. ASSUME NEW i \in DOMAIN seq PROVE seq[i] \in Artifact /\ seq[i] \in 1..m
  <2>1. seq[i] \in Artifact /\ seq[i] <= m
    BY <1>1
  <2> QED  BY <2>1, ArtifactAssumption DEF Artifact
<1>3. Len(seq) >= 1 => 1 \in DOMAIN seq /\ Head(seq) = seq[1]
  BY <1>1
<1> QED  BY <1>2, <1>3 DEF Range

(* Where a list comes from decides which artifacts can be in it.           *)
LEMMA OwnStep ==
    ASSUME TypeOK, Listings, Own, [Next]_vars
    PROVE  Own'
<1>0. /\ made \in Nat /\ Range(<<>>) = {}
      /\ \A status : Range(Unreadable(status).artifacts) = {}
  BY DEF TypeOK, Range, Unreadable
<1>1. /\ Range(file.artifacts) \subseteq 1..made
      /\ \A t \in Server : Range(list[t]) \subseteq 1..made
      /\ \A t \in Server : pc[t] # "idle" =>
            Head(list[t]) \in Range(list[t]) /\ Head(list[t]) \in Artifact
  BY <1>0, ListingRange DEF Listings
<1>2. ASSUME NEW s \in Server, Load(s) PROVE Own'
  <2>1. /\ made' = made + 1 /\ made' \in Artifact /\ made' \notin 1..made
        /\ pc' = [pc EXCEPT ![s] = "loaded"] /\ UNCHANGED <<file, failed>>
    BY <1>2, LoadShape
  <2>2. PICK seq :
                /\ Listing(seq, made)
                /\ list' = [list EXCEPT ![s] = Newest(<<made'>> \o seq)]
                /\ \/ seq = file.artifacts /\ UNCHANGED <<fallback, blind>>
                   \/ /\ seq = fallback[s]
                      /\ fallback' = [fallback EXCEPT ![s] = <<made'>> \o seq]
                      /\ blind' = blind \cup {made'}
    BY <1>2, LoadShape
  <2> PICK n, all, new : n = made' /\ all = <<n>> \o seq /\ new = Newest(<<n>> \o seq)
    OBVIOUS
  <2>3. /\ list'[s] = new /\ \A t \in Server : t # s => list'[t] = list[t]
        /\ pc'[s] = "loaded" /\ \A t \in Server : t # s => pc'[t] = pc[t]
    BY <2>1, <2>2 DEF TypeOK
  <2>4. n \in Artifact /\ n = made + 1 /\ Listing(seq, made)
    BY <2>1, <2>2
  <2>5. Range(all) \subseteq {n} \cup Range(seq)
    BY <1>0, <2>4, Prepended
  <2>6. Range(new) \subseteq {n} \cup Range(seq) /\ Head(new) = n
    BY <1>0, <2>4, Prepended
  <2>7. failed' \subseteq 1..made'
    BY <1>0, <2>1 DEF Own
  <2>8. CASE seq = file.artifacts /\ UNCHANGED <<fallback, blind>>
    <3>1. \A t \in Server : t # s /\ pc[t] # "idle" /\ Head(list[t]) \notin blind =>
             Head(list[t]) \notin Range(new)
      BY <1>1, <2>1, <2>6, <2>8 DEF Own, Known
    <3>2. \A k \in failed \ blind : k \notin Range(new)
      BY <2>1, <2>6, <2>8 DEF Own, Known
    <3>3. n \notin Range(file.artifacts) /\ \A t \in Server : n \notin Range(list[t])
      BY <1>1, <2>1
    <3> QED  BY <2>1, <2>3, <2>6, <2>7, <2>8, <3>1, <3>2, <3>3 DEF Own, Known
  <2>9. CASE /\ seq = fallback[s] /\ fallback' = [fallback EXCEPT ![s] = <<made'>> \o seq]
             /\ blind' = blind \cup {made'}
    <3>1. Range(new) \subseteq blind'
      BY <2>6, <2>9 DEF Own
    <3>2. \A t \in Server : Range(fallback'[t]) \subseteq blind'
      BY <2>5, <2>9 DEF Own, TypeOK
    <3>3. blind \subseteq blind' /\ n \in blind'
      BY <2>9
    <3> QED  BY <2>1, <2>3, <2>6, <2>7, <3>1, <3>2, <3>3 DEF Own, Known
  <2> QED  BY <2>2, <2>8, <2>9
<1>3. ASSUME NEW s \in Server, Open(s) PROVE Own'
  BY <1>0, <1>3 DEF Open, Goto, Own, Known, TypeOK
<1>4. ASSUME NEW s \in Server, Write(s) PROVE Own'
  <2>1. /\ pc[s] = "opened" /\ pc'[s] = "idle" /\ UNCHANGED <<fallback, made, failed, blind>>
        /\ list'[s] = <<>>
        /\ \A t \in Server : t # s => list'[t] = list[t] /\ pc'[t] = pc[t]
    BY <1>4 DEF Write, Goto, TypeOK
  <2>2. Range(file'.artifacts) \subseteq Range(list[s])
    <3>1. CASE file' = Whole(list[s])
      BY <3>1 DEF Whole
    <3>2. CASE file' = Unreadable("garbled")
      BY <1>0, <3>2
    <3> QED  BY <1>4, <3>1, <3>2 DEF Write
  <2> QED  BY <1>0, <2>1, <2>2 DEF Own, Known
<1>5. ASSUME NEW s \in Server, SaveFails(s) PROVE Own'
  <2>1. /\ pc[s] # "idle" /\ pc'[s] = "idle" /\ UNCHANGED <<fallback, made, blind>>
        /\ list'[s] = <<>> /\ failed' = failed \cup {Head(list[s])}
        /\ \A t \in Server : t # s => list'[t] = list[t] /\ pc'[t] = pc[t]
    BY <1>5 DEF SaveFails, Goto, TypeOK
  <2>2. Range(file'.artifacts) \subseteq Range(file.artifacts)
    BY <1>0, <1>5, PartlyShape DEF SaveFails
  <2>3. failed' \subseteq 1..made'
    <3>1. Head(list[s]) \in 1..made /\ failed \subseteq 1..made
      BY <1>1, <2>1 DEF Own
    <3> QED  BY <2>1, <3>1
  <2> QED  BY <1>0, <2>1, <2>2, <2>3 DEF Own, Known
<1>6. ASSUME NEW s \in Server, Crash(s) PROVE Own'
  <2>1. /\ pc'[s] = "idle" /\ UNCHANGED <<made, blind, failed>>
        /\ list'[s] = <<>> /\ fallback'[s] = <<>>
        /\ \A t \in Server : t # s =>
              list'[t] = list[t] /\ pc'[t] = pc[t] /\ fallback'[t] = fallback[t]
    BY <1>6 DEF Crash, Goto, TypeOK
  <2>2. Range(file'.artifacts) \subseteq Range(file.artifacts)
    BY <1>0, <1>6, PartlyShape DEF Crash
  <2> QED  BY <1>0, <2>1, <2>2 DEF Own, Known
<1>7. CASE UNCHANGED vars
  BY <1>7 DEF vars, Own, Known
<1> QED  BY <1>2, <1>3, <1>4, <1>5, <1>6, <1>7 DEF Next, Exhausted

(* A list that has the recent artifacts has them with one more in front.   *)
LEMMA RecentPrepended ==
    ASSUME NEW m \in Nat, NEW n \in Artifact, n = m + 1, NEW seq, Listing(seq, m),
           NEW k \in Nat, k <= m => Recent(seq, k, m), k <= n,
           NEW new, new = Newest(<<n>> \o seq)
    PROVE  Recent(new, k, n)
<1> SUFFICES ASSUME NEW x \in k..n, n - x < Cap
             PROVE  n - x + 1 <= Len(new) /\ new[n - x + 1] = x
  BY DEF Recent
<1>1. /\ Len(new) >= 1 /\ new[1] = n
      /\ Len(new) = (IF Len(seq) + 1 < Cap THEN Len(seq) + 1 ELSE Cap)
      /\ \A i \in 1..Len(new) : i # 1 => i - 1 \in 1..Len(seq) /\ new[i] = seq[i - 1]
  BY Prepended
<1>2. Len(seq) \in Nat /\ Cap \in Nat
  BY ArtifactAssumption DEF Listing
<1>3. CASE x = n
  BY <1>1, <1>3
<1>4. CASE x # n
  <2>1. x \in k..m /\ m - x < Cap /\ k <= m
    BY <1>2, <1>4
  <2>2. m - x + 1 <= Len(seq) /\ seq[m - x + 1] = x
    BY <2>1 DEF Recent
  <2>3. n - x + 1 \in 1..Len(new) /\ n - x + 1 # 1
    BY <1>1, <1>2, <1>4, <2>1, <2>2
  <2>4. new[n - x + 1] = seq[(n - x + 1) - 1] /\ (n - x + 1) - 1 = m - x + 1
    BY <1>1, <2>3
  <2> QED  BY <2>2, <2>3, <2>4
<1> QED  BY <1>3, <1>4

(* An append that nothing disturbs keeps what the appends before it did.   *)
LEMMA UndisturbedStep ==
    ASSUME TypeOK, Listings, Undisturbed, [Next]_vars
    PROVE  Undisturbed'
<1>0. made \in Nat /\ since \in Nat
  BY ArtifactAssumption DEF TypeOK
<1>1. ASSUME NEW s \in Server, Load(s) PROVE Undisturbed'
  <2>1. /\ made' = made + 1 /\ made' \in Artifact
        /\ pc' = [pc EXCEPT ![s] = "loaded"] /\ pc[s] = "idle"
    BY <1>1, LoadShape
  <2>2. PICK seq :
                /\ Listing(seq, made)
                /\ list' = [list EXCEPT ![s] = Newest(<<made'>> \o seq)]
                /\ file.status = "whole" => seq = file.artifacts
    BY <1>1, LoadShape
  <2>3. CASE ~Idle
    BY <1>0, <1>1, <2>1, <2>3 DEF Load, Idle, Undisturbed
  <2>4. CASE Idle
    <3> PICK m, n, k, new : m = made /\ n = made' /\ k = since /\ new = Newest(<<n>> \o seq)
      OBVIOUS
    <3>1. since' = k /\ list'[s] = new /\ k <= n
      BY <1>0, <1>1, <2>1, <2>2, <2>4 DEF Load, Idle, Undisturbed, TypeOK
    <3>2. k <= m => Recent(seq, k, m)
      BY <2>2, <2>4 DEF Undisturbed
    <3>3. m \in Nat /\ n \in Artifact /\ n = m + 1 /\ Listing(seq, m) /\ k \in Nat
      BY <1>0, <2>1, <2>2
    <3>4. Recent(new, k, n)
      BY <3>1, <3>2, <3>3, RecentPrepended
    <3>5. pc'[s] = "loaded" /\ \A t \in Server : t # s => pc'[t] = "idle"
      BY <2>1, <2>4 DEF Idle, TypeOK
    <3>6. ~Idle'
      BY <3>5 DEF Idle
    <3>7. since' <= made' + 1
      BY <1>0, <3>1, <3>3
    <3>8. \A t \in Server : pc'[t] # "idle" =>
              /\ \A u \in Server : u # t => pc'[u] = "idle"
              /\ Recent(list'[t], since', made')
              /\ pc'[t] = "opened" => file'.status = "empty"
      BY <3>1, <3>4, <3>5
    <3> QED  BY <3>6, <3>7, <3>8 DEF Undisturbed
  <2> QED  BY <2>3, <2>4
<1>2. ASSUME NEW s \in Server, Open(s) PROVE Undisturbed'
  <2>1. /\ pc[s] = "loaded" /\ pc'[s] = "opened" /\ file'.status = "empty"
        /\ \A t \in Server : t # s => pc'[t] = pc[t]
        /\ UNCHANGED <<list, made, since>>
    BY <1>2 DEF Open, Goto, TypeOK, Unreadable
  <2>2. ~Idle'
    BY <2>1 DEF Idle
  <2> QED  BY <2>1, <2>2 DEF Undisturbed
<1>3. ASSUME NEW s \in Server, Write(s) PROVE Undisturbed'
  <2>1. /\ pc[s] = "opened" /\ pc'[s] = "idle"
        /\ \A t \in Server : t # s => pc'[t] = pc[t]
        /\ UNCHANGED <<made, since>>
    BY <1>3 DEF Write, Goto, TypeOK
  <2>2. CASE since <= made
    <3>1. /\ \A t \in Server : pc'[t] = "idle"
          /\ Recent(list[s], since, made) /\ file.status = "empty"
      BY <2>1, <2>2 DEF Undisturbed
    <3>2. file'.status = "whole" /\ file'.artifacts = list[s]
      BY <1>3, <3>1 DEF Write, Whole
    <3> QED  BY <2>1, <2>2, <3>1, <3>2 DEF Undisturbed
  <2>3. CASE ~(since <= made)
    BY <2>1, <2>3 DEF Undisturbed
  <2> QED  BY <2>2, <2>3
<1>4. ASSUME since' = made + 1, made' = made PROVE Undisturbed'
  BY <1>0, <1>4 DEF Undisturbed
<1>5. ASSUME NEW s \in Server, SaveFails(s) PROVE Undisturbed'
  BY <1>4, <1>5 DEF SaveFails
<1>6. ASSUME NEW s \in Server, Crash(s) PROVE Undisturbed'
  <2>1. CASE pc[s] # "idle"
    BY <1>4, <1>6, <2>1 DEF Crash
  <2>2. CASE pc[s] = "idle"
    <3>1. /\ pc' = pc /\ file' = file /\ UNCHANGED <<made, since>>
          /\ \A t \in Server : t # s => list'[t] = list[t]
      BY <1>6, <2>2, PartlyShape DEF Crash, Goto, TypeOK
    <3>2. Idle' <=> Idle
      BY <3>1 DEF Idle
    <3> QED  BY <2>2, <3>1, <3>2 DEF Undisturbed
  <2> QED  BY <2>1, <2>2
<1>7. CASE UNCHANGED vars
  BY <1>7 DEF vars, Undisturbed, Idle
<1> QED  BY <1>1, <1>2, <1>3, <1>5, <1>6, <1>7 DEF Next, Exhausted

-----------------------------------------------------------------------------
(* Theorems.                                                               *)

(* The invariant holds at first, and every step keeps it.                  *)
LEMMA AppendInvHolds == Spec => []AppendInv
<1>1. Init => AppendInv
  <2> SUFFICES ASSUME Init PROVE AppendInv
    OBVIOUS
  <2>1. \A m : Listing(<<>>, m)
    BY DEF Listing
  <2>2. TypeOK
    BY ArtifactAssumption DEF Init, TypeOK, File, Unreadable
  <2>3. Listings
    BY <2>1, ArtifactAssumption DEF Init, Listings, Unreadable
  <2>4. Own
    BY DEF Init, Own, Known, Range, Unreadable
  <2>5. Undisturbed
    BY DEF Init, Undisturbed
  <2> QED  BY <2>2, <2>3, <2>4, <2>5 DEF AppendInv
<1>2. AppendInv /\ [Next]_vars => AppendInv'
  BY ListingsStep, OwnStep, UndisturbedStep DEF AppendInv
<1> QED  BY <1>1, <1>2, PTL DEF Spec

(* TypeOK: the types, and the file never holds more than Cap artifacts.    *)
THEOREM TypeCorrect == Spec => []TypeOK
<1>1. AppendInv => TypeOK
  BY DEF AppendInv
<1> QED  BY <1>1, AppendInvHolds, PTL

(* NewestFirst: the file lists the newest artifact first and none twice,   *)
(* whatever the processes that share it overwrite, damage or lose.         *)
THEOREM NewestFirstHolds == Spec => []NewestFirst
<1>1. AppendInv => NewestFirst
  BY DEF AppendInv, Listings, Listing, NewestFirst
<1> QED  BY <1>1, AppendInvHolds, PTL

(* KeepsUndisturbed: the appends since the last one that failed, died or   *)
(* overlapped with another are at the front of the file, up to Cap.        *)
THEOREM KeepsUndisturbedHolds == Spec => []KeepsUndisturbed
<1>1. AppendInv => KeepsUndisturbed
  BY DEF AppendInv, Undisturbed, Recent, KeepsUndisturbed
<1> QED  BY <1>1, AppendInvHolds, PTL

(* FailedOnlyFromFallback: an artifact whose append threw turns up in the  *)
(* file only if it was made when there was no file to read.                *)
THEOREM FailedOnlyFromFallbackHolds == Spec => []FailedOnlyFromFallback
<1>1. AppendInv => FailedOnlyFromFallback
  BY DEF AppendInv, Own, Known, FailedOnlyFromFallback
<1> QED  BY <1>1, AppendInvHolds, PTL
=============================================================================

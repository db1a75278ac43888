---------------------------- MODULE MemoryProofs ----------------------------
(***************************************************************************)
(* MemoryInv is an invariant of MemoryWorker, for any number of episodes,  *)
(* lessons and conversations, of calls that overtake each other, and any   *)
(* bounds; what the memory promises of forgetting, recalling, pausing,     *)
(* deleting and indexing follows from it.                                  *)
(***************************************************************************)
EXTENDS MemoryInvariant, SequenceTheorems, TLAPS

-----------------------------------------------------------------------------
(* Rows and links.                                                          *)

LEMMA LinkShape ==
  ASSUME NEW l \in Links
  PROVE  /\ l[1] \in Sources
         /\ \/ Len(l) = 1 /\ l = SourceLink(l[1])
            \/ Len(l) = 2 /\ l[1] \in Episodes /\ l[2] \in Nat /\ l = EpisodeLink(l[1], l[2])
<1>1. CASE l \in {SourceLink(s) : s \in Sources}
  BY <1>1 DEF SourceLink
<1>2. CASE l \in Episodes \X Nat
  BY <1>2 DEF EpisodeLink, Sources
<1> QED
  BY <1>1, <1>2 DEF Links

LEMMA LinksAreLinks ==
  /\ \A s \in Sources : SourceLink(s) \in Links /\ Len(SourceLink(s)) = 1 /\ SourceLink(s)[1] = s
  /\ \A e \in Episodes, n \in Nat :
       /\ EpisodeLink(e, n) \in Links /\ Len(EpisodeLink(e, n)) = 2
       /\ EpisodeLink(e, n)[1] = e /\ EpisodeLink(e, n)[2] = n
  BY DEF Links, SourceLink, EpisodeLink

LEMMA RowParts ==
  ASSUME NEW row \in MemoryRow
  PROVE  /\ row.status \in Statuses /\ row.act \in Nat /\ row.revs \in Seq(RevisionRow)
         /\ Cur(row) \in Nat /\ Cur(row) = Len(row.revs) /\ DOMAIN row.revs = 1..Cur(row)
         /\ \A n \in 1..Cur(row) :
              /\ row.revs[n] \in RevisionRow
              /\ row.revs[n].text \in Texts /\ row.revs[n].review \in Reviews
              /\ row.revs[n].links \subseteq Links /\ row.revs[n].from \subseteq Sources
              /\ row.revs[n].why \in Whys
         /\ row = [status |-> row.status, act |-> row.act, revs |-> row.revs]
<1>1. row.revs \in Seq(RevisionRow) /\ row.status \in Statuses /\ row.act \in Nat
      /\ row = [status |-> row.status, act |-> row.act, revs |-> row.revs]
  BY DEF MemoryRow
<1>2. Cur(row) \in Nat /\ Cur(row) = Len(row.revs) /\ DOMAIN row.revs = 1..Cur(row)
  BY <1>1 DEF Cur
<1>3. \A n \in 1..Cur(row) : row.revs[n] \in RevisionRow
  BY <1>1, <1>2
<1>4. \A r \in RevisionRow : /\ r.text \in Texts /\ r.review \in Reviews
                             /\ r.links \subseteq Links /\ r.from \subseteq Sources
                             /\ r.why \in Whys
  BY DEF RevisionRow
<1> QED
  BY <1>1, <1>2, <1>3, <1>4

\* A new revision waits for review.
LEMMA NewRevision ==
  ASSUME NEW text \in Texts, NEW links \in SUBSET Links, NEW from \in SUBSET Sources,
         NEW why \in Whys
  PROVE  /\ Revision(text, links, from, why) \in RevisionRow
         /\ Revision(text, links, from, why).text = text
         /\ Revision(text, links, from, why).links = links
         /\ Revision(text, links, from, why).from = from
         /\ Revision(text, links, from, why).review = "candidate"
  BY DEF Revision, RevisionRow, Reviews

-----------------------------------------------------------------------------
(* What a step makes of a row.                                              *)

RowStands(mem, src, m, row) == RowFits(m, row) /\ Rests(mem, src, row)

\* The same revisions, but for what the user has said of them.
SameEvidence(row, new) ==
  /\ Cur(new) = Cur(row)
  /\ \A n \in 1..Cur(row) : /\ new.revs[n].text = row.revs[n].text
                             /\ new.revs[n].links = row.revs[n].links
                             /\ new.revs[n].from = row.revs[n].from

LEMMA SameEvidenceStands ==
  ASSUME NEW mem, NEW src, NEW m \in Memories, NEW row \in MemoryRow,
         RowStands(mem, src, m, row), row.status # "absent",
         NEW new \in MemoryRow, SameEvidence(row, new), new.status # "absent",
         new.act \in 0..Cur(row)
  PROVE  /\ RowStands(mem, src, m, new) /\ Grown(row, new)
         /\ \A tmb : CitesNothingForgotten(row, tmb) => CitesNothingForgotten(new, tmb)
<1>0. Cur(row) \in Nat /\ Cur(row) > 0 /\ Cur(new) = Cur(row)
  BY RowParts DEF RowStands, RowFits, Written, SameEvidence
<1>1. Latest(new).links = Latest(row).links
  BY <1>0 DEF Latest, SameEvidence
<1>2. Written(new)
  BY <1>0 DEF Written
<1>3. m \in Episodes => SaysItsSource(m, new)
  BY DEF RowStands, RowFits, SaysItsSource, SameEvidence
<1>4. m \in Lessons => CitesWhatItSays(new)
  BY <1>1 DEF RowStands, RowFits, CitesWhatItSays, SameEvidence
<1>5. Rests(mem, src, new) /\ Grown(row, new)
  BY <1>0 DEF RowStands, Rests, SameEvidence, Grown
<1>6. \A tmb : CitesNothingForgotten(row, tmb) => CitesNothingForgotten(new, tmb)
  BY DEF CitesNothingForgotten, SameEvidence
<1> QED
  BY <1>2, <1>3, <1>4, <1>5, <1>6 DEF RowStands, RowFits

\* The row in another status.
LEMMA StatusIs ==
  ASSUME NEW row \in MemoryRow, NEW s \in Statuses
  PROVE  LET new == [row EXCEPT !.status = s]
         IN  /\ new \in MemoryRow /\ new.status = s /\ new.act = row.act /\ new.revs = row.revs
             /\ SameEvidence(row, new)
<1> DEFINE new == [row EXCEPT !.status = s]
<1>1. new \in MemoryRow /\ new.status = s /\ new.act = row.act /\ new.revs = row.revs
  BY RowParts DEF MemoryRow
<1> HIDE DEF new
<1>2. SameEvidence(row, new)
  BY <1>1 DEF SameEvidence, Cur
<1> QED
  BY <1>1, <1>2 DEF new

\* One revision gets another review.
LEMMA ReviewIs ==
  ASSUME NEW row \in MemoryRow, NEW k \in 1..Cur(row), NEW review \in Reviews
  PROVE  LET revs == [row.revs EXCEPT ![k].review = review]
         IN  /\ revs \in Seq(RevisionRow) /\ Len(revs) = Cur(row)
             /\ \A n \in 1..Cur(row) :
                  /\ revs[n].text = row.revs[n].text
                  /\ revs[n].links = row.revs[n].links
                  /\ revs[n].from = row.revs[n].from
                  /\ revs[n].review = IF n = k THEN review ELSE row.revs[n].review
                  /\ n # k => revs[n] = row.revs[n]
<1> DEFINE rev == [row.revs[k] EXCEPT !.review = review]
           revs == [row.revs EXCEPT ![k] = rev]
<1>1. row.revs[k] \in RevisionRow
  BY RowParts
<1>2. /\ rev \in RevisionRow
      /\ rev.text = row.revs[k].text /\ rev.links = row.revs[k].links
      /\ rev.from = row.revs[k].from /\ rev.review = review
  BY <1>1 DEF RevisionRow
<1>3. [row.revs EXCEPT ![k].review = review] = revs
  BY Zenon
<1>4. row.revs \in Seq(RevisionRow) /\ Cur(row) = Len(row.revs) /\ Cur(row) \in Nat
  BY RowParts
<1> HIDE DEF rev
<1>5. /\ revs \in Seq(RevisionRow) /\ Len(revs) = Cur(row)
      /\ \A n \in 1..Cur(row) : revs[n] = IF n = k THEN rev ELSE row.revs[n]
  BY <1>2, <1>4
<1> HIDE DEF revs
<1>6. \A n \in 1..Cur(row) :
         /\ revs[n].text = row.revs[n].text
         /\ revs[n].links = row.revs[n].links
         /\ revs[n].from = row.revs[n].from
         /\ revs[n].review = IF n = k THEN review ELSE row.revs[n].review
         /\ n # k => revs[n] = row.revs[n]
  BY <1>2, <1>5
<1> QED
  BY <1>3, <1>5, <1>6, Zenon

\* A row in a status, with a version in use, whose newest revision has been reviewed.
LEMMA ReviewedRow ==
  ASSUME NEW row \in MemoryRow, Cur(row) > 0, NEW s \in Statuses, NEW a \in 0..Cur(row),
         NEW review \in Reviews,
         NEW new, new = [status |-> s, act |-> a,
                         revs |-> [row.revs EXCEPT ![Cur(row)].review = review]]
  PROVE  /\ new \in MemoryRow /\ new.status = s /\ new.act = a /\ SameEvidence(row, new)
         /\ \A n \in 1..Cur(row) :
              /\ new.revs[n].review = IF n = Cur(row) THEN review ELSE row.revs[n].review
              /\ n # Cur(row) => new.revs[n] = row.revs[n]
<1> DEFINE revs == [row.revs EXCEPT ![Cur(row)].review = review]
<1>0. new = [status |-> s, act |-> a, revs |-> revs]
  OBVIOUS
<1>1. Cur(row) \in Nat /\ Cur(row) \in 1..Cur(row) /\ a \in Nat
  BY RowParts
<1>2. /\ revs \in Seq(RevisionRow) /\ Len(revs) = Cur(row)
      /\ \A n \in 1..Cur(row) :
           /\ revs[n].text = row.revs[n].text
           /\ revs[n].links = row.revs[n].links
           /\ revs[n].from = row.revs[n].from
           /\ revs[n].review = IF n = Cur(row) THEN review ELSE row.revs[n].review
           /\ n # Cur(row) => revs[n] = row.revs[n]
  BY <1>1, ReviewIs
<1> HIDE DEF revs
<1>3. new \in MemoryRow /\ new.status = s /\ new.act = a /\ new.revs = revs
  BY <1>0, <1>1, <1>2 DEF MemoryRow
<1>4. SameEvidence(row, new)
  BY <1>2, <1>3 DEF SameEvidence, Cur
<1> QED
  BY <1>2, <1>3, <1>4

\* A new revision, on the evidence of the one before it.
Longer(m, row, new) ==
  /\ Cur(new) = Cur(row) + 1
  /\ \A n \in 1..Cur(row) : new.revs[n] = row.revs[n]
  /\ Latest(new).links = Latest(row).links
  /\ m \in Episodes => Latest(new).from \subseteq {m}
  /\ m \in Lessons => \A s \in Latest(new).from : \E l \in Latest(row).links : Cites(l, s)

LEMMA LongerStands ==
  ASSUME NEW mem, NEW src, NEW m \in Memories, NEW row \in MemoryRow,
         RowStands(mem, src, m, row), row.status # "absent",
         NEW new \in MemoryRow, Longer(m, row, new), new.status # "absent",
         new.act \in 0..Cur(new)
  PROVE  /\ RowStands(mem, src, m, new) /\ Grown(row, new)
         /\ \A tmb : CitesNothingForgotten(row, tmb) => CitesNothingForgotten(new, tmb)
<1> DEFINE k == Cur(row)
<1>0. /\ k \in Nat /\ k > 0 /\ Cur(new) = k + 1 /\ k \in 1..k
      /\ \A n \in 1..(k + 1) : n \in 1..k \/ n = k + 1
  BY RowParts DEF RowStands, RowFits, Written, Longer
<1>1. /\ \A n \in 1..k : new.revs[n] = row.revs[n]
      /\ new.revs[k + 1] = Latest(new) /\ Latest(new).links = Latest(row).links
      /\ Latest(row) = row.revs[k]
  BY <1>0 DEF Longer, Latest
<1>2. Written(new)
  BY <1>0 DEF Written
<1>3. m \in Episodes => SaysItsSource(m, new)
  BY <1>0, <1>1 DEF RowStands, RowFits, SaysItsSource, Longer
<1>4. m \in Lessons => CitesWhatItSays(new)
  BY <1>0, <1>1 DEF RowStands, RowFits, CitesWhatItSays, Longer
<1>5. Rests(mem, src, new) /\ Grown(row, new)
  BY <1>0, <1>1 DEF RowStands, Rests, Grown
<1>6. \A tmb : CitesNothingForgotten(row, tmb) => CitesNothingForgotten(new, tmb)
  BY <1>0, <1>1 DEF CitesNothingForgotten
<1> QED
  BY <1>2, <1>3, <1>4, <1>5, <1>6 DEF RowStands, RowFits

EditFits(m, row, text, from, why) ==
  /\ m \in Memories /\ row \in MemoryRow /\ text \in Texts /\ why \in Whys
  /\ Cur(row) > 0 /\ from \in SUBSET Sources
  /\ m \in Episodes => from \subseteq {m}
  /\ m \in Lessons => \A s \in from : \E l \in Latest(row).links : Cites(l, s)

LEMMA EditedIs ==
  ASSUME NEW m, NEW row, NEW text, NEW from, NEW why, EditFits(m, row, text, from, why)
  PROVE  LET new == Edited(row, text, from, why)
         IN  /\ new \in MemoryRow /\ new.status = row.status /\ new.act = row.act
             /\ Latest(new).text = text /\ Latest(new).from = from /\ Longer(m, row, new)
<1> DEFINE k == Cur(row)
           rev == Revision(text, Latest(row).links, from, why)
           revs == Append(row.revs, rev)
           new == [status |-> row.status, act |-> row.act, revs |-> revs]
<1>0. m \in Memories /\ row \in MemoryRow /\ text \in Texts /\ why \in Whys
  BY DEF EditFits
<1>1. k \in 1..Cur(row) /\ k \in Nat /\ row.revs \in Seq(RevisionRow) /\ Len(row.revs) = k
  BY <1>0, RowParts DEF EditFits
<1>2. Latest(row).links \in SUBSET Links
  BY <1>0, <1>1, RowParts DEF Latest
<1>3. /\ rev \in RevisionRow /\ rev.text = text /\ rev.links = Latest(row).links
      /\ rev.from = from
  BY <1>0, <1>2, NewRevision DEF EditFits
<1>4. Edited(row, text, from, why) = new
  <2>1. Edited(row, text, from, why) = [row EXCEPT !.revs = revs]
    BY DEF Edited
  <2> HIDE DEF revs
  <2>2. [row EXCEPT !.revs = revs] = new
    BY <1>0 DEF MemoryRow
  <2> QED
    BY <2>1, <2>2
<1> HIDE DEF rev
<1>5. /\ revs \in Seq(RevisionRow) /\ Len(revs) = k + 1 /\ revs[k + 1] = rev
      /\ \A n \in 1..k : revs[n] = row.revs[n]
  BY <1>1, <1>3
<1> HIDE DEF revs
<1>6. /\ new \in MemoryRow /\ Cur(new) = k + 1 /\ new.act = row.act
      /\ new.status = row.status /\ new.revs = revs /\ Latest(new) = rev
  BY <1>0, <1>1, <1>5, RowParts DEF MemoryRow, Cur, Latest
<1> HIDE DEF new
<1>7. Longer(m, row, new)
  BY <1>3, <1>5, <1>6 DEF Longer, EditFits
<1> QED
  BY <1>3, <1>4, <1>6, <1>7

\* A version that was in use stays what it was.
LEMMA LongerUse ==
  ASSUME NEW m, NEW row \in MemoryRow, Written(row), NEW new, Longer(m, row, new),
         new.status = "active" => row.status = "active" /\ new.act = row.act,
         UsedAsReviewed(row)
  PROVE  UsedAsReviewed(new)
<1> SUFFICES ASSUME new.status = "active" PROVE UsedAsReviewed(new)
  BY DEF UsedAsReviewed
<1>1. row.act # 0 /\ row.act \in 1..Cur(row)
  BY RowParts DEF UsedAsReviewed, Written
<1> QED
  BY <1>1 DEF UsedAsReviewed, Longer

\* A memory with its first revision.
FirstFits(mem, src, m, rev) ==
  /\ m \in Memories /\ rev \in RevisionRow
  /\ m \in Episodes => rev.links = {SourceLink(m)} /\ rev.from \subseteq {m}
  /\ m \in Lessons => \A o \in rev.from : \E l \in rev.links : Cites(l, o)
  /\ \A l \in rev.links : /\ src[l[1]].access # "absent"
                          /\ Len(l) = 2 => mem[l[1]].status # "absent"

LEMMA FirstRowStands ==
  ASSUME NEW mem, NEW src, NEW m, NEW rev, FirstFits(mem, src, m, rev),
         NEW s \in Statuses \ {"absent"}, NEW a \in 0..1,
         NEW new, new = [status |-> s, act |-> a, revs |-> <<rev>>]
  PROVE  /\ new \in MemoryRow /\ Cur(new) = 1 /\ Latest(new) = rev /\ new.status = s
         /\ new.act = a /\ RowStands(mem, src, m, new) /\ Grown(Absent, new)
         /\ \A tmb : (\A l \in rev.links : ConversationOf[l[1]] \notin tmb)
                       => CitesNothingForgotten(new, tmb)
<1>1. <<rev>> \in Seq(RevisionRow) /\ Len(<<rev>>) = 1 /\ <<rev>>[1] = rev
  BY DEF FirstFits
<1>2. /\ new \in MemoryRow /\ Cur(new) = 1 /\ Latest(new) = rev /\ new.status = s
      /\ new.act = a /\ \A n \in 1..Cur(new) : new.revs[n] = rev
  BY <1>1 DEF MemoryRow, Cur, Latest
<1>3. Written(new)
  BY <1>2 DEF Written
<1>4. m \in Episodes => SaysItsSource(m, new)
  BY <1>2 DEF FirstFits, SaysItsSource
<1>5. m \in Lessons => CitesWhatItSays(new)
  BY <1>2 DEF FirstFits, CitesWhatItSays
<1>6. Rests(mem, src, new)
  BY <1>2 DEF FirstFits, Rests
<1>7. Grown(Absent, new)
  BY <1>2 DEF Grown, Absent, Cur
<1>8. \A tmb : (\A l \in rev.links : ConversationOf[l[1]] \notin tmb)
                 => CitesNothingForgotten(new, tmb)
  BY <1>2 DEF CitesNothingForgotten
<1> QED
  BY <1>2, <1>3, <1>4, <1>5, <1>6, <1>7, <1>8 DEF RowStands, RowFits
-----------------------------------------------------------------------------
(* Evidence.                                                                *)

Shaped(mem) ==
  /\ mem \in [Memories -> MemoryRow]
  /\ \A e \in Episodes : Written(mem[e]) /\ SaysItsSource(e, mem[e])

\* Evidence that holds comes from no conversation that has been forgotten.
LEMMA EpisodeEvidence ==
  ASSUME NEW mem, NEW src, NEW tmb, Shaped(mem), NEW e \in Episodes, NEW n,
         EpisodeHolds(mem, src, tmb, e, n)
  PROVE  ConversationOf[e] \notin tmb /\ mem[e].status = "active" /\ n \in 1..Cur(mem[e])
<1> DEFINE row == mem[e]
<1>1. e \in Memories /\ row \in MemoryRow /\ Written(row) /\ SaysItsSource(e, row)
  BY DEF Shaped, Memories
<1>2. n \in 1..Cur(row) /\ row.status = "active"
  BY <1>1, RowParts DEF EpisodeHolds, Sound, Written
<1>3. SourceLink(e) \in row.revs[n].links
  BY <1>1, <1>2 DEF SaysItsSource
<1>4. Len(SourceLink(e)) = 1 /\ SourceLink(e)[1] = e
  BY LinksAreLinks DEF Sources
<1> QED
  BY <1>2, <1>3, <1>4 DEF EpisodeHolds, RestsOnSources, SourceHolds

LEMMA HoldingEvidence ==
  ASSUME NEW mem, NEW src, NEW tmb, Shaped(mem), NEW l \in Links,
         EvidenceHolds(mem, src, tmb, l)
  PROVE  ConversationOf[l[1]] \notin tmb
<1>1. CASE Len(l) = 1
  BY <1>1 DEF EvidenceHolds, SourceHolds
<1>2. CASE Len(l) = 2 /\ l[1] \in Episodes
  <2>1. EpisodeHolds(mem, src, tmb, l[1], l[2])
    BY <1>2 DEF EvidenceHolds
  <2> QED
    BY <1>2, <2>1, EpisodeEvidence
<1> QED
  BY <1>1, <1>2, LinkShape

LEMMA EligibleEpisode ==
  ASSUME NEW mem, NEW src, NEW tmb, Shaped(mem), NEW e \in Episodes, NEW n,
         EligibleIn(mem, src, tmb, e, n)
  PROVE  mem[e].status = "active" /\ ConversationOf[e] \notin tmb
<1>1. EpisodeHolds(mem, src, tmb, e, n)
  BY DEF EligibleIn, EpisodeHolds, RestsOnSources, EvidenceHolds
<1> QED
  BY <1>1, EpisodeEvidence

LEMMA UnsupportedIs ==
  ASSUME NEW mem, NEW src, NEW tmb, NEW x
  PROVE  \A n, l : <<n, l>> \in Unsupported(mem, src, tmb, x) <=>
           /\ n \in 1..Cur(mem[x]) /\ l \in mem[x].revs[n].links
           /\ ~EvidenceHolds(mem, src, tmb, l)
  BY DEF Unsupported

-----------------------------------------------------------------------------
(* What is withdrawn from a row that may not be any more what it was.       *)

\* What is invalid in a revision is invalid in every earlier one that cites it.
Uniform(row, invalid) ==
  \A n, k \in 1..Cur(row) : \A l \in row.revs[n].links :
    n <= k /\ <<k, l>> \in invalid => <<n, l>> \in invalid

\* It is what is invalid of this row, with all the revisions it is invalid in.
Exact(row, invalid) ==
  \A p \in invalid :
    /\ p = <<p[1], p[2]>> /\ p[1] \in 1..Cur(row) /\ p[2] \in row.revs[p[1]].links
    /\ \A n \in 1..Cur(row) : p[2] \in row.revs[n].links => <<n, p[2]>> \in invalid

LEMMA StrippedIs ==
  ASSUME NEW row \in MemoryRow, NEW invalid
  PROVE  LET new == Stripped(row, invalid)
         IN  /\ new \in Seq(RevisionRow) /\ Len(new) = Cur(row)
             /\ \A n \in 1..Cur(row) :
                  /\ new[n].links = {l \in row.revs[n].links : <<n, l>> \notin invalid}
                  /\ n \in Affected(invalid) => new[n].text = "blank" /\ new[n].from = {}
                  /\ n \notin Affected(invalid) =>
                       /\ new[n].links = row.revs[n].links
                       /\ new[n].text = row.revs[n].text
                       /\ new[n].review = row.revs[n].review
                       /\ new[n].from = row.revs[n].from
<1> DEFINE new == Stripped(row, invalid)
           rev(n) == [row.revs[n] EXCEPT !.links = {l \in @ : <<n, l>> \notin invalid}]
<1>1. /\ Cur(row) \in Nat
      /\ \A n \in 1..Cur(row) : row.revs[n] \in RevisionRow /\ row.revs[n].links \subseteq Links
  BY RowParts
<1>2. /\ DOMAIN new = 1..Cur(row) /\ new = [n \in 1..Cur(row) |-> new[n]]
      /\ \A n \in 1..Cur(row) : new[n] = IF n \in Affected(invalid) THEN Blank(rev(n)) ELSE rev(n)
  BY DEF Stripped
<1> HIDE DEF new
<1>3. ASSUME NEW n \in 1..Cur(row)
      PROVE  /\ new[n] \in RevisionRow
             /\ new[n].links = {l \in row.revs[n].links : <<n, l>> \notin invalid}
             /\ n \in Affected(invalid) => new[n].text = "blank" /\ new[n].from = {}
             /\ n \notin Affected(invalid) =>
                  /\ new[n].links = row.revs[n].links
                  /\ new[n].text = row.revs[n].text
                  /\ new[n].review = row.revs[n].review
                  /\ new[n].from = row.revs[n].from
  <2> DEFINE r == row.revs[n]
             S == {l \in r.links : <<n, l>> \notin invalid}
  <2>1. S \subseteq Links /\ (n \notin Affected(invalid) => S = r.links)
    <3>1. \A l : <<n, l>> \in invalid => n \in Affected(invalid)
      <4> SUFFICES ASSUME NEW l, <<n, l>> \in invalid PROVE n \in Affected(invalid)
        OBVIOUS
      <4>1. <<n, l>>[1] = n
        OBVIOUS
      <4> QED
        BY <4>1 DEF Affected
    <3> QED
      BY <1>1, <3>1
  <2>2. r \in RevisionRow
    BY <1>1
  <2> HIDE DEF S
  <2>3. /\ [r EXCEPT !.links = S] \in RevisionRow
        /\ [r EXCEPT !.links = S].links = S /\ [r EXCEPT !.links = S].text = r.text
        /\ [r EXCEPT !.links = S].review = r.review /\ [r EXCEPT !.links = S].from = r.from
    BY <2>1, <2>2 DEF RevisionRow
  <2>4. rev(n) = [r EXCEPT !.links = S]
    BY Zenon DEF S
  <2> HIDE DEF rev
  <2>5. /\ Blank(rev(n)) \in RevisionRow
        /\ Blank(rev(n)).links = S /\ Blank(rev(n)).text = "blank" /\ Blank(rev(n)).from = {}
    BY <2>3, <2>4 DEF Blank, RevisionRow, Texts, Reviews
  <2>6. new[n] = IF n \in Affected(invalid) THEN Blank(rev(n)) ELSE rev(n)
    BY <1>2
  <2>7. CASE n \in Affected(invalid)
    BY <2>5, <2>6, <2>7 DEF S
  <2>8. CASE n \notin Affected(invalid)
    BY <2>1, <2>3, <2>4, <2>6, <2>8 DEF S
  <2> QED
    BY <2>7, <2>8
<1>4. new \in Seq(RevisionRow) /\ Len(new) = Cur(row)
  BY <1>1, <1>2, <1>3
<1> QED
  BY <1>3, <1>4 DEF new

\* What is left of a lesson cites what it says, and only what is left of its
\* evidence: a version in use is suspended when it is affected, because the
\* newest is affected with it.
WithdrawalFits(mem, src, x, read, row, invalid) ==
  /\ x \in Lessons /\ row \in MemoryRow /\ RowStands(mem, src, x, row)
  /\ read \in MemoryRow /\ Written(read) /\ read.status # "absent" /\ row.status # "absent"
  /\ Cur(read) <= Cur(row) /\ Uniform(row, invalid) /\ ~Clashes(read, row, invalid)
  /\ read = row => Exact(row, invalid)

LeftCited(row, new, invalid) ==
  \A n \in 1..Cur(new) : \A l \in new.revs[n].links :
    \E k \in 1..Cur(row) : l \in row.revs[k].links /\ <<k, l>> \notin invalid

LEMMA KeepsNewest ==
  ASSUME NEW mem, NEW src, NEW x, NEW read, NEW row, NEW invalid,
         WithdrawalFits(mem, src, x, read, row, invalid), Cur(read) \notin Affected(invalid)
  PROVE  LET new == Withdrawn(read, row, invalid)
         IN  /\ new \in MemoryRow /\ new.status = row.status
             /\ RowStands(mem, src, x, new) /\ Grown(row, new) /\ LeftCited(row, new, invalid)
             /\ read = row /\ UsedAsReviewed(row) => UsedAsReviewed(new)
<1> DEFINE kept == Stripped(row, invalid)
           new == [status |-> row.status, act |-> row.act, revs |-> kept]
           k == Cur(row)
<1>1. /\ x \in Memories /\ row \in MemoryRow /\ RowStands(mem, src, x, row) /\ row.status # "absent"
      /\ k \in Nat /\ k \in 1..k /\ row.act \in 0..k
  BY RowParts DEF WithdrawalFits, RowStands, RowFits, Written, Memories
<1>2. /\ kept \in Seq(RevisionRow) /\ Len(kept) = k
      /\ \A n \in 1..k :
           /\ kept[n].links = {l \in row.revs[n].links : <<n, l>> \notin invalid}
           /\ n \in Affected(invalid) => kept[n].text = "blank" /\ kept[n].from = {}
           /\ n \notin Affected(invalid) => /\ kept[n].links = row.revs[n].links
                                            /\ kept[n].text = row.revs[n].text
                                            /\ kept[n].review = row.revs[n].review
                                            /\ kept[n].from = row.revs[n].from
  BY <1>1, StrippedIs
<1>3. Withdrawn(read, row, invalid) = new
  <2>1. Withdrawn(read, row, invalid) = [row EXCEPT !.revs = kept]
    BY DEF Withdrawn
  <2> HIDE DEF kept
  <2>2. [row EXCEPT !.revs = kept] = new
    BY <1>1 DEF MemoryRow
  <2> QED
    BY <2>1, <2>2
<1> HIDE DEF kept
<1>4. /\ new \in MemoryRow /\ Cur(new) = k /\ new.revs = kept
      /\ new.status = row.status /\ new.act = row.act /\ Latest(new) = kept[k]
  BY <1>1, <1>2, RowParts DEF MemoryRow, Cur, Latest
<1> HIDE DEF new
<1>5. Written(new)
  BY <1>1, <1>4 DEF Written
<1>6. CitesWhatItSays(new)
  <2>1. ASSUME NEW n \in 1..k, n \notin Affected(invalid), row.revs[n].text # "blank"
        PROVE  kept[n].links \subseteq kept[k].links
    <3>1. row.revs[n].links \subseteq row.revs[k].links
      BY <1>1, <2>1 DEF RowStands, RowFits, CitesWhatItSays, Latest, WithdrawalFits
    <3>2. ASSUME NEW l \in row.revs[n].links, <<k, l>> \in invalid PROVE FALSE
      <4>1. <<n, l>> \in invalid
        BY <1>1, <3>2 DEF WithdrawalFits, Uniform
      <4>2. <<n, l>>[1] = n
        OBVIOUS
      <4> QED
        BY <2>1, <4>1, <4>2 DEF Affected
    <3> QED
      BY <1>1, <1>2, <3>1, <3>2
  <2>2. ASSUME NEW n \in 1..k
        PROVE  \A s \in kept[n].from : \E l \in kept[n].links : Cites(l, s)
    BY <1>1, <1>2 DEF RowStands, RowFits, CitesWhatItSays, WithdrawalFits
  <2> QED
    BY <1>2, <1>4, <2>1, <2>2 DEF CitesWhatItSays
<1>7. x \notin Episodes
  BY KindsAreDisjoint DEF WithdrawalFits
<1>2a. \A n \in 1..k : kept[n].links \subseteq row.revs[n].links
  BY <1>2
<1>8. Rests(mem, src, new)
  BY <1>1, <1>2a, <1>4 DEF Rests, RowStands
<1>9. Grown(row, new)
  BY <1>1, <1>2a, <1>4 DEF Grown
<1>10. LeftCited(row, new, invalid)
  BY <1>2, <1>4 DEF LeftCited
<1>11. ASSUME read = row, UsedAsReviewed(row), row.status = "active" PROVE UsedAsReviewed(new)
  <2>1. row.act \in 1..k /\ row.revs[row.act].text \notin {"blank", "bare"}
    BY <1>1, <1>11 DEF UsedAsReviewed
  <2>2. row.revs[row.act].links \subseteq row.revs[k].links
    BY <1>1, <2>1 DEF RowStands, RowFits, CitesWhatItSays, Latest, WithdrawalFits
  <2>3. ASSUME row.act \in Affected(invalid) PROVE FALSE
    <3>1. PICK p \in invalid : p[1] = row.act
      BY <2>3 DEF Affected
    <3>2. p[2] \in row.revs[row.act].links /\ <<k, p[2]>> \in invalid
      BY <1>1, <1>11, <2>2, <3>1 DEF WithdrawalFits, Exact
    <3>3. <<k, p[2]>>[1] = k
      OBVIOUS
    <3>4. k \in Affected(invalid)
      BY <3>2, <3>3 DEF Affected
    <3> QED
      BY <1>11, <3>4
  <2> QED
    BY <1>2, <1>4, <1>11, <2>1, <2>3 DEF UsedAsReviewed
<1>12. read = row /\ UsedAsReviewed(row) => UsedAsReviewed(new)
  BY <1>4, <1>11 DEF UsedAsReviewed
<1> QED
  BY <1>3, <1>4, <1>5, <1>6, <1>7, <1>8, <1>9, <1>10, <1>12 DEF RowStands, RowFits
LEMMA ReplacesNewest ==
  ASSUME NEW mem, NEW src, NEW x, NEW read, NEW row, NEW invalid,
         WithdrawalFits(mem, src, x, read, row, invalid), Cur(read) \in Affected(invalid)
  PROVE  LET new == Withdrawn(read, row, invalid)
         IN  /\ new \in MemoryRow /\ new.status \in {row.status, "suspended"}
             /\ RowStands(mem, src, x, new) /\ Grown(row, new) /\ LeftCited(row, new, invalid)
             /\ read = row => new.status = "suspended"
<1> DEFINE kept == Stripped(row, invalid)
           k == Cur(row)
           retained == {l \in row.revs[k].links : <<k, l>> \notin invalid}
           added == Revision(IF retained = {} THEN "bare" ELSE "retained",
                             retained, {l[1] : l \in retained}, "withdrawn")
           s == Stored(read.status, row.status, "suspended")
           a == Stored(read.act, row.act, 0)
           revs == Append(kept, added)
           new == [status |-> s, act |-> a, revs |-> revs]
<1>1. /\ x \in Memories /\ row \in MemoryRow /\ RowStands(mem, src, x, row) /\ row.status # "absent"
      /\ k \in Nat /\ k \in 1..k /\ row.act \in 0..k /\ row.revs[k].links \subseteq Links
  BY RowParts DEF WithdrawalFits, RowStands, RowFits, Written, Memories
<1>2. /\ kept \in Seq(RevisionRow) /\ Len(kept) = k
      /\ \A n \in 1..k :
           /\ kept[n].links = {l \in row.revs[n].links : <<n, l>> \notin invalid}
           /\ n \in Affected(invalid) => kept[n].text = "blank" /\ kept[n].from = {}
           /\ n \notin Affected(invalid) => /\ kept[n].links = row.revs[n].links
                                            /\ kept[n].text = row.revs[n].text
                                            /\ kept[n].from = row.revs[n].from
  BY <1>1, StrippedIs
<1>3. Cur(read) = k
  BY DEF WithdrawalFits, Clashes
<1>4. Withdrawn(read, row, invalid) = new
  BY <1>3, Zenon DEF Withdrawn
<1>5. /\ added \in RevisionRow /\ added.links = retained
      /\ added.from = {l[1] : l \in retained}
  <2>1. retained \in SUBSET Links /\ {l[1] : l \in retained} \in SUBSET Sources
    BY <1>1, LinkShape
  <2> HIDE DEF retained
  <2>2. (IF retained = {} THEN "bare" ELSE "retained") \in Texts
    BY DEF Texts
  <2> QED
    BY <2>1, <2>2, NewRevision DEF Whys
<1>6. /\ s \in {row.status, "suspended"} /\ s \in Statuses /\ s # "absent" /\ a \in {row.act, 0}
      /\ read = row => s = "suspended"
  BY <1>1, RowParts DEF Stored, Statuses
<1>7. retained \subseteq row.revs[k].links /\ \A l \in retained : <<k, l>> \notin invalid
  OBVIOUS
<1>8. \A n \in 1..k : kept[n].links \subseteq row.revs[n].links
  BY <1>2
<1> HIDE DEF kept, added, s, a
<1>9. /\ revs \in Seq(RevisionRow) /\ Len(revs) = k + 1 /\ revs[k + 1] = added
      /\ \A n \in 1..k : revs[n] = kept[n]
      /\ \A n \in 1..(k + 1) : n \in 1..k \/ n = k + 1
  BY <1>1, <1>2, <1>5
<1> HIDE DEF revs
<1>10. /\ new \in MemoryRow /\ Cur(new) = k + 1 /\ new.revs = revs
       /\ new.status = s /\ new.act = a /\ Latest(new) = added
  BY <1>1, <1>6, <1>9 DEF MemoryRow, Cur, Latest
<1> HIDE DEF new
<1>11. Written(new)
  BY <1>1, <1>6, <1>10 DEF Written
<1>12. CitesWhatItSays(new)
  <2>1. ASSUME NEW n \in 1..k, n \notin Affected(invalid), row.revs[n].text # "blank"
        PROVE  kept[n].links \subseteq added.links
    <3>1. row.revs[n].links \subseteq row.revs[k].links
      BY <1>1, <2>1 DEF RowStands, RowFits, CitesWhatItSays, Latest, WithdrawalFits
    <3>2. ASSUME NEW l \in row.revs[n].links, <<k, l>> \in invalid PROVE FALSE
      <4>1. <<n, l>> \in invalid
        BY <1>1, <3>2 DEF WithdrawalFits, Uniform
      <4>2. <<n, l>>[1] = n
        OBVIOUS
      <4> QED
        BY <2>1, <4>1, <4>2 DEF Affected
    <3> QED
      BY <1>8, <1>5, <3>1, <3>2
  <2>2. ASSUME NEW n \in 1..k
        PROVE  /\ \A o \in kept[n].from : \E l \in kept[n].links : Cites(l, o)
               /\ kept[n].text # "blank" => kept[n].links \subseteq added.links
    BY <1>1, <1>2, <2>1 DEF RowStands, RowFits, CitesWhatItSays, WithdrawalFits
  <2>3. \A o \in added.from : \E l \in added.links : Cites(l, o)
    BY <1>5 DEF Cites
  <2> QED
    BY <1>9, <1>10, <2>2, <2>3 DEF CitesWhatItSays
<1>13. x \notin Episodes
  BY KindsAreDisjoint DEF WithdrawalFits
<1>14. Rests(mem, src, new)
  <2>1. \A n \in 1..(k + 1) : \E j \in 1..k : new.revs[n].links \subseteq row.revs[j].links
    BY <1>1, <1>5, <1>7, <1>8, <1>9, <1>10
  <2>2. Rests(mem, src, row)
    BY <1>1 DEF RowStands
  <2> QED
    BY <1>10, <2>1, <2>2 DEF Rests
<1>15. Grown(row, new)
  BY <1>1, <1>6, <1>8, <1>9, <1>10 DEF Grown
<1>16. LeftCited(row, new, invalid)
  <2>1. ASSUME NEW n \in 1..k, NEW l \in kept[n].links
        PROVE  l \in row.revs[n].links /\ <<n, l>> \notin invalid
    BY <1>2, <2>1
  <2> QED
    BY <1>1, <1>5, <1>7, <1>9, <1>10, <2>1 DEF LeftCited
<1> QED
  BY <1>4, <1>6, <1>10, <1>11, <1>12, <1>13, <1>14, <1>15, <1>16 DEF RowStands, RowFits

LEMMA AfterWithdrawalStands ==
  ASSUME NEW mem, NEW src, NEW m \in Memories, NEW read, NEW row \in MemoryRow, NEW invalid,
         RowStands(mem, src, m, row),
         Withdraws(read, m, invalid) => WithdrawalFits(mem, src, m, read, row, invalid)
  PROVE  LET new == AfterWithdrawal(read, row, m, invalid)
         IN  /\ new \in MemoryRow /\ new.status \in {row.status, "suspended"}
             /\ RowStands(mem, src, m, new) /\ Grown(row, new)
             /\ ~Withdraws(read, m, invalid) => new = row
             /\ Withdraws(read, m, invalid) => LeftCited(row, new, invalid)
             /\ read = row /\ UsedAsReviewed(row) => UsedAsReviewed(new)
<1>1. CASE ~Withdraws(read, m, invalid)
  <2>1. AfterWithdrawal(read, row, m, invalid) = row
    BY <1>1 DEF AfterWithdrawal
  <2>2. Grown(row, row)
    BY RowParts DEF Grown
  <2> QED
    BY <1>1, <2>1, <2>2
<1>2. CASE Withdraws(read, m, invalid)
  <2>1. AfterWithdrawal(read, row, m, invalid) = Withdrawn(read, row, invalid)
    BY <1>2 DEF AfterWithdrawal
  <2>2. CASE Cur(read) \notin Affected(invalid)
    BY <1>2, <2>1, <2>2, KeepsNewest
  <2>3. CASE Cur(read) \in Affected(invalid)
    BY <1>2, <2>1, <2>3, ReplacesNewest DEF UsedAsReviewed
  <2> QED
    BY <2>2, <2>3
<1> QED
  BY <1>1, <1>2

\* Rows that cite nothing that has been forgotten go on doing so, and what is
\* left of a row whose evidence was looked up cites what holds.
LEMMA LeftCitesLess ==
  ASSUME NEW row, NEW new, NEW invalid, LeftCited(row, new, invalid), NEW tmb,
         CitesNothingForgotten(row, tmb)
  PROVE  CitesNothingForgotten(new, tmb)
  BY DEF LeftCited, CitesNothingForgotten
-----------------------------------------------------------------------------
(* The store, step by step.                                                 *)

StoreInv ==
  /\ memory \in [Memories -> MemoryRow] /\ source \in [Sources -> SourceRow]
  /\ tombs \subseteq Removed /\ working \subseteq Conversations
  /\ uses \subseteq Lessons \X Nat /\ torn \subseteq Removed
  /\ StoreStands

CallsInv == open \subseteq CallRow /\ \A t \in open : Earlier(t.seen) /\ CallKnows(t)

ReadsInv == CallsInv /\ (worker.at \in Reading => Earlier(worker.seen))

\* What a step leaves in the tables that are not the memories.
TablesGo ==
  /\ source' \in [Sources -> SourceRow]
  /\ \A s \in Sources : source[s].access # "absent" => source'[s].access # "absent"
  /\ \A e \in Episodes :
       source'[e].access # "absent" /\ ConversationOf[e] \notin tombs'
         => source'[e].holds \in Findings
  /\ tombs \subseteq tombs' /\ tombs' \subseteq Removed
  /\ working' \subseteq Conversations /\ working' \cap tombs' \subseteq torn'
  /\ uses' \subseteq Lessons \X Nat
  /\ torn \subseteq torn' /\ torn' \subseteq Removed

ForgetsNothing == \A c \in Conversations : c \in tombs' => c \in tombs

\* A memory that is deleted stays so, and one that is paused is woken by the user.
Obeys(old, new, m) ==
  /\ old.status = "deleted" => new.status = "deleted"
  /\ old.status = "suspended" /\ new.status = "active" => ConfirmedNow(m)

\* What a step leaves of a memory.
Follows(m, new) ==
  /\ new \in MemoryRow /\ RowStands(memory, source', m, new) /\ Grown(memory[m], new)
  /\ m \notin torn' => Kept(m, new, tombs') /\ Obeys(memory[m], new, m)

StoreGoes ==
  /\ TablesGo /\ memory' \in [Memories -> MemoryRow]
  /\ \A m \in Memories : Follows(m, memory'[m])

LEMMA StoreGoesOn ==
  ASSUME StoreGoes
  PROVE  StoreInv'
<1>1. ASSUME NEW m \in Memories PROVE Rests(memory', source', memory'[m])
  <2> DEFINE row == memory'[m]
  <2> SUFFICES ASSUME NEW n \in 1..Cur(row), NEW l \in row.revs[n].links
               PROVE  /\ source'[l[1]].access # "absent"
                      /\ Len(l) = 2 => memory'[l[1]].status # "absent"
    BY DEF Rests
  <2>1. row \in MemoryRow /\ Rests(memory, source', row)
    BY DEF StoreGoes, Follows, RowStands
  <2>2. source'[l[1]].access # "absent" /\ (Len(l) = 2 => memory[l[1]].status # "absent")
    BY <2>1 DEF Rests
  <2>3. Len(l) = 2 => l[1] \in Memories
    BY <2>1, RowParts, LinkShape DEF Memories
  <2> QED
    BY <2>2, <2>3 DEF StoreGoes, Follows, Grown
<1>2. StoreStands'
  BY <1>1 DEF StoreStands, StoreGoes, Follows, RowStands, TablesGo
<1> QED
  BY <1>2 DEF StoreGoes, TablesGo, StoreInv

LEMMA GrownOn ==
  ASSUME NEW a \in MemoryRow, NEW b \in MemoryRow, NEW c \in MemoryRow,
         Grown(a, b), Grown(b, c)
  PROVE  Grown(a, c)
<1>1. Cur(a) \in Nat /\ Cur(b) \in Nat /\ Cur(c) \in Nat
  BY RowParts
<1> QED
  BY <1>1 DEF Grown

\* A picture goes on being a picture of something earlier.
LEMMA EarlierStays ==
  ASSUME StoreInv, StoreGoes, NEW seen, seen \in PictureRow, Earlier(seen)
  PROVE  /\ \A m \in Memories : Written(seen.memory[m]) /\ Grown(seen.memory[m], memory'[m])
         /\ \A s \in Sources : seen.source[s].access # "absent" => source'[s].access # "absent"
         /\ seen.tombs \subseteq tombs'
<1>1. ASSUME NEW m \in Memories PROVE Grown(seen.memory[m], memory'[m])
  <2>1. seen.memory[m] \in MemoryRow /\ memory[m] \in MemoryRow /\ memory'[m] \in MemoryRow
    BY DEF StoreInv, StoreGoes, PictureRow
  <2>2. Grown(seen.memory[m], memory[m]) /\ Grown(memory[m], memory'[m])
    BY DEF Earlier, StoreGoes, Follows
  <2> QED
    BY <2>1, <2>2, GrownOn
<1> QED
  BY <1>1 DEF Earlier, StoreGoes, TablesGo

LEMMA PictureIs ==
  ASSUME StoreInv
  PROVE  Picture \in PictureRow /\ Earlier(Picture)
<1>1. \A m \in Memories : memory[m] \in MemoryRow /\ Written(memory[m])
  BY DEF StoreInv, StoreStands, RowFits
<1>2. \A m \in Memories : Grown(memory[m], memory[m])
  BY <1>1, RowParts DEF Grown
<1> QED
  BY <1>1, <1>2 DEF Picture, PictureRow, Earlier, StoreInv

\* What is known of a row there is.
LEMMA MemoryIs ==
  ASSUME StoreInv, NEW m \in Memories
  PROVE  /\ memory[m] \in MemoryRow /\ RowStands(memory, source, m, memory[m])
         /\ Written(memory[m]) /\ Cur(memory[m]) \in Nat /\ memory[m].act \in 0..Cur(memory[m])
         /\ memory[m].status # "absent" =>
              /\ Cur(memory[m]) > 0 /\ Cur(memory[m]) \in 1..Cur(memory[m])
              /\ Latest(memory[m]) \in RevisionRow
         /\ memory[m].status = "absent" => memory[m] = Absent /\ Cur(memory[m]) = 0
         /\ m \notin torn => Kept(m, memory[m], tombs)
<1>1. memory[m] \in MemoryRow /\ RowStands(memory, source, m, memory[m])
      /\ (m \notin torn => Kept(m, memory[m], tombs))
  BY DEF StoreInv, StoreStands, RowStands
<1>2. Written(memory[m])
  BY <1>1 DEF RowStands, RowFits
<1> QED
  BY <1>1, <1>2, RowParts DEF Written, Latest, Absent, Cur

LEMMA RestsOn ==
  ASSUME TablesGo, NEW row \in MemoryRow, Rests(memory, source, row)
  PROVE  Rests(memory, source', row)
<1> SUFFICES ASSUME NEW n \in 1..Cur(row), NEW l \in row.revs[n].links
             PROVE  /\ source'[l[1]].access # "absent"
                    /\ Len(l) = 2 => memory[l[1]].status # "absent"
  BY DEF Rests
<1>1. l[1] \in Sources
  BY RowParts, LinkShape
<1> QED
  BY <1>1 DEF TablesGo, Rests

LEMMA CitesOn ==
  ASSUME ForgetsNothing, NEW row \in MemoryRow, CitesNothingForgotten(row, tombs)
  PROVE  CitesNothingForgotten(row, tombs')
<1> SUFFICES ASSUME NEW n \in 1..Cur(row), NEW l \in row.revs[n].links
             PROVE  ConversationOf[l[1]] \notin tombs'
  BY DEF CitesNothingForgotten
<1>1. ConversationOf[l[1]] \in Conversations
  BY RowParts, LinkShape, SourcesHaveConversations
<1> QED
  BY <1>1 DEF ForgetsNothing, CitesNothingForgotten

\* A memory that is left alone.
LEMMA RowStays ==
  ASSUME StoreInv, TablesGo, NEW m \in Memories,
         \/ m \in torn' \/ memory[m].status = "deleted"
         \/ CitesNothingForgotten(memory[m], tombs')
  PROVE  Follows(m, memory[m])
<1>1. memory[m] \in MemoryRow /\ RowStands(memory, source, m, memory[m])
      /\ (m \notin torn => Kept(m, memory[m], tombs))
  BY MemoryIs
<1>2. RowStands(memory, source', m, memory[m])
  BY <1>1, RestsOn DEF RowStands
<1>3. Grown(memory[m], memory[m])
  BY <1>1, RowParts DEF Grown
<1>4. m \notin torn' => Kept(m, memory[m], tombs')
  BY <1>1 DEF TablesGo, Kept
<1>5. Obeys(memory[m], memory[m], m)
  BY DEF Obeys
<1> QED
  BY <1>1, <1>2, <1>3, <1>4, <1>5 DEF Follows

LEMMA RowStaysCited ==
  ASSUME StoreInv, TablesGo, ForgetsNothing, NEW m \in Memories
  PROVE  Follows(m, memory[m])
<1>1. memory[m] \in MemoryRow /\ (m \notin torn => Kept(m, memory[m], tombs))
  BY MemoryIs
<1>2. m \notin torn' => m \notin torn
  BY DEF TablesGo
<1>3. m \in torn' \/ memory[m].status = "deleted" \/ CitesNothingForgotten(memory[m], tombs')
  BY <1>1, <1>2, CitesOn DEF Kept
<1> QED
  BY <1>3, RowStays

LEMMA OneRowChanges ==
  ASSUME StoreInv, TablesGo, ForgetsNothing, NEW m \in Memories, NEW row,
         memory' = [memory EXCEPT ![m] = row], Follows(m, row)
  PROVE  StoreGoes
<1>1. /\ row \in MemoryRow /\ memory' \in [Memories -> MemoryRow] /\ memory'[m] = row
      /\ \A o \in Memories \ {m} : memory'[o] = memory[o]
  BY DEF StoreInv, Follows
<1>2. \A o \in Memories : Follows(o, memory'[o])
  BY <1>1, RowStaysCited
<1> QED
  BY <1>1, <1>2 DEF StoreGoes

LEMMA NoRowChanges ==
  ASSUME StoreInv, TablesGo, ForgetsNothing, memory' = memory
  PROVE  StoreGoes
<1>1. \A o \in Memories : Follows(o, memory'[o])
  BY RowStaysCited
<1> QED
  BY <1>1 DEF StoreGoes, StoreInv

LEMMA TablesStay ==
  ASSUME StoreInv, UNCHANGED <<source, tombs, working>>, uses' \subseteq Lessons \X Nat,
         torn \subseteq torn', torn' \subseteq Removed
  PROVE  TablesGo /\ ForgetsNothing
  BY DEF StoreInv, StoreStands, TablesGo, ForgetsNothing

\* A row that has the evidence of the one before it, and is in use as the user
\* wants it.
LEMMA SameEvidenceFollows ==
  ASSUME StoreInv, TablesGo, ForgetsNothing, NEW m \in Memories,
         NEW row \in MemoryRow, SameEvidence(memory[m], row) \/ Longer(m, memory[m], row),
         memory[m].status # "absent", row.status # "absent", row.act \in 0..Cur(row),
         m \notin torn' => /\ m \in Lessons => UsedAsReviewed(row)
                           /\ memory[m].status = "deleted" => row.status = "deleted"
                           /\ memory[m].status = "suspended" /\ row.status = "active"
                                => ConfirmedNow(m)
  PROVE  Follows(m, row)
<1> DEFINE old == memory[m]
<1>1. old \in MemoryRow /\ RowStands(memory, source, m, old)
      /\ (m \notin torn => Kept(m, old, tombs))
  BY MemoryIs
<1>2. /\ RowStands(memory, source, m, row) /\ Grown(old, row)
      /\ CitesNothingForgotten(old, tombs) => CitesNothingForgotten(row, tombs)
  <2>1. CASE SameEvidence(old, row)
    <3>1. row.act \in 0..Cur(old)
      BY <2>1 DEF SameEvidence
    <3> QED
      BY <1>1, <2>1, <3>1, SameEvidenceStands
  <2>2. CASE Longer(m, old, row)
    BY <1>1, <2>2, LongerStands
  <2> QED
    BY <2>1, <2>2
<1>3. RowStands(memory, source', m, row)
  BY <1>2, RestsOn DEF RowStands
<1>4. CitesNothingForgotten(row, tombs) => CitesNothingForgotten(row, tombs')
  BY CitesOn
<1>5. m \notin torn' => Kept(m, row, tombs')
  BY <1>1, <1>2, <1>4 DEF TablesGo, Kept
<1>6. m \notin torn' => Obeys(old, row, m)
  BY DEF Obeys
<1> QED
  BY <1>2, <1>3, <1>5, <1>6 DEF Follows
-----------------------------------------------------------------------------
(* The requests of the user and the store.                                  *)

LEMMA CreateStore ==
  ASSUME StoreInv, NEW x \in Lessons, NEW confirm \in BOOLEAN, Create(x, confirm)
  PROVE  StoreGoes
<1> DEFINE rev == Revision("lesson", {}, {}, "written")
           row == [status |-> "candidate", act |-> 0, revs |-> <<rev>>]
           new == IF confirm THEN Confirmed(row) ELSE row
<1>1. x \in Memories /\ x \notin Episodes
  BY KindsAreDisjoint DEF Memories
<1>2. rev \in RevisionRow /\ rev.links = {} /\ rev.from = {} /\ rev.text = "lesson"
  BY NewRevision DEF Texts, Whys
<1>3. /\ memory[x].status = "absent" /\ memory' = [memory EXCEPT ![x] = new]
      /\ UNCHANGED <<source, tombs, working, uses, torn>>
  BY DEF Create, Put, AtOnce
<1>4. TablesGo /\ ForgetsNothing /\ memory[x] = Absent /\ torn' = torn
  BY <1>1, <1>3, TablesStay, MemoryIs DEF StoreInv
<1> HIDE DEF rev
<1>5. FirstFits(memory, source', x, rev)
  BY <1>1, <1>2 DEF FirstFits
<1>6. /\ row \in MemoryRow /\ Cur(row) = 1 /\ Latest(row) = rev /\ row.status = "candidate"
      /\ row.act = 0 /\ RowStands(memory, source', x, row) /\ Grown(Absent, row)
      /\ CitesNothingForgotten(row, tombs')
  <2>1. "candidate" \in Statuses \ {"absent"} /\ 0 \in 0..1
    BY DEF Statuses
  <2> QED
    BY <1>2, <1>5, <2>1, FirstRowStands
<1> HIDE DEF row
<1>7. CASE ~confirm
  <2>1. new = row
    BY <1>7
  <2>2. Follows(x, row)
    BY <1>4, <1>6 DEF Follows, Kept, UsedAsReviewed, Obeys, Absent
  <2> QED
    BY <1>1, <1>3, <1>4, <2>1, <2>2, OneRowChanges
<1>8. CASE confirm
  <2>1. new = [status |-> "active", act |-> Cur(row),
               revs |-> [row.revs EXCEPT ![Cur(row)].review = "confirmed"]]
    BY <1>8 DEF Confirmed
  <2>2. "active" \in Statuses /\ "confirmed" \in Reviews /\ Cur(row) > 0 /\ Cur(row) \in 0..Cur(row)
    BY <1>6 DEF Statuses, Reviews
  <2>3. /\ new \in MemoryRow /\ new.status = "active" /\ new.act = 1 /\ SameEvidence(row, new)
        /\ new.revs[1].review = "confirmed"
    BY <1>6, <2>1, <2>2, ReviewedRow
  <2> HIDE DEF new
  <2>4. RowStands(memory, source', x, new) /\ Grown(row, new) /\ CitesNothingForgotten(new, tombs')
    BY <1>1, <1>6, <2>2, <2>3, SameEvidenceStands
  <2>5. Grown(Absent, new)
    BY <1>6, <2>3 DEF Grown, Absent, Cur
  <2>6. UsedAsReviewed(new)
    BY <1>2, <1>6, <2>3 DEF UsedAsReviewed, SameEvidence, Latest
  <2>7. Follows(x, new)
    BY <1>4, <2>3, <2>4, <2>5, <2>6 DEF Follows, Kept, Obeys, Absent
  <2> QED
    BY <1>1, <1>3, <1>4, <2>7, OneRowChanges DEF new
<1> QED
  BY <1>7, <1>8

\* What is known of the row a request is about.
LEMMA CallRowIs ==
  ASSUME StoreInv, CallsInv, NEW t \in open, t.kind \in DOMAIN Allowed
  PROVE  /\ t.of \in Memories /\ t.seen \in PictureRow /\ Read(t) \in MemoryRow /\ Written(Read(t))
         /\ Read(t).status \notin {"absent", "deleted"} /\ Admits(t.kind, Read(t))
         /\ Cur(Read(t)) \in Nat /\ Cur(Read(t)) > 0 /\ Cur(Read(t)) <= Cur(memory[t.of])
         /\ Latest(Read(t)) \in RevisionRow
         /\ memory[t.of] \in MemoryRow /\ memory[t.of].status # "absent"
         /\ t.of \notin Moved(t.seen) => memory[t.of] = Read(t)
<1>1. t \in CallRow /\ Earlier(t.seen) /\ CallKnows(t)
  BY DEF CallsInv
<1>2. t.of \in Memories /\ t.seen \in PictureRow /\ Admits(t.kind, Read(t))
  BY <1>1 DEF CallKnows, CallRow
<1>3. Read(t) = t.seen.memory[t.of] /\ Read(t) \in MemoryRow /\ Written(Read(t))
      /\ Grown(Read(t), memory[t.of])
  BY <1>1, <1>2 DEF Read, PictureRow, Earlier
<1>4. Read(t).status \notin {"absent", "deleted"}
  BY <1>2 DEF Admits, Allowed
<1>5. t.of \notin Moved(t.seen) => memory[t.of] = Read(t)
  BY <1>2, <1>3 DEF Moved
<1>6. Cur(Read(t)) \in Nat /\ Cur(Read(t)) > 0 /\ Latest(Read(t)) \in RevisionRow
  BY <1>3, <1>4, RowParts DEF Written, Latest
<1> QED
  BY <1>2, <1>3, <1>4, <1>5, <1>6, MemoryIs DEF Grown

\* The request has written a row, and nothing else.
RowWritten(t, row) ==
  /\ CommitsRow(t) /\ memory' = [memory EXCEPT ![t.of] = row]
  /\ UNCHANGED <<source, working, uses>> /\ tombs' \in {tombs, tombs \cup {t.of}}

LEMMA RowWrittenIs ==
  ASSUME StoreInv, CallsInv, NEW t \in open, t.kind \in DOMAIN Allowed,
         NEW row, RowWritten(t, row)
  PROVE  /\ TablesGo /\ ForgetsNothing
         /\ t.of \notin torn' => /\ memory[t.of] = Read(t) /\ t.of \notin torn
                                 /\ Kept(t.of, memory[t.of], tombs)
         /\ t.kind \in {"confirm", "amend"} => ConfirmedNow(t.of)
<1>1. /\ open' = open \ {t} /\ torn' = torn \cup (Moved(t.seen) \cap {t.of})
  BY DEF RowWritten, CommitsRow, Commits
<1>2. t.of \in Memories /\ (t.of \notin Moved(t.seen) => memory[t.of] = Read(t))
  BY CallRowIs
<1>3. /\ torn \subseteq torn' /\ torn' \subseteq Removed
      /\ t.of \notin torn' => t.of \notin Moved(t.seen) /\ t.of \notin torn
  BY <1>1, <1>2 DEF StoreInv, Removed
<1>4. TablesGo /\ ForgetsNothing
  <2>1. t.of \notin Conversations /\ t.of \in Removed
    BY <1>2, KindsAreDisjoint DEF Removed
  <2>2. tombs \subseteq tombs' /\ tombs' \subseteq Removed /\ tombs' \ tombs \subseteq {t.of}
    BY <2>1 DEF RowWritten, StoreInv
  <2>3. ForgetsNothing
    BY <2>1, <2>2 DEF ForgetsNothing
  <2>4. working' \cap tombs' \subseteq torn'
    BY <1>3, <2>1, <2>2 DEF RowWritten, StoreInv, StoreStands
  <2>5. \A e \in Episodes : source[e].access # "absent" /\ ConversationOf[e] \notin tombs'
                              => source[e].holds \in Findings
    BY <2>2 DEF StoreInv, StoreStands
  <2> QED
    BY <1>3, <2>2, <2>3, <2>4, <2>5 DEF RowWritten, TablesGo, StoreInv
<1>5. t.kind \in {"confirm", "amend"} => ConfirmedNow(t.of)
  BY <1>1 DEF ConfirmedNow
<1> QED
  BY <1>2, <1>3, <1>4, <1>5, MemoryIs

LEMMA EditStore ==
  ASSUME StoreInv, CallsInv, NEW t \in open, Edit(t)
  PROVE  StoreGoes
<1> DEFINE m == t.of
           old == memory[m]
           text == IF m \in Lessons THEN "lesson" ELSE Latest(old).text
           from == Latest(old).from
           row == Edited(old, text, from, "written")
           new == IF t.kind = "amend" THEN Confirmed(row) ELSE row
<1>0. t.kind \in DOMAIN Allowed
  BY DEF Edit, Allowed
<1>1. /\ m \in Memories /\ old \in MemoryRow /\ old.status # "absent"
      /\ Read(t).status \notin {"absent", "deleted"}
  BY <1>0, CallRowIs
<1>2. RowStands(memory, source, m, old) /\ Cur(old) \in 1..Cur(old) /\ Cur(old) \in Nat /\ Cur(old) > 0
      /\ Latest(old) = old.revs[Cur(old)] /\ Latest(old) \in RevisionRow /\ Written(old)
      /\ old.act \in 0..Cur(old)
  BY <1>1, MemoryIs DEF Latest
<1>3. /\ text \in Texts /\ from \in SUBSET Sources /\ "written" \in Whys
      /\ m \in Lessons => text = "lesson"
  BY <1>2 DEF RevisionRow, Texts, Whys
<1>4. EditFits(m, old, text, from, "written")
  BY <1>1, <1>2, <1>3 DEF RowStands, RowFits, SaysItsSource, CitesWhatItSays, EditFits
<1>5. RowWritten(t, new)
  BY DEF Edit, Put, RowWritten
<1> HIDE DEF text, from
<1>6. /\ row \in MemoryRow /\ row.status = old.status /\ row.act = old.act
      /\ Latest(row).text = text /\ Longer(m, old, row)
  BY <1>4, EditedIs
<1>7. Cur(row) = Cur(old) + 1
  BY <1>6 DEF Longer
<1> HIDE DEF row
<1>8. /\ TablesGo /\ ForgetsNothing
      /\ m \notin torn' => old = Read(t) /\ Kept(m, old, tombs)
      /\ t.kind = "amend" => ConfirmedNow(m)
  BY <1>0, <1>5, RowWrittenIs
<1>9. CASE t.kind # "amend"
  <2>1. UsedAsReviewed(old) => UsedAsReviewed(row)
    BY <1>1, <1>2, <1>6, LongerUse
  <2>2. row.act \in 0..Cur(row)
    BY <1>2, <1>6, <1>7
  <2>3. Follows(m, row)
    BY <1>1, <1>6, <1>8, <2>1, <2>2, SameEvidenceFollows DEF Kept
  <2> QED
    BY <1>1, <1>5, <1>8, <1>9, <2>3, OneRowChanges DEF RowWritten
<1>10. CASE t.kind = "amend"
  <2>1. new = [status |-> "active", act |-> Cur(row),
               revs |-> [row.revs EXCEPT ![Cur(row)].review = "confirmed"]]
    BY <1>10 DEF Confirmed
  <2>2. "active" \in Statuses /\ "confirmed" \in Reviews /\ Cur(row) > 0 /\ Cur(row) \in 0..Cur(row)
    BY <1>2, <1>7 DEF Statuses, Reviews
  <2>3. /\ new \in MemoryRow /\ new.status = "active" /\ new.act = Cur(row) /\ SameEvidence(row, new)
        /\ \A n \in 1..Cur(row) :
             /\ new.revs[n].review = IF n = Cur(row) THEN "confirmed" ELSE row.revs[n].review
             /\ n # Cur(row) => new.revs[n] = row.revs[n]
    BY <1>6, <2>1, <2>2, ReviewedRow
  <2> HIDE DEF new
  <2>4. Cur(new) = Cur(row) /\ Latest(new).links = Latest(row).links
        /\ Latest(new).from = Latest(row).from /\ Latest(new).text = Latest(row).text
        /\ Latest(new).review = "confirmed"
    BY <1>2, <1>7, <2>3 DEF SameEvidence, Latest
  <2>5. Longer(m, old, new)
    BY <1>2, <1>6, <1>7, <2>3, <2>4 DEF Longer
  <2>6. m \in Lessons => UsedAsReviewed(new)
    BY <1>2, <1>3, <1>6, <1>7, <2>3, <2>4 DEF UsedAsReviewed, Latest
  <2>7. Follows(m, new)
    BY <1>1, <1>2, <1>7, <1>8, <1>10, <2>3, <2>4, <2>5, <2>6, SameEvidenceFollows
  <2> QED
    BY <1>1, <1>5, <1>8, <2>7, OneRowChanges DEF RowWritten
<1> QED
  BY <1>9, <1>10
\* The row is what it was, but for its status and what the user says of its newest revision.
LEMMA TransitionFollows ==
  ASSUME StoreInv, CallsInv, NEW t \in open, t.kind \in DOMAIN Allowed, Unmoved(t.seen, t.of),
         NEW row \in MemoryRow, RowWritten(t, row),
         SameEvidence(memory[t.of], row), row.act \in 0..Cur(memory[t.of]),
         row.status # "absent",
         row.status = "active" => Read(t).status = "active" \/ t.kind = "confirm",
         memory[t.of] = Read(t) /\ t.of \in Lessons /\ UsedAsReviewed(Read(t))
           => UsedAsReviewed(row)
  PROVE  StoreGoes
<1> DEFINE m == t.of
<1>1. /\ m \in Memories /\ memory[m] \in MemoryRow /\ memory[m].status # "absent"
      /\ Read(t).status \notin {"absent", "deleted"}
  BY CallRowIs
<1>2. memory[m].status = Read(t).status
  BY DEF Unmoved, Read
<1>3. /\ TablesGo /\ ForgetsNothing
      /\ m \notin torn' => memory[m] = Read(t) /\ Kept(m, memory[m], tombs)
      /\ t.kind = "confirm" => ConfirmedNow(m)
  BY RowWrittenIs
<1>4. row.act \in 0..Cur(row)
  BY DEF SameEvidence
<1>5. m \notin torn' => (m \in Lessons => UsedAsReviewed(row))
  BY <1>3 DEF Kept
<1>6. memory[m].status = "suspended" /\ row.status = "active" => ConfirmedNow(m)
  BY <1>2, <1>3
<1>7. Follows(m, row)
  BY <1>1, <1>2, <1>3, <1>4, <1>5, <1>6, SameEvidenceFollows
<1> QED
  BY <1>1, <1>3, <1>7, OneRowChanges DEF RowWritten

\* The newest revision has been reviewed, as far as the request knows.
LEMMA ReviewedIs ==
  ASSUME NEW read, Latest(read).review \in Reviews, NEW old \in MemoryRow, Cur(old) > 0,
         NEW s \in Statuses, NEW a \in 0..Cur(old), NEW review \in Reviews,
         NEW new, new = [status |-> s, act |-> a, revs |-> Reviewed(read, old, review)]
  PROVE  /\ new \in MemoryRow /\ new.status = s /\ new.act = a /\ SameEvidence(old, new)
         /\ \A n \in 1..Cur(old) : n # Cur(old) => new.revs[n] = old.revs[n]
         /\ read = old => new.revs[Cur(old)].review = review
<1> DEFINE v == Stored(Latest(read).review, old.revs[Cur(old)].review, review)
<1>1. Cur(old) \in 1..Cur(old)
  BY RowParts
<1>2. old.revs[Cur(old)].review \in Reviews
  BY <1>1, RowParts
<1>3. v \in Reviews /\ (read = old => v = review)
  BY <1>2 DEF Stored, Latest
<1>4. new = [status |-> s, act |-> a, revs |-> [old.revs EXCEPT ![Cur(old)].review = v]]
  BY DEF Reviewed
<1> HIDE DEF v
<1>5. /\ new \in MemoryRow /\ new.status = s /\ new.act = a /\ SameEvidence(old, new)
      /\ \A n \in 1..Cur(old) :
           /\ new.revs[n].review = IF n = Cur(old) THEN v ELSE old.revs[n].review
           /\ n # Cur(old) => new.revs[n] = old.revs[n]
  BY <1>3, <1>4, ReviewedRow
<1> QED
  BY <1>1, <1>3, <1>5

LEMMA ConfirmStore ==
  ASSUME StoreInv, CallsInv, NEW t \in open, Confirm(t)
  PROVE  StoreGoes
<1> DEFINE m == t.of
           old == memory[m]
           row == [status |-> "active", act |-> Cur(old), revs |-> Reviewed(Read(t), old, "confirmed")]
<1>0. t.kind = "confirm" /\ t.kind \in DOMAIN Allowed
  BY DEF Confirm, Allowed
<1>1. /\ m \in Memories /\ old \in MemoryRow /\ old.status # "absent" /\ Read(t) \in MemoryRow
      /\ Admits(t.kind, Read(t)) /\ Latest(Read(t)).review \in Reviews
  BY <1>0, CallRowIs DEF RevisionRow
<1>2. Cur(old) \in Nat /\ Cur(old) > 0 /\ Cur(old) \in 1..Cur(old)
  BY <1>1, MemoryIs
<1>3. RowWritten(t, row) /\ Unmoved(t.seen, m)
  BY Zenon DEF Confirm, Transition, Put, RowWritten
<1>4. "active" \in Statuses /\ Cur(old) \in 0..Cur(old) /\ "confirmed" \in Reviews
  BY <1>2 DEF Statuses, Reviews
<1> HIDE DEF old
<1>5. row = [status |-> "active", act |-> Cur(old), revs |-> Reviewed(Read(t), old, "confirmed")]
  OBVIOUS
<1> HIDE DEF row
<1>6. /\ row \in MemoryRow /\ row.status = "active" /\ row.act = Cur(old) /\ SameEvidence(old, row)
      /\ Read(t) = old => row.revs[Cur(old)].review = "confirmed"
  BY <1>1, <1>2, <1>4, <1>5, ReviewedIs
<1>7. old = Read(t) => UsedAsReviewed(row)
  <2>1. Latest(Read(t)).text \notin {"blank", "bare"}
    BY <1>0, <1>1 DEF Admits, Confirmable
  <2> QED
    BY <1>2, <1>6, <2>1 DEF UsedAsReviewed, SameEvidence, Latest
<1> QED
  BY <1>0, <1>3, <1>4, <1>6, <1>7, TransitionFollows DEF old

LEMMA RejectStore ==
  ASSUME StoreInv, CallsInv, NEW t \in open, Reject(t)
  PROVE  StoreGoes
<1> DEFINE m == t.of
           old == memory[m]
           s == IF Read(t).act = 0 THEN "rejected" ELSE Read(t).status
           row == [status |-> s, act |-> old.act, revs |-> Reviewed(Read(t), old, "rejected")]
<1>0. t.kind = "reject" /\ t.kind \in DOMAIN Allowed
  BY DEF Reject, Allowed
<1>1. /\ m \in Memories /\ old \in MemoryRow /\ old.status # "absent" /\ Read(t) \in MemoryRow
      /\ Admits(t.kind, Read(t)) /\ Latest(Read(t)).review \in Reviews
      /\ Read(t).status \notin {"absent", "deleted"}
  BY <1>0, CallRowIs DEF RevisionRow
<1>2. Cur(old) \in Nat /\ Cur(old) > 0 /\ Cur(old) \in 1..Cur(old) /\ old.act \in 0..Cur(old)
  BY <1>1, MemoryIs
<1>3. RowWritten(t, row) /\ Unmoved(t.seen, m)
  BY Zenon DEF Reject, Transition, Put, RowWritten
<1>4. s \in Statuses /\ s # "absent" /\ (s = "active" => Read(t).status = "active")
      /\ "rejected" \in Reviews
  BY <1>1, RowParts DEF Statuses, Reviews
<1> HIDE DEF old, s
<1>5. row = [status |-> s, act |-> old.act, revs |-> Reviewed(Read(t), old, "rejected")]
  OBVIOUS
<1> HIDE DEF row
<1>6. /\ row \in MemoryRow /\ row.status = s /\ row.act = old.act /\ SameEvidence(old, row)
      /\ \A n \in 1..Cur(old) : n # Cur(old) => row.revs[n] = old.revs[n]
  BY <1>1, <1>2, <1>4, <1>5, ReviewedIs
<1>7. old = Read(t) /\ UsedAsReviewed(Read(t)) => UsedAsReviewed(row)
  <2> SUFFICES ASSUME old = Read(t), UsedAsReviewed(old), row.status = "active"
               PROVE  UsedAsReviewed(row)
    BY DEF UsedAsReviewed
  <2>1. old.status = "active" /\ old.act # Cur(old)
    BY <1>0, <1>1, <1>4, <1>6 DEF Admits, s
  <2>2. old.act # 0 /\ old.act \in 1..Cur(old)
    BY <1>2, <2>1 DEF UsedAsReviewed
  <2> QED
    BY <1>6, <2>1, <2>2 DEF UsedAsReviewed
<1> QED
  BY <1>0, <1>2, <1>3, <1>4, <1>6, <1>7, TransitionFollows DEF old

\* A memory goes out of use.
LEMMA OutOfUse ==
  ASSUME StoreInv, CallsInv, NEW t \in open, t.kind \in DOMAIN Allowed, Unmoved(t.seen, t.of),
         NEW s \in Statuses \ {"absent", "active"},
         RowWritten(t, [memory[t.of] EXCEPT !.status = s])
  PROVE  StoreGoes
<1> DEFINE old == memory[t.of]
           row == [old EXCEPT !.status = s]
<1>1. t.of \in Memories /\ old \in MemoryRow
  BY CallRowIs
<1>2. /\ row \in MemoryRow /\ row.status = s /\ row.act = old.act /\ SameEvidence(old, row)
  BY <1>1, StatusIs
<1> HIDE DEF row
<1>3. row.act \in 0..Cur(old) /\ UsedAsReviewed(row)
  BY <1>1, <1>2, MemoryIs DEF UsedAsReviewed
<1>4. RowWritten(t, row)
  BY DEF row
<1> QED
  BY <1>1, <1>2, <1>3, <1>4, TransitionFollows

LEMMA PutAwayStore ==
  ASSUME StoreInv, CallsInv, NEW t \in open, SuspendOrArchive(t) \/ Delete(t)
  PROVE  StoreGoes
<1>1. CASE SuspendOrArchive(t)
  <2> DEFINE s == PutAside[t.kind]
  <2>1. t.kind \in DOMAIN Allowed /\ s \in Statuses \ {"absent", "active"}
    BY <1>1 DEF SuspendOrArchive, PutAside, Allowed, Statuses
  <2>2. RowWritten(t, [memory[t.of] EXCEPT !.status = s]) /\ Unmoved(t.seen, t.of)
    BY <1>1, Zenon DEF SuspendOrArchive, Transition, Put, RowWritten
  <2> HIDE DEF s
  <2> QED
    BY <2>1, <2>2, OutOfUse
<1>2. CASE Delete(t)
  <2>1. t.kind \in DOMAIN Allowed /\ "deleted" \in Statuses \ {"absent", "active"}
    BY <1>2 DEF Delete, Allowed, Statuses
  <2>2. RowWritten(t, [memory[t.of] EXCEPT !.status = "deleted"]) /\ Unmoved(t.seen, t.of)
    BY <1>2 DEF Delete, Put, RowWritten
  <2> QED
    BY <2>1, <2>2, OutOfUse
<1> QED
  BY <1>1, <1>2

\* A request that only asks, or gives up.
LEMMA QuietStore ==
  ASSUME StoreInv, UNCHANGED <<memory, source, tombs, working, torn>>,
         uses' \subseteq Lessons \X Nat
  PROVE  StoreGoes
<1>1. TablesGo /\ ForgetsNothing
  BY TablesStay DEF StoreInv
<1> QED
  BY <1>1, NoRowChanges

LEMMA KeepSourcesStore ==
  ASSUME StoreInv, NEW c \in Conversations, KeepSources(c)
  PROVE  StoreGoes
<1>1. /\ UNCHANGED <<memory, tombs, uses, torn>> /\ working' = working \ {c}
      /\ \A s \in SourcesOf(source, c) : source[s] \in SourceRow /\ source[s].access # "absent"
  BY DEF KeepSources, AtOnce, StoreInv, SourcesOf
<1>2. /\ source' \in [Sources -> SourceRow]
      /\ \A s \in Sources : /\ source'[s].holds = source[s].holds
                            /\ source'[s].access = "absent" <=> source[s].access = "absent"
  BY <1>1 DEF KeepSources, StoreInv, SourceRow, Access
<1>3. TablesGo /\ ForgetsNothing
  BY <1>1, <1>2 DEF TablesGo, ForgetsNothing, StoreInv, StoreStands, Sources
<1> QED
  BY <1>1, <1>3, NoRowChanges
-----------------------------------------------------------------------------
(* What the agent leaves behind, and the store.                             *)

\* A source is written that no forgotten episode is captured from.
LEMMA SourceWritten ==
  ASSUME StoreInv, NEW s \in Sources, NEW new \in SourceRow, new.access # "absent",
         source' = [source EXCEPT ![s] = new],
         s \in Episodes /\ ConversationOf[s] \notin tombs => new.holds \in Findings
  PROVE  /\ source' \in [Sources -> SourceRow]
         /\ \A o \in Sources : source[o].access # "absent" => source'[o].access # "absent"
         /\ \A e \in Episodes :
              source'[e].access # "absent" /\ ConversationOf[e] \notin tombs
                => source'[e].holds \in Findings
<1>1. /\ source' \in [Sources -> SourceRow] /\ source'[s] = new
      /\ \A o \in Sources : o # s => source'[o] = source[o]
  BY DEF StoreInv
<1>2. Episodes \subseteq Sources
  BY DEF Sources
<1> QED
  BY <1>1, <1>2 DEF StoreInv, StoreStands

LEMMA RecordToolStore ==
  ASSUME StoreInv, CallsInv, NEW t \in open, RecordTool(t)
  PROVE  StoreGoes
<1> DEFINE e == t.of
           was == t.seen.source[e]
           c == ConversationOf[e]
           new == IF was.access = "absent" THEN [access |-> "available", holds |-> t.with]
                  ELSE [source[e] EXCEPT !.holds = Stored(was.holds, @, t.with)]
<1>1. Earlier(t.seen) /\ CallKnows(t) /\ t.kind = "record"
  BY DEF CallsInv, RecordTool
<1>2. e \in Episodes /\ e \in Sources /\ t.with \in Findings /\ c \notin t.seen.tombs
      /\ c \in Conversations
  BY <1>1, SourcesHaveConversations DEF CallKnows, Sources
<1>3. /\ source' = [source EXCEPT ![e] = new] /\ working' = working \cup {c}
      /\ torn' = torn \cup ({c} \cap (tombs \ t.seen.tombs))
      /\ UNCHANGED <<memory, tombs, uses>>
  <2>1. source' = [source EXCEPT ![e] = new]
    BY DEF RecordTool
  <2> QED
    BY <2>1 DEF RecordTool, Commits
<1>4. source[e] \in SourceRow /\ t.with \in Findings \cup {"nothing", "note"}
  BY <1>2 DEF StoreInv
<1>5. new \in SourceRow /\ new.access # "absent" /\ (c \notin tombs => new.holds \in Findings)
  <2>1. CASE was.access = "absent"
    BY <1>2, <1>4, <2>1 DEF SourceRow, Access
  <2>2. CASE was.access # "absent"
    <3> DEFINE holds == Stored(was.holds, source[e].holds, t.with)
    <3>1. source[e].access # "absent" /\ (c \notin tombs => source[e].holds \in Findings)
      BY <1>1, <1>2, <2>2 DEF Earlier, StoreInv, StoreStands
    <3>2. holds \in {source[e].holds, t.with}
      BY DEF Stored
    <3>3. new = [source[e] EXCEPT !.holds = holds]
      BY <2>2
    <3> HIDE DEF holds, new
    <3> QED
      BY <1>2, <1>4, <3>1, <3>2, <3>3 DEF SourceRow
  <2> QED
    BY <2>1, <2>2
<1> HIDE DEF new
<1>6. /\ source' \in [Sources -> SourceRow]
      /\ \A o \in Sources : source[o].access # "absent" => source'[o].access # "absent"
      /\ \A o \in Episodes :
           source'[o].access # "absent" /\ ConversationOf[o] \notin tombs
             => source'[o].holds \in Findings
  BY <1>2, <1>3, <1>5, SourceWritten
<1>7. torn \subseteq torn' /\ torn' \subseteq Removed /\ (c \in tombs => c \in torn')
  BY <1>2, <1>3 DEF StoreInv, Removed
<1>8. TablesGo /\ ForgetsNothing
  BY <1>2, <1>3, <1>6, <1>7 DEF TablesGo, ForgetsNothing, StoreInv, StoreStands
<1> QED
  BY <1>3, <1>8, NoRowChanges

LEMMA ProposeStore ==
  ASSUME StoreInv, CallsInv, NEW t \in open, Propose(t)
  PROVE  StoreGoes
<1> DEFINE x == t.of
           a == t.with
           c == ConversationOf[a]
           known == t.seen.source[a].access # "absent"
           fresh == memory[x].status = "absent"
           rev == Proposed(a)
           row == [status |-> "candidate", act |-> 0, revs |-> <<rev>>]
<1>1. Earlier(t.seen) /\ CallKnows(t) /\ t.kind = "propose"
  BY DEF CallsInv, Propose
<1>2. /\ x \in Lessons /\ x \in Memories /\ x \notin Episodes
      /\ a \in Agents /\ a \in Sources /\ a \notin Episodes /\ c \notin t.seen.tombs
  BY <1>1, KindsAreDisjoint DEF CallKnows, Sources, Memories
<1>3. /\ torn' = torn \cup (IF known /\ c \in tombs \ t.seen.tombs THEN {x} ELSE {})
      /\ source' = IF known THEN source
                   ELSE [source EXCEPT ![a] = [access |-> "available", holds |-> "note"]]
      /\ UNCHANGED <<tombs, working, uses>>
  BY DEF Propose, Commits
<1>4. memory' = memory \/ (memory' = [memory EXCEPT ![x] = row] /\ fresh /\ (known \/ c \notin tombs))
  BY Zenon DEF Propose, Put
<1>5. /\ source' \in [Sources -> SourceRow] /\ source'[a].access # "absent"
      /\ \A o \in Sources : source[o].access # "absent" => source'[o].access # "absent"
      /\ \A o \in Episodes :
           source'[o].access # "absent" /\ ConversationOf[o] \notin tombs
             => source'[o].holds \in Findings
  <2>1. CASE known
    BY <1>1, <1>2, <1>3, <2>1 DEF Earlier, StoreInv, StoreStands
  <2>2. CASE ~known
    <3>1. [access |-> "available", holds |-> "note"] \in SourceRow
      BY DEF SourceRow, Access
    <3>2. source' = [source EXCEPT ![a] = [access |-> "available", holds |-> "note"]]
      BY <1>3, <2>2
    <3> QED
      BY <1>2, <3>1, <3>2, SourceWritten DEF StoreInv
  <2> QED
    BY <2>1, <2>2
<1>6. torn \subseteq torn' /\ torn' \subseteq Removed
      /\ (known /\ c \in tombs => x \in torn')
  BY <1>2, <1>3 DEF StoreInv, Removed
<1>7. TablesGo /\ ForgetsNothing
  BY <1>3, <1>5, <1>6 DEF TablesGo, ForgetsNothing, StoreInv, StoreStands
<1>8. ASSUME fresh, known \/ c \notin tombs PROVE Follows(x, row)
  <2>1. /\ SourceLink(a) \in Links /\ SourceLink(a)[1] = a /\ Len(SourceLink(a)) = 1
    BY <1>2, LinksAreLinks
  <2>2. /\ rev \in RevisionRow /\ rev.links = {SourceLink(a)} /\ rev.from = {a}
    BY <1>2, <2>1, NewRevision DEF Proposed, Texts, Whys
  <2> HIDE DEF rev
  <2>3. FirstFits(memory, source', x, rev)
    BY <1>2, <1>5, <2>1, <2>2 DEF FirstFits, Cites
  <2>4. "candidate" \in Statuses \ {"absent"} /\ 0 \in 0..1
    BY DEF Statuses
  <2>5. /\ row \in MemoryRow /\ row.status = "candidate" /\ RowStands(memory, source', x, row)
        /\ Grown(Absent, row)
        /\ \A tmb : (\A l \in rev.links : ConversationOf[l[1]] \notin tmb)
                      => CitesNothingForgotten(row, tmb)
    BY <2>3, <2>4, FirstRowStands
  <2> HIDE DEF row
  <2>6. memory[x] = Absent /\ memory[x].status # "deleted" /\ memory[x].status # "suspended"
    BY <1>2, <1>8, MemoryIs
  <2>7. x \notin torn' => c \notin tombs'
    BY <1>3, <1>6, <1>8
  <2>8. x \notin torn' => Kept(x, row, tombs')
    BY <2>1, <2>2, <2>5, <2>7 DEF Kept, UsedAsReviewed
  <2> QED
    BY <2>5, <2>6, <2>8 DEF Follows, Obeys
<1> HIDE DEF row
<1>9. CASE memory' = memory
  BY <1>7, <1>9, NoRowChanges
<1>10. CASE memory' = [memory EXCEPT ![x] = row] /\ fresh /\ (known \/ c \notin tombs)
  BY <1>2, <1>7, <1>8, <1>10, OneRowChanges
<1> QED
  BY <1>4, <1>9, <1>10

LEMMA UseStore ==
  ASSUME StoreInv, NEW x \in Lessons,
         \/ Adopt(x)
         \/ \E n \in Nat, matched \in BOOLEAN : CounterExample(x, n, matched)
  PROVE  StoreGoes
<1>1. x \in Memories
  BY DEF Memories
<1>2. CASE Adopt(x)
  <2>1. uses' \subseteq Lessons \X Nat /\ UNCHANGED <<memory, source, tombs, working, torn>>
    BY <1>1, <1>2, MemoryIs DEF Adopt, AtOnce, StoreInv
  <2> QED
    BY <2>1, QuietStore
<1>3. ASSUME NEW n \in Nat, NEW matched \in BOOLEAN, CounterExample(x, n, matched)
      PROVE  StoreGoes
  <2> DEFINE row == [memory[x] EXCEPT !.status = "suspended"]
  <2>1. /\ uses' \subseteq Lessons \X Nat /\ UNCHANGED <<source, tombs, working, torn>>
        /\ memory' = memory \/ (memory' = [memory EXCEPT ![x] = row] /\ memory[x].status = "active")
    <3>1. memory' = memory \/ (memory' = [memory EXCEPT ![x] = row] /\ memory[x].status = "active")
      BY <1>3, Zenon DEF CounterExample, Put
    <3>2. uses' = uses \ {<<x, n>>} /\ UNCHANGED <<source, tombs, working, torn>>
      BY <1>3, Zenon DEF CounterExample, AtOnce
    <3> QED
      BY <3>1, <3>2 DEF StoreInv
  <2>2. TablesGo /\ ForgetsNothing
    BY <2>1, TablesStay DEF StoreInv
  <2>3. CASE memory[x].status = "active"
    <3>1. /\ row \in MemoryRow /\ row.status = "suspended" /\ row.act = memory[x].act
          /\ SameEvidence(memory[x], row)
      BY <1>1, MemoryIs, StatusIs DEF Statuses
    <3> HIDE DEF row
    <3>2. row.act \in 0..Cur(row) /\ UsedAsReviewed(row)
      BY <1>1, <3>1, MemoryIs DEF SameEvidence, UsedAsReviewed
    <3>3. Follows(x, row)
      BY <1>1, <2>2, <2>3, <3>1, <3>2, SameEvidenceFollows
    <3> QED
      BY <1>1, <2>1, <2>2, <3>3, OneRowChanges, NoRowChanges
  <2>4. CASE memory[x].status # "active"
    BY <2>1, <2>2, <2>4, NoRowChanges
  <2> QED
    BY <2>3, <2>4
<1> QED
  BY <1>2, <1>3
-----------------------------------------------------------------------------
(* Forgetting, and the store.                                               *)

ForgetFits(seen, items) ==
  /\ seen \in PictureRow /\ Earlier(seen) /\ items \subseteq Memories
  /\ \A m \in items : seen.memory[m].status \notin {"absent", "deleted"}

\* The rows that are marked.
LEMMA MarkedIs ==
  ASSUME StoreInv, NEW seen, NEW items, ForgetFits(seen, items)
  PROVE  /\ Marked(seen, items) \in [Memories -> MemoryRow]
         /\ \A m \in Memories :
              LET new == Marked(seen, items)[m]
              IN  /\ SameEvidence(memory[m], new) /\ new.act = memory[m].act
                  /\ m \notin items => new = memory[m]
                  /\ m \in items \cap Episodes => new.status = "deleted"
                  /\ m \in items \ Episodes =>
                       /\ new.status \in {memory[m].status, "suspended"}
                       /\ memory[m] = seen.memory[m] => new.status = "suspended"
<1> DEFINE marked == Marked(seen, items)
           status(m) == IF m \in Episodes THEN "deleted"
                        ELSE Stored(seen.memory[m].status, memory[m].status, "suspended")
<1>1. /\ marked = [m \in Memories |-> marked[m]]
      /\ \A m \in Memories :
           /\ m \notin items => marked[m] = memory[m]
           /\ m \in items => marked[m] = [memory[m] EXCEPT !.status = status(m)]
  BY DEF Marked
<1> HIDE DEF marked
<1>2. ASSUME NEW m \in Memories
      PROVE  /\ marked[m] \in MemoryRow
             /\ SameEvidence(memory[m], marked[m]) /\ marked[m].act = memory[m].act
             /\ m \in items => marked[m].status = status(m)
  <2>1. memory[m] \in MemoryRow
    BY MemoryIs
  <2>2. status(m) \in Statuses
    BY <2>1, RowParts DEF Stored, Statuses
  <2> HIDE DEF status
  <2>3. CASE m \in items
    <3> DEFINE old == memory[m]
               new == [old EXCEPT !.status = status(m)]
    <3>1. new \in MemoryRow /\ SameEvidence(old, new) /\ new.act = old.act /\ new.status = status(m)
      BY <2>1, <2>2, StatusIs
    <3>2. marked[m] = new
      BY <1>1, <2>3
    <3> QED
      BY <2>3, <3>1, <3>2
  <2>4. CASE m \notin items
    BY <1>1, <2>1, <2>4 DEF SameEvidence
  <2> QED
    BY <2>3, <2>4
<1>3. \A m \in items \ Episodes :
        /\ status(m) \in {memory[m].status, "suspended"}
        /\ memory[m] = seen.memory[m] => status(m) = "suspended"
  BY DEF Stored
<1>4. \A m \in items \cap Episodes : status(m) = "deleted"
  OBVIOUS
<1> HIDE DEF status
<1>5. marked \in [Memories -> MemoryRow]
  BY <1>1, <1>2
<1>6. \A m \in items : m \in Memories
  BY DEF ForgetFits
<1> QED
  BY <1>1, <1>2, <1>3, <1>4, <1>5, <1>6 DEF marked

\* They stand, and their evidence is shaped as it was.
LEMMA MarkedStands ==
  ASSUME StoreInv, TablesGo, NEW seen, NEW items, ForgetFits(seen, items)
  PROVE  /\ Shaped(Marked(seen, items))
         /\ \A m \in items :
              LET new == Marked(seen, items)[m]
              IN  /\ memory[m].status # "absent" /\ new.status # "absent"
                  /\ RowStands(memory, source', m, new) /\ Grown(memory[m], new)
                  /\ Cur(new) = Cur(memory[m]) /\ Cur(seen.memory[m]) <= Cur(new)
<1> DEFINE marked == Marked(seen, items)
<1>1. /\ marked \in [Memories -> MemoryRow]
      /\ \A m \in Memories :
           /\ SameEvidence(memory[m], marked[m]) /\ marked[m].act = memory[m].act
           /\ m \notin items => marked[m] = memory[m]
           /\ m \in items \cap Episodes => marked[m].status = "deleted"
           /\ m \in items \ Episodes => marked[m].status \in {memory[m].status, "suspended"}
  BY MarkedIs
<1> HIDE DEF marked
<1>2. ASSUME NEW m \in items
      PROVE  /\ memory[m].status # "absent" /\ marked[m].status # "absent"
             /\ RowStands(memory, source', m, marked[m]) /\ Grown(memory[m], marked[m])
             /\ Cur(marked[m]) = Cur(memory[m]) /\ Cur(seen.memory[m]) <= Cur(marked[m])
  <2>1. m \in Memories /\ Grown(seen.memory[m], memory[m]) /\ memory[m].status # "absent"
    BY DEF ForgetFits, Earlier, Grown
  <2>2. marked[m].status # "absent" /\ marked[m] \in MemoryRow
    BY <1>1, <2>1
  <2>3. RowStands(memory, source, m, marked[m]) /\ Grown(memory[m], marked[m])
    BY <1>1, <2>1, <2>2, MemoryIs, SameEvidenceStands
  <2>4. RowStands(memory, source', m, marked[m])
    BY <2>2, <2>3, RestsOn DEF RowStands
  <2>5. Cur(marked[m]) = Cur(memory[m])
    BY <1>1, <2>1 DEF SameEvidence
  <2> QED
    BY <2>1, <2>2, <2>3, <2>4, <2>5 DEF Grown
<1>3. ASSUME NEW e \in Episodes
      PROVE  Written(marked[e]) /\ SaysItsSource(e, marked[e])
  <2>1. e \in Memories /\ RowFits(e, memory[e])
    BY DEF Memories, StoreInv, StoreStands
  <2>2. CASE e \in items
    BY <1>2, <2>2 DEF RowStands, RowFits
  <2>3. CASE e \notin items
    BY <1>1, <2>1, <2>3 DEF RowFits
  <2> QED
    BY <2>2, <2>3
<1> QED
  BY <1>1, <1>2, <1>3 DEF Shaped, marked

\* What cites the conversation is found.
LEMMA ImpactCovers ==
  ASSUME StoreInv, NEW c \in Conversations, NEW m \in Memories,
         memory[m].status # "deleted",
         NEW n \in 1..Cur(memory[m]), NEW l \in memory[m].revs[n].links,
         ConversationOf[l[1]] = c
  PROVE  m \in Impact(memory, source, c)
<1> DEFINE direct == {o \in Memories : \E i \in 1..Cur(memory[o]), s \in SourcesOf(source, c) :
                        SourceLink(s) \in memory[o].revs[i].links}
<1>1. memory[m] \in MemoryRow /\ Rests(memory, source, memory[m])
  BY MemoryIs DEF RowStands
<1>2. l \in Links /\ l[1] \in Sources
  BY <1>1, RowParts, LinkShape
<1>3. l[1] \in SourcesOf(source, c) /\ (Len(l) = 2 => memory[l[1]].status # "absent")
  BY <1>1, <1>2 DEF Rests, SourcesOf
<1>4. CASE Len(l) = 1 /\ l = SourceLink(l[1])
  <2>1. m \in direct
    BY <1>3, <1>4
  <2> QED
    BY <2>1 DEF Impact
<1>5. CASE Len(l) = 2 /\ l[1] \in Episodes
  <2> DEFINE e == l[1]
  <2>1. e \in Memories
    BY <1>5 DEF Memories
  <2>2. /\ RowStands(memory, source, e, memory[e])
        /\ Cur(memory[e]) \in 1..Cur(memory[e])
    BY <1>3, <1>5, <2>1, MemoryIs
  <2>3. memory[e].revs[Cur(memory[e])].links = {SourceLink(e)}
    BY <1>5, <2>2 DEF RowStands, RowFits, SaysItsSource
  <2>4. e \in direct \cap Episodes
    BY <1>3, <1>5, <2>1, <2>2, <2>3
  <2> HIDE DEF direct
  <2>5. m \in Citing(memory, direct \cap Episodes)
    BY <2>4 DEF Citing, Cites
  <2> QED
    BY <2>5 DEF Impact, direct
<1> QED
  BY <1>2, <1>4, <1>5, LinkShape

\* What the forgetting has found is there.
LEMMA ItemsFit ==
  ASSUME NEW seen \in PictureRow, Earlier(seen), NEW c
  PROVE  ForgetFits(seen, Impact(seen.memory, seen.source, c))
<1> SUFFICES ASSUME NEW m \in Impact(seen.memory, seen.source, c)
             PROVE  m \in Memories /\ seen.memory[m].status \notin {"absent", "deleted"}
  BY DEF ForgetFits
<1>1. m \in Memories /\ seen.memory[m].status # "deleted" /\ \E n \in 1..Cur(seen.memory[m]) : TRUE
  BY DEF Impact, Citing
<1>2. Written(seen.memory[m])
  BY <1>1 DEF Earlier
<1>3. seen.memory[m].status = "absent" => Cur(seen.memory[m]) = 0
  BY <1>2 DEF Written, Absent, Cur
<1> QED
  BY <1>1, <1>3

ForgetTables(t, items) ==
  /\ t.of \in Conversations /\ t.seen \in PictureRow /\ Earlier(t.seen)
  /\ source' = ForgottenSources(t.seen, t.of)
  /\ tombs' = tombs \cup {t.of} \cup (items \cap Episodes)
  /\ working' = working \ {t.of} /\ uses' = uses
  /\ torn' = torn \cup (items \cap Moved(t.seen)) \cup (Impact(memory, source, t.of) \ items)

LEMMA ForgetTablesGo ==
  ASSUME StoreInv, NEW t, NEW items, ForgetTables(t, items)
  PROVE  TablesGo /\ \A c \in Conversations : c \in tombs' => c \in tombs \/ c = t.of
<1> DEFINE found == SourcesOf(t.seen.source, t.of)
<1>1. \A c \in Conversations : c \notin Episodes /\ c \notin Memories
  BY KindsAreDisjoint DEF Memories
<1>2. /\ source' = [s \in Sources |-> source'[s]]
      /\ \A s \in Sources \ found : source'[s] = source[s]
      /\ \A s \in found :
           /\ s \in Sources /\ ConversationOf[s] = t.of
           /\ source'[s] = [access |-> Stored(t.seen.source[s].access, source[s].access, "forgotten"),
                            holds |-> Stored(t.seen.source[s].holds, source[s].holds, "nothing")]
           /\ source[s].access # "absent"
  BY DEF ForgetTables, ForgottenSources, SourcesOf, Earlier
<1>3. ASSUME NEW s \in Sources
      PROVE  /\ source'[s] \in SourceRow
             /\ source[s].access # "absent" => source'[s].access # "absent"
  <2>1. source[s] \in SourceRow
    BY DEF StoreInv
  <2>2. CASE s \in found
    <3> DEFINE a == Stored(t.seen.source[s].access, source[s].access, "forgotten")
               h == Stored(t.seen.source[s].holds, source[s].holds, "nothing")
    <3>1. a \in {source[s].access, "forgotten"} /\ h \in {source[s].holds, "nothing"}
      BY DEF Stored
    <3>2. source'[s] = [access |-> a, holds |-> h] /\ source[s].access # "absent"
      BY <1>2, <2>2
    <3> HIDE DEF a, h
    <3> QED
      BY <2>1, <3>1, <3>2 DEF SourceRow, Access
  <2> QED
    BY <1>2, <2>1, <2>2
<1>4. source' \in [Sources -> SourceRow]
  BY <1>2, <1>3
<1>5. \A e \in Episodes : source'[e].access # "absent" /\ ConversationOf[e] \notin tombs'
                            => source'[e].holds \in Findings
  <2> SUFFICES ASSUME NEW e \in Episodes, source'[e].access # "absent", ConversationOf[e] \notin tombs'
               PROVE  source'[e].holds \in Findings
    OBVIOUS
  <2>1. e \in Sources /\ ConversationOf[e] # t.of /\ ConversationOf[e] \notin tombs
    BY DEF ForgetTables, Sources
  <2>2. source'[e] = source[e]
    BY <1>2, <2>1
  <2> QED
    BY <2>1, <2>2 DEF StoreInv, StoreStands
<1>6. /\ tombs \subseteq tombs' /\ tombs' \subseteq Removed
      /\ \A c \in Conversations : c \in tombs' => c \in tombs \/ c = t.of
  BY <1>1 DEF ForgetTables, StoreInv, Removed, Memories
<1>7. torn \subseteq torn' /\ torn' \subseteq Removed
  <2>1. Moved(t.seen) \subseteq Memories /\ Impact(memory, source, t.of) \subseteq Memories
    BY DEF Moved, Impact, Citing
  <2> QED
    BY <2>1 DEF ForgetTables, StoreInv, Removed
<1>8. working' \subseteq Conversations /\ working' \cap tombs' \subseteq torn'
  BY <1>6, <1>7 DEF ForgetTables, StoreInv, StoreStands
<1> QED
  BY <1>3, <1>4, <1>5, <1>6, <1>7, <1>8 DEF TablesGo, ForgetTables, StoreInv

\* What is invalid of a row is invalid in all the revisions that cite it.
LEMMA UnsupportedFits ==
  ASSUME NEW mem, NEW src, NEW tmb, NEW x
  PROVE  LET invalid == Unsupported(mem, src, tmb, x)
         IN  Uniform(mem[x], invalid) /\ Exact(mem[x], invalid)
<1> DEFINE invalid == Unsupported(mem, src, tmb, x)
<1>1. \A n, l : <<n, l>> \in invalid <=>
        n \in 1..Cur(mem[x]) /\ l \in mem[x].revs[n].links /\ ~EvidenceHolds(mem, src, tmb, l)
  BY UnsupportedIs
<1>2. ASSUME NEW p \in invalid
      PROVE  p = <<p[1], p[2]>>
  BY DEF Unsupported
<1> HIDE DEF invalid
<1>3. Uniform(mem[x], invalid)
  BY <1>1 DEF Uniform
<1>4. Exact(mem[x], invalid)
  <2> SUFFICES ASSUME NEW p \in invalid
               PROVE  /\ p = <<p[1], p[2]>> /\ p[1] \in 1..Cur(mem[x]) /\ p[2] \in mem[x].revs[p[1]].links
                      /\ \A n \in 1..Cur(mem[x]) : p[2] \in mem[x].revs[n].links => <<n, p[2]>> \in invalid
    BY DEF Exact
  <2>1. <<p[1], p[2]>> \in invalid
    BY <1>2
  <2> QED
    BY <1>1, <1>2, <2>1
<1> QED
  BY <1>3, <1>4 DEF invalid

\* A memory the forgetting has found.
LEMMA ForgottenItem ==
  ASSUME StoreInv, TablesGo, NEW seen, NEW items, ForgetFits(seen, items), NEW m \in items,
         m \in Lessons,
         NEW invalid, invalid = Unsupported(Marked(seen, items), source', tombs', m),
         ~Clashes(seen.memory[m], memory[m], invalid),
         m \notin torn' => memory[m] = seen.memory[m]
  PROVE  Follows(m, AfterWithdrawal(seen.memory[m], Marked(seen, items)[m], m, invalid))
<1> DEFINE marked == Marked(seen, items)
           read == seen.memory[m]
           row == marked[m]
           new == AfterWithdrawal(read, row, m, invalid)
<1>1. /\ m \in Memories /\ m \notin Episodes /\ read.status \notin {"absent", "deleted"}
      /\ read \in MemoryRow /\ Written(read) /\ memory[m] \in MemoryRow
  BY KindsAreDisjoint, MemoryIs DEF ForgetFits, PictureRow, Earlier
<1>2. /\ marked \in [Memories -> MemoryRow] /\ row \in MemoryRow
      /\ row.status \in {memory[m].status, "suspended"}
      /\ memory[m] = read => row.status = "suspended"
  BY <1>1, MarkedIs
<1>3. /\ Shaped(marked) /\ memory[m].status # "absent" /\ row.status # "absent"
      /\ RowStands(memory, source', m, row) /\ Grown(memory[m], row)
      /\ Cur(row) = Cur(memory[m]) /\ Cur(read) <= Cur(row)
  BY MarkedStands
<1>4. Uniform(row, invalid) /\ Exact(row, invalid)
  BY UnsupportedFits
<1>5. \A n, l : <<n, l>> \in invalid <=>
        n \in 1..Cur(row) /\ l \in row.revs[n].links /\ ~EvidenceHolds(marked, source', tombs', l)
  BY UnsupportedIs
<1> HIDE DEF marked
<1>6. ~Clashes(read, row, invalid)
  BY <1>3 DEF Clashes
<1>7. WithdrawalFits(memory, source', m, read, row, invalid)
  BY <1>1, <1>2, <1>3, <1>4, <1>6 DEF WithdrawalFits
<1>8. /\ new \in MemoryRow /\ new.status \in {row.status, "suspended"}
      /\ RowStands(memory, source', m, new) /\ Grown(row, new)
      /\ ~Withdraws(read, m, invalid) => new = row
      /\ Withdraws(read, m, invalid) => LeftCited(row, new, invalid)
  BY <1>1, <1>2, <1>3, <1>7, AfterWithdrawalStands
<1> HIDE DEF new
<1>9. Grown(memory[m], new)
  BY <1>1, <1>2, <1>3, <1>8, GrownOn
<1>10. ASSUME m \notin torn' PROVE Kept(m, new, tombs') /\ Obeys(memory[m], new, m)
  <2>1. new.status = "suspended" /\ memory[m].status # "deleted"
    BY <1>1, <1>2, <1>8, <1>10
  <2>2. CitesNothingForgotten(new, tombs')
    <3> SUFFICES ASSUME NEW n \in 1..Cur(new), NEW l \in new.revs[n].links
                 PROVE  ConversationOf[l[1]] \notin tombs'
      BY DEF CitesNothingForgotten
    <3>1. PICK k \in 1..Cur(row) : l \in row.revs[k].links /\ <<k, l>> \notin invalid
      <4>1. CASE Withdraws(read, m, invalid)
        BY <1>8, <4>1 DEF LeftCited
      <4>2. CASE ~Withdraws(read, m, invalid)
        <5>1. invalid = {} /\ new = row
          BY <1>1, <1>8, <4>2 DEF Withdraws
        <5> QED
          BY <5>1
      <4> QED
        BY <4>1, <4>2
    <3>2. EvidenceHolds(marked, source', tombs', l)
      BY <1>5, <3>1
    <3>3. l \in Links
      BY <1>2, <3>1, RowParts
    <3> QED
      BY <1>3, <3>2, <3>3, HoldingEvidence
  <2> QED
    BY <2>1, <2>2 DEF Kept, Obeys, UsedAsReviewed
<1> QED
  BY <1>8, <1>9, <1>10 DEF Follows, new, marked

LEMMA ForgottenEpisode ==
  ASSUME StoreInv, TablesGo, NEW seen, NEW items, ForgetFits(seen, items), NEW m \in items,
         m \in Episodes, NEW read, NEW invalid
  PROVE  Follows(m, AfterWithdrawal(read, Marked(seen, items)[m], m, invalid))
<1> DEFINE new == Marked(seen, items)[m]
<1>1. m \in Memories /\ m \notin Lessons /\ memory[m] \in MemoryRow
  BY KindsAreDisjoint, MemoryIs DEF ForgetFits
<1>2. AfterWithdrawal(read, new, m, invalid) = new
  BY <1>1 DEF AfterWithdrawal, Withdraws
<1>3. new \in MemoryRow /\ new.status = "deleted"
  BY <1>1, MarkedIs
<1>4. RowStands(memory, source', m, new) /\ Grown(memory[m], new)
  BY MarkedStands
<1> HIDE DEF new
<1>5. Kept(m, new, tombs') /\ Obeys(memory[m], new, m)
  BY <1>1, <1>3 DEF Kept, Obeys
<1> QED
  BY <1>2, <1>3, <1>4, <1>5 DEF Follows, new

LEMMA ForgetSourceStore ==
  ASSUME StoreInv, CallsInv, NEW t \in open, ForgetSource(t)
  PROVE  StoreGoes
<1> DEFINE c == t.of
           items == Impact(t.seen.memory, t.seen.source, c)
           Invalid(m) == Unsupported(Marked(t.seen, items), source', tombs', m)
<1>1. c \in Conversations /\ t.seen \in PictureRow /\ Earlier(t.seen)
  BY DEF CallsInv, CallKnows, CallRow, ForgetSource
<1>2. ForgetFits(t.seen, items)
  BY <1>1, ItemsFit
<1>3. ForgetTables(t, items)
  BY <1>1 DEF ForgetTables, ForgetSource, Commits
<1>4. /\ \A m \in items : m \notin Episodes => ~Clashes(t.seen.memory[m], memory[m], Invalid(m))
      /\ memory' = [m \in Memories |->
                      IF m \in items
                      THEN AfterWithdrawal(t.seen.memory[m], Marked(t.seen, items)[m], m, Invalid(m))
                      ELSE memory[m]]
  BY DEF ForgetSource
<1>5. TablesGo /\ \A o \in Conversations : o \in tombs' => o \in tombs \/ o = c
  BY <1>3, ForgetTablesGo
<1>6. /\ items \cap Moved(t.seen) \subseteq torn' /\ torn \subseteq torn'
      /\ Impact(memory, source, c) \subseteq torn' \cup items
  BY <1>3 DEF ForgetTables
<1> HIDE DEF items
<1>7. ASSUME NEW m \in items PROVE Follows(m, memory'[m])
  <2>1. m \in Memories
    BY <1>2 DEF ForgetFits
  <2> DEFINE invalid == Invalid(m)
  <2>2. memory'[m] = AfterWithdrawal(t.seen.memory[m], Marked(t.seen, items)[m], m, invalid)
    BY <1>4, <2>1
  <2>3. m \notin torn' => memory[m] = t.seen.memory[m]
    BY <1>6, <2>1 DEF Moved
  <2>4. m \notin Episodes => ~Clashes(t.seen.memory[m], memory[m], invalid)
    BY <1>4
  <2>5. invalid = Unsupported(Marked(t.seen, items), source', tombs', m)
    OBVIOUS
  <2> HIDE DEF invalid
  <2>6. CASE m \in Episodes
    BY <1>2, <1>5, <2>2, <2>6, ForgottenEpisode
  <2>7. CASE m \notin Episodes
    <3>1. m \in Lessons
      BY <2>1, <2>7 DEF Memories
    <3> QED
      BY <1>2, <1>5, <2>2, <2>3, <2>4, <2>5, <2>7, <3>1, ForgottenItem
  <2> QED
    BY <2>6, <2>7
<1>8. ASSUME NEW m \in Memories, m \notin items PROVE Follows(m, memory'[m])
  <2>1. memory'[m] = memory[m]
    BY <1>4, <1>8
  <2>2. ASSUME m \notin torn', memory[m].status # "deleted"
        PROVE  CitesNothingForgotten(memory[m], tombs')
    <3> SUFFICES ASSUME NEW n \in 1..Cur(memory[m]), NEW l \in memory[m].revs[n].links,
                        ConversationOf[l[1]] \in tombs'
                 PROVE  FALSE
      BY DEF CitesNothingForgotten
    <3>1. memory[m] \in MemoryRow /\ CitesNothingForgotten(memory[m], tombs)
      BY <1>6, <2>2, MemoryIs DEF Kept
    <3>2. ConversationOf[l[1]] \in Conversations /\ ConversationOf[l[1]] \notin tombs
      BY <3>1, RowParts, LinkShape, SourcesHaveConversations DEF CitesNothingForgotten
    <3>3. ConversationOf[l[1]] = c
      BY <1>5, <3>2
    <3>4. m \in Impact(memory, source, c)
      BY <1>1, <2>2, <3>3, ImpactCovers
    <3> QED
      BY <1>6, <1>8, <2>2, <3>4
  <2> QED
    BY <1>5, <2>1, <2>2, RowStays
<1>9. memory' \in [Memories -> MemoryRow]
  <2>1. \A m \in Memories : memory'[m] \in MemoryRow
    BY <1>7, <1>8 DEF Follows
  <2> QED
    BY <1>4, <2>1
<1> QED
  BY <1>5, <1>7, <1>8, <1>9 DEF StoreGoes
-----------------------------------------------------------------------------
(* The jobs of the worker, and the store.                                   *)

WorkerInv == /\ worker \in WorkerRow /\ WorkerKnows
             /\ worker.at \in Reading => Earlier(worker.seen)

\* A job that writes nothing.
LEMMA SavesNothingStore ==
  ASSUME StoreInv, UNCHANGED <<memory, source, tombs, working, uses, torn>>
  PROVE  StoreGoes
<1>1. uses' \subseteq Lessons \X Nat
  BY DEF StoreInv
<1> QED
  BY <1>1, QuietStore

\* A job that writes one row.
LEMMA JobTables ==
  ASSUME StoreInv, UNCHANGED <<source, tombs, working, uses>>,
         NEW m \in Memories, torn' = torn \/ torn' = torn \cup {m}
  PROVE  TablesGo /\ ForgetsNothing
<1>1. torn \subseteq torn' /\ torn' \subseteq Removed /\ uses' \subseteq Lessons \X Nat
  BY DEF StoreInv, Removed
<1> QED
  BY <1>1, TablesStay

\* What the worker has read of an episode.
LEMMA EpisodeSeen ==
  ASSUME StoreInv, WorkerInv, worker.at \in {"capture", "lesson"}, NEW e \in Episodes,
         worker.job.of = e
  PROVE  /\ e \in Memories /\ e \notin Lessons /\ EpisodeKnown(e)
         /\ worker.seen.memory[e] \in MemoryRow /\ Written(worker.seen.memory[e])
         /\ Grown(worker.seen.memory[e], memory[e])
         /\ worker.seen.source[e].access # "absent" => source[e].access # "absent"
         /\ ~EpisodeMoved(worker.seen, e) =>
              memory[e] = worker.seen.memory[e] /\ ConversationOf[e] \notin tombs
<1>1. e \in Memories /\ e \in Sources /\ e \notin Lessons /\ EpisodeKnown(e) /\ Earlier(worker.seen)
      /\ worker.seen \in PictureRow
  BY KindsAreDisjoint DEF WorkerInv, WorkerKnows, WorkerRow, Reading, Memories, Sources
<1>2. ConversationOf[e] \notin worker.seen.tombs
  BY <1>1 DEF EpisodeKnown
<1> QED
  BY <1>1, <1>2 DEF PictureRow, Earlier, EpisodeMoved, Moved

\* An episode that is captured again.
LEMMA RecapturedIs ==
  ASSUME NEW e \in Episodes, NEW old \in MemoryRow, Cur(old) > 0, old.act \in 0..Cur(old),
         NEW read, NEW finding \in Findings
  PROVE  LET new == Recaptured(read, old, e, finding)
         IN  /\ new \in MemoryRow /\ Longer(e, old, new) /\ new.act \in 0..Cur(new)
             /\ new.status # "absent"
             /\ read.status = "suspended" => new.status = "suspended"
<1> DEFINE long == Edited(old, finding, {e}, "written")
           new == Recaptured(read, old, e, finding)
<1>1. e \in Memories /\ e \notin Lessons /\ e \in Sources
  BY KindsAreDisjoint DEF Memories, Sources
<1>2. EditFits(e, old, finding, {e}, "written")
  BY <1>1 DEF EditFits, Texts, Whys
<1>3. long \in MemoryRow /\ Longer(e, old, long) /\ long.act = old.act
  BY <1>2, EditedIs
<1>4. new = IF read.status = "suspended" THEN [long EXCEPT !.status = "suspended"]
            ELSE [status |-> "active", act |-> Cur(long), revs |-> long.revs]
  BY DEF Recaptured
<1> HIDE DEF long, new
<1>5. long = [status |-> long.status, act |-> long.act, revs |-> long.revs] /\ Cur(long) \in Nat
  BY <1>3, RowParts
<1>6. /\ new \in MemoryRow /\ new.revs = long.revs /\ new.status \in {"suspended", "active"}
      /\ new.act \in {long.act, Cur(long)}
      /\ read.status = "suspended" => new.status = "suspended"
  BY <1>3, <1>4, <1>5 DEF MemoryRow, Statuses
<1>7. Cur(new) = Cur(long) /\ Latest(new) = Latest(long) /\ Cur(old) \in Nat
  BY <1>6, RowParts DEF Cur, Latest
<1>8. Longer(e, old, new)
  BY <1>3, <1>6, <1>7 DEF Longer
<1>9. new.act \in 0..Cur(new)
  BY <1>3, <1>5, <1>6, <1>7 DEF Longer
<1> QED
  BY <1>6, <1>8, <1>9 DEF new

LEMMA CaptureSaveStore ==
  ASSUME StoreInv, WorkerInv, NEW e \in Episodes, CaptureSave(e)
  PROVE  StoreGoes
<1> DEFINE seen == worker.seen
           read == seen.memory[e]
           holds == seen.source[e].holds
           row == IF read.status = "absent" THEN Captured(e, holds)
                  ELSE Recaptured(read, memory[e], e, holds)
<1>1. /\ worker.at = "capture" /\ worker.job.of = e /\ UNCHANGED <<source, tombs, working, uses>>
      /\ \/ UNCHANGED <<memory, torn>>
         \/ /\ Cur(memory[e]) = Cur(read) /\ memory' = [memory EXCEPT ![e] = row]
            /\ torn' = torn \cup (IF EpisodeMoved(seen, e) THEN {e} ELSE {})
  BY Zenon DEF CaptureSave, At, Saves, SavesNothing
<1>2. /\ e \in Memories /\ e \notin Lessons /\ EpisodeKnown(e)
      /\ read \in MemoryRow /\ Written(read) /\ Grown(read, memory[e])
      /\ seen.source[e].access # "absent" => source[e].access # "absent"
      /\ ~EpisodeMoved(seen, e) => memory[e] = read /\ ConversationOf[e] \notin tombs
  BY <1>1, EpisodeSeen
<1>3. read.status # "deleted" /\ source[e].access # "absent" /\ holds \in Findings
  BY <1>1, <1>2 DEF EpisodeKnown
<1>4. CASE UNCHANGED <<memory, torn>>
  BY <1>1, <1>4, SavesNothingStore
<1>5. CASE /\ Cur(memory[e]) = Cur(read) /\ memory' = [memory EXCEPT ![e] = row]
           /\ torn' = torn \cup (IF EpisodeMoved(seen, e) THEN {e} ELSE {})
  <2>1. e \notin torn' => ~EpisodeMoved(seen, e)
    BY <1>5
  <2>2. TablesGo /\ ForgetsNothing
    BY <1>1, <1>2, <1>5, JobTables
  <2>3. CASE read.status = "absent"
    <3> DEFINE rev == Revision(holds, {SourceLink(e)}, {e}, "written")
               new == [status |-> "active", act |-> 1, revs |-> <<rev>>]
    <3>1. row = new
      BY <2>3 DEF Captured
    <3>2. memory[e] = Absent /\ Absent.status = "absent"
      BY <1>2, <1>5, <2>3, MemoryIs DEF Written, Absent, Cur
    <3>3. e \in Sources /\ SourceLink(e) \in Links /\ SourceLink(e)[1] = e /\ Len(SourceLink(e)) = 1
      BY LinksAreLinks DEF Sources
    <3>4. rev \in RevisionRow /\ rev.links = {SourceLink(e)} /\ rev.from = {e}
      BY <1>3, <3>3, NewRevision DEF Texts, Whys
    <3> HIDE DEF rev
    <3>5. FirstFits(memory, source', e, rev)
      BY <1>1, <1>2, <1>3, <3>3, <3>4 DEF FirstFits
    <3>6. "active" \in Statuses \ {"absent"} /\ 1 \in 0..1
      BY DEF Statuses
    <3>7. /\ new \in MemoryRow /\ RowStands(memory, source', e, new) /\ Grown(Absent, new)
          /\ \A tmb : (\A l \in rev.links : ConversationOf[l[1]] \notin tmb)
                        => CitesNothingForgotten(new, tmb)
      BY <3>5, <3>6, FirstRowStands
    <3> HIDE DEF new
    <3>8. e \notin torn' => Kept(e, new, tombs') /\ Obeys(memory[e], new, e)
      BY <1>1, <1>2, <2>1, <3>2, <3>3, <3>4, <3>7 DEF Kept, Obeys
    <3>9. Follows(e, new)
      BY <3>2, <3>7, <3>8 DEF Follows
    <3> QED
      BY <1>2, <1>5, <2>2, <3>1, <3>9, OneRowChanges
  <2>4. CASE read.status # "absent"
    <3>1. row = Recaptured(read, memory[e], e, holds)
      BY <2>4
    <3>2. /\ memory[e].status # "absent" /\ memory[e] \in MemoryRow /\ Cur(memory[e]) > 0
          /\ memory[e].act \in 0..Cur(memory[e])
      BY <1>2, <2>4, MemoryIs DEF Grown
    <3>3. /\ row \in MemoryRow /\ Longer(e, memory[e], row) /\ row.act \in 0..Cur(row)
          /\ row.status # "absent"
          /\ read.status = "suspended" => row.status = "suspended"
      BY <1>3, <3>1, <3>2, RecapturedIs
    <3> HIDE DEF row
    <3>4. Follows(e, row)
      BY <1>2, <1>3, <2>1, <2>2, <3>2, <3>3, SameEvidenceFollows
    <3> QED
      BY <1>2, <1>5, <2>2, <3>4, OneRowChanges
  <2> QED
    BY <2>3, <2>4
<1> QED
  BY <1>1, <1>4, <1>5

LEMMA ExtractSaveStore ==
  ASSUME StoreInv, WorkerInv, NEW x \in Lessons, NEW e \in Episodes, ExtractSave(x, e)
  PROVE  StoreGoes
<1> DEFINE seen == worker.seen
           n == Cur(seen.memory[e])
           rev == Revision("lesson", {EpisodeLink(e, n)}, {e}, "written")
           new == [status |-> "candidate", act |-> 0, revs |-> <<rev>>]
<1>1. /\ worker.at = "lesson" /\ worker.job.of = e /\ UNCHANGED <<source, tombs, working, uses>>
      /\ \/ UNCHANGED <<memory, torn>>
         \/ /\ memory[x].status = "absent" /\ memory' = [memory EXCEPT ![x] = new]
            /\ torn' = torn \cup (IF EpisodeMoved(seen, e) THEN {x} ELSE {})
  BY Zenon DEF ExtractSave, At, Saves, SavesNothing, Extracted
<1>2. /\ e \in Memories /\ EpisodeKnown(e)
      /\ seen.memory[e] \in MemoryRow /\ Grown(seen.memory[e], memory[e])
      /\ ~EpisodeMoved(seen, e) => ConversationOf[e] \notin tombs
  BY <1>1, EpisodeSeen
<1>3. memory[e].status # "absent" /\ n \in Nat
  BY <1>1, <1>2, RowParts DEF EpisodeKnown, Grown
<1>4. source[e].access # "absent"
  <2>1. /\ RowStands(memory, source, e, memory[e])
        /\ Cur(memory[e]) \in 1..Cur(memory[e])
    BY <1>2, <1>3, MemoryIs
  <2>2. SourceLink(e) \in memory[e].revs[Cur(memory[e])].links /\ SourceLink(e)[1] = e
    BY <2>1, LinksAreLinks DEF RowStands, RowFits, SaysItsSource, Sources
  <2> QED
    BY <2>1, <2>2 DEF RowStands, Rests
<1>5. CASE UNCHANGED <<memory, torn>>
  BY <1>1, <1>5, SavesNothingStore
<1>6. CASE /\ memory[x].status = "absent" /\ memory' = [memory EXCEPT ![x] = new]
           /\ torn' = torn \cup (IF EpisodeMoved(seen, e) THEN {x} ELSE {})
  <2>1. x \notin torn' => ~EpisodeMoved(seen, e)
    BY <1>6
  <2>2. x \in Memories /\ x \notin Episodes /\ memory[x] = Absent /\ Absent.status = "absent"
    BY <1>6, KindsAreDisjoint, MemoryIs DEF Memories, Absent
  <2>3. TablesGo /\ ForgetsNothing
    BY <1>1, <1>6, <2>2, JobTables
  <2>4. /\ e \in Sources /\ EpisodeLink(e, n) \in Links /\ EpisodeLink(e, n)[1] = e
        /\ Len(EpisodeLink(e, n)) = 2
    BY <1>3, LinksAreLinks DEF Sources
  <2> HIDE DEF n
  <2>5. rev \in RevisionRow /\ rev.links = {EpisodeLink(e, n)} /\ rev.from = {e}
    BY <2>4, NewRevision DEF Texts, Whys
  <2> HIDE DEF rev
  <2>6. FirstFits(memory, source', x, rev)
    BY <1>1, <1>3, <1>4, <2>2, <2>4, <2>5 DEF FirstFits, Cites
  <2>7. "candidate" \in Statuses \ {"absent"} /\ 0 \in 0..1
    BY DEF Statuses
  <2>8. /\ new \in MemoryRow /\ RowStands(memory, source', x, new) /\ Grown(Absent, new)
        /\ new.status = "candidate"
        /\ \A tmb : (\A l \in rev.links : ConversationOf[l[1]] \notin tmb)
                      => CitesNothingForgotten(new, tmb)
    BY <2>6, <2>7, FirstRowStands
  <2> HIDE DEF new
  <2>9. x \notin torn' => Kept(x, new, tombs') /\ Obeys(memory[x], new, x)
    BY <1>1, <1>2, <2>1, <2>2, <2>4, <2>5, <2>8 DEF Kept, Obeys, UsedAsReviewed
  <2>10. Follows(x, new)
    BY <2>2, <2>8, <2>9 DEF Follows
  <2> QED
    BY <1>6, <2>2, <2>3, <2>10, OneRowChanges
<1> QED
  BY <1>1, <1>5, <1>6

LEMMA ReconcileSaveStore ==
  ASSUME StoreInv, WorkerInv, ReconcileSave
  PROVE  StoreGoes
<1> DEFINE x == worker.job.of
           old == memory[x]
           read == worker.seen.memory[x]
           s == Stored(read.status, old.status, "suspended")
           paused == [old EXCEPT !.status = s]
           from == old.revs[worker.job.rev].from
           row == Edited(paused, "lesson", from, "counterexample")
<1>1. /\ worker.at = "reconcile" /\ UNCHANGED <<source, tombs, working, uses>>
      /\ \/ UNCHANGED <<memory, torn>>
         \/ /\ Rewritable(x, worker.job.rev) /\ memory' = [memory EXCEPT ![x] = row]
            /\ torn' = torn \cup (Moved(worker.seen) \cap {x})
  <2>1. worker.at = "reconcile" /\ UNCHANGED <<source, tombs, working, uses>>
    BY Zenon DEF ReconcileSave, At
  <2>2. \/ UNCHANGED <<memory, torn>>
        \/ /\ Rewritable(x, worker.job.rev) /\ memory' = [memory EXCEPT ![x] = row]
           /\ torn' = torn \cup (Moved(worker.seen) \cap {x})
    BY DEF ReconcileSave, Saves, SavesNothing
  <2> QED
    BY <2>1, <2>2
<1>2. /\ worker.job.kind = "reconcile" /\ read.status # "deleted" /\ x \in Lessons
  BY <1>1 DEF WorkerInv, WorkerKnows, WorkerRow, JobRow
<1>3. x \in Memories /\ x \notin Episodes
  BY <1>2, KindsAreDisjoint DEF Memories
<1>4. CASE UNCHANGED <<memory, torn>>
  BY <1>1, <1>4, SavesNothingStore
<1>5. CASE /\ Rewritable(x, worker.job.rev) /\ memory' = [memory EXCEPT ![x] = row]
           /\ torn' = torn \cup (Moved(worker.seen) \cap {x})
  <2>1. /\ worker.job.rev \in 1..Cur(old) /\ old.revs[worker.job.rev].text # "blank"
    BY <1>5 DEF Rewritable
  <2>2. /\ old \in MemoryRow /\ RowStands(memory, source, x, old) /\ Cur(old) \in Nat
        /\ old.act \in 0..Cur(old) /\ old.status # "absent"
    BY <1>3, <2>1, MemoryIs
  <2>3. from \in SUBSET Sources /\ \A o \in from : \E l \in Latest(old).links : Cites(l, o)
    BY <1>2, <2>1, <2>2, RowParts DEF RowStands, RowFits, CitesWhatItSays
  <2>4. TablesGo /\ ForgetsNothing
    <3>1. torn' = torn \/ torn' = torn \cup {x}
      BY <1>5
    <3> QED
      BY <1>1, <1>3, <3>1, JobTables
  <2>5. x \notin torn' => old = read
    BY <1>3, <1>5 DEF Moved
  <2>6. s \in Statuses /\ s # "absent" /\ (old = read => s = "suspended")
    BY <2>2, RowParts DEF Stored, Statuses
  <2> HIDE DEF old, s, from
  <2>7. /\ paused \in MemoryRow /\ paused.status = s /\ paused.act = old.act
        /\ paused.revs = old.revs /\ SameEvidence(old, paused)
    BY <2>2, <2>6, StatusIs
  <2> HIDE DEF paused
  <2>8. Cur(paused) = Cur(old) /\ Latest(paused) = Latest(old)
    BY <2>7 DEF Cur, Latest
  <2>9. EditFits(x, paused, "lesson", from, "counterexample")
    BY <1>3, <2>1, <2>2, <2>3, <2>7, <2>8 DEF EditFits, Texts, Whys
  <2>10. row \in MemoryRow /\ row.status = s /\ row.act = old.act /\ Longer(x, paused, row)
    BY <2>7, <2>9, EditedIs
  <2> HIDE DEF row
  <2>11. Longer(x, old, row)
    BY <2>7, <2>8, <2>10 DEF Longer
  <2>12. row.act \in 0..Cur(row)
    BY <2>2, <2>10, <2>11 DEF Longer
  <2>13. x \notin torn' => /\ UsedAsReviewed(row)
                           /\ old.status # "deleted" /\ row.status # "active"
    BY <1>2, <2>5, <2>6, <2>10 DEF UsedAsReviewed
  <2>14. Follows(x, row)
    BY <1>3, <2>2, <2>4, <2>6, <2>10, <2>11, <2>12, <2>13, SameEvidenceFollows DEF old
  <2> QED
    BY <1>3, <1>5, <2>4, <2>14, OneRowChanges DEF row, paused, old, s, from
<1> QED
  BY <1>1, <1>4, <1>5

\* The text goes, the evidence stays.
LEMMA PurgedIs ==
  ASSUME NEW mem, NEW src, NEW m \in Memories, NEW row \in MemoryRow, row.status = "deleted",
         RowStands(mem, src, m, row)
  PROVE  LET new == Purged(row)
         IN  /\ new \in MemoryRow /\ new.status = "deleted" /\ RowStands(mem, src, m, new)
             /\ Grown(row, new)
<1> DEFINE blank(n) == [row.revs[n] EXCEPT !.text = "blank", !.from = {}]
           revs == [n \in 1..Cur(row) |-> blank(n)]
           new == [status |-> row.status, act |-> row.act, revs |-> revs]
<1>1. /\ Cur(row) \in Nat /\ row.act \in Nat /\ row.status \in Statuses
      /\ row = [status |-> row.status, act |-> row.act, revs |-> row.revs]
  BY RowParts
<1>2. ASSUME NEW n \in 1..Cur(row)
      PROVE  /\ blank(n) \in RevisionRow /\ blank(n).text = "blank" /\ blank(n).from = {}
             /\ blank(n).links = row.revs[n].links
  <2>1. row.revs[n] \in RevisionRow
    BY RowParts
  <2> QED
    BY <2>1 DEF RevisionRow, Texts
<1>3. Purged(row) = new
  <2>1. Purged(row) = [row EXCEPT !.revs = revs]
    BY DEF Purged
  <2> HIDE DEF revs
  <2>2. [row EXCEPT !.revs = revs] = new
    BY <1>1
  <2> QED
    BY <2>1, <2>2
<1> HIDE DEF blank
<1>4. /\ revs \in Seq(RevisionRow) /\ Len(revs) = Cur(row)
      /\ \A n \in 1..Cur(row) : revs[n].text = "blank" /\ revs[n].from = {}
                                 /\ revs[n].links = row.revs[n].links
  BY <1>1, <1>2
<1> HIDE DEF revs
<1>5. new \in MemoryRow /\ new.status = "deleted" /\ new.act = row.act /\ new.revs = revs
      /\ Cur(new) = Cur(row)
  BY <1>1, <1>4 DEF MemoryRow, Cur
<1> HIDE DEF new
<1>6. Written(new)
  BY <1>5 DEF RowStands, RowFits, Written
<1>7. m \in Episodes => SaysItsSource(m, new)
  BY <1>4, <1>5 DEF RowStands, RowFits, SaysItsSource
<1>8. m \in Lessons => CitesWhatItSays(new)
  BY <1>4, <1>5 DEF CitesWhatItSays
<1>9. Rests(mem, src, new) /\ Grown(row, new)
  BY <1>1, <1>4, <1>5 DEF RowStands, Rests, Grown
<1> QED
  BY <1>3, <1>5, <1>6, <1>7, <1>8, <1>9 DEF RowStands, RowFits

LEMMA PurgeContentStore ==
  ASSUME StoreInv, NEW j, PurgeContent(j)
  PROVE  StoreGoes
<1> DEFINE m == j.of
           row == IF memory[m].status = "deleted" THEN Purged(memory[m]) ELSE memory[m]
<1>1. memory' = [memory EXCEPT ![m] = row] /\ UNCHANGED <<source, tombs, working, uses, torn>>
  BY DEF PurgeContent
<1>2. TablesGo /\ ForgetsNothing /\ torn' = torn
  BY <1>1, TablesStay DEF StoreInv
<1>3. CASE m \notin Memories \/ memory[m].status # "deleted"
  <2>1. memory' = memory
    BY <1>1, <1>3 DEF StoreInv
  <2> QED
    BY <1>2, <2>1, NoRowChanges
<1>4. CASE m \in Memories /\ memory[m].status = "deleted"
  <2>1. row = Purged(memory[m])
    BY <1>4
  <2>2. /\ row \in MemoryRow /\ row.status = "deleted" /\ RowStands(memory, source, m, row)
        /\ Grown(memory[m], row)
    BY <1>4, <2>1, MemoryIs, PurgedIs
  <2> HIDE DEF row
  <2>3. Follows(m, row)
    BY <1>1, <1>4, <2>2 DEF Follows, Kept, UsedAsReviewed, Obeys
  <2> QED
    BY <1>1, <1>2, <1>4, <2>3, OneRowChanges
<1> QED
  BY <1>3, <1>4

\* The rows a revalidation works with: as they were read, with what belongs to
\* them as it is looked up.
BasisOf(look, b, m) ==
  b[m] = [status |-> worker.seen.memory[m].status, act |-> worker.seen.memory[m].act,
          revs |-> look.memory[m].revs]

RevalidateFits(look, b, m) ==
  /\ worker.at = "revalidate" /\ look \in {worker.seen, Picture} /\ m \in Memories
  /\ BasisOf(look, b, m)
  /\ m \in Lessons => ~Clashes(worker.seen.memory[m], memory[m], InvalidIn(b, look, m))

LEMMA LookIs ==
  ASSUME StoreInv, WorkerInv, NEW look, NEW b, NEW m, RevalidateFits(look, b, m)
  PROVE  /\ worker.seen \in PictureRow /\ Earlier(worker.seen)
         /\ look \in PictureRow /\ Earlier(look)
         /\ worker.seen.memory[m] \in MemoryRow /\ Written(worker.seen.memory[m])
         /\ Grown(worker.seen.memory[m], memory[m])
         /\ look.memory[m] \in MemoryRow /\ Grown(look.memory[m], memory[m])
         /\ worker.seen.memory[m] = memory[m] => look.memory[m] = memory[m]
<1>1. worker.seen \in PictureRow /\ Earlier(worker.seen)
  BY DEF WorkerInv, WorkerRow, RevalidateFits, Reading
<1>2. Picture \in PictureRow /\ Earlier(Picture) /\ Picture.memory = memory
  BY PictureIs DEF Picture
<1> QED
  BY <1>1, <1>2 DEF RevalidateFits, PictureRow, Earlier

\* What it takes for invalid is invalid in every revision that cites it.
LEMMA RevalidationFits ==
  ASSUME StoreInv, WorkerInv, TablesGo, NEW look, NEW b, NEW m, RevalidateFits(look, b, m),
         Withdraws(worker.seen.memory[m], m, InvalidIn(b, look, m))
  PROVE  WithdrawalFits(memory, source', m, worker.seen.memory[m], memory[m], InvalidIn(b, look, m))
<1> DEFINE read == worker.seen.memory[m]
           row == memory[m]
           invalid == InvalidIn(b, look, m)
<1>1. /\ read \in MemoryRow /\ Written(read) /\ Grown(read, row)
      /\ look.memory[m] \in MemoryRow /\ Grown(look.memory[m], row)
      /\ read = row => look.memory[m] = row
  BY LookIs
<1>2. m \in Memories /\ m \in Lessons /\ read.status # "absent"
  BY DEF RevalidateFits, Withdraws
<1>3. row \in MemoryRow /\ RowStands(memory, source', m, row)
  BY <1>2, MemoryIs, RestsOn DEF RowStands
<1>4. row.status # "absent" /\ Cur(read) <= Cur(row)
  BY <1>1, <1>2 DEF Grown
<1>5. b[m].revs = look.memory[m].revs /\ Cur(b[m]) = Cur(look.memory[m])
  BY DEF RevalidateFits, BasisOf, Cur
<1>6. \A n, l : <<n, l>> \in invalid <=>
        /\ n \in 1..Cur(look.memory[m]) /\ l \in look.memory[m].revs[n].links
        /\ ~EvidenceHolds(b, look.source, look.tombs, l)
  BY <1>5, UnsupportedIs DEF InvalidIn
<1>7. Exact(b[m], invalid)
  BY UnsupportedFits DEF InvalidIn
<1>8. read = row => Exact(row, invalid)
  BY <1>1, <1>5, <1>7 DEF Exact
<1>9. ~Clashes(read, row, invalid)
  BY <1>2 DEF RevalidateFits
<1> HIDE DEF invalid
<1>10. Uniform(row, invalid)
  <2> SUFFICES ASSUME NEW n \in 1..Cur(row), NEW k \in 1..Cur(row), NEW l \in row.revs[n].links,
                      n <= k, <<k, l>> \in invalid
               PROVE  <<n, l>> \in invalid
    BY DEF Uniform
  <2>1. Cur(row) \in Nat /\ Cur(look.memory[m]) \in Nat
    BY <1>1, <1>3, RowParts
  <2>2. n \in 1..Cur(look.memory[m]) /\ ~EvidenceHolds(b, look.source, look.tombs, l)
    BY <1>6, <2>1
  <2>3. l \in look.memory[m].revs[n].links
    BY <1>1, <2>2 DEF Grown
  <2> QED
    BY <1>6, <2>2, <2>3
<1> QED
  BY <1>1, <1>2, <1>3, <1>4, <1>8, <1>9, <1>10 DEF WithdrawalFits, invalid

\* Only what was read as active lapses.
LEMMA LapsesIs ==
  ASSUME NEW look, NEW b, NEW m, BasisOf(look, b, m), Lapses(b, look, m)
  PROVE  worker.seen.memory[m].status = "active"
<1> DEFINE read == worker.seen.memory[m]
           invalid == InvalidIn(b, look, m)
<1>1. Left(b, look, m).status = "active"
  BY DEF Lapses
<1>2. b[m].status = read.status
  BY DEF BasisOf
<1>3. CASE ~Withdraws(read, m, invalid)
  BY <1>1, <1>2, <1>3 DEF Left
<1>4. CASE Withdraws(read, m, invalid) /\ Cur(read) \in Affected(invalid)
  BY <1>1, <1>4 DEF Left
<1>5. CASE Withdraws(read, m, invalid) /\ Cur(read) \notin Affected(invalid)
  <2> DEFINE kept == Stripped(b[m], invalid)
  <2>1. Left(b, look, m) = [b[m] EXCEPT !.revs = kept]
    BY <1>5 DEF Left
  <2> HIDE DEF kept
  <2>2. [b[m] EXCEPT !.revs = kept].status = b[m].status
    BY DEF BasisOf
  <2> QED
    BY <1>1, <1>2, <2>1, <2>2
<1> QED
  BY <1>3, <1>4, <1>5

LEMMA RevalidatedFollows ==
  ASSUME StoreInv, WorkerInv, TablesGo, ForgetsNothing, NEW look, NEW b, NEW m,
         RevalidateFits(look, b, m),
         m \notin torn' => m \notin Moved(worker.seen) \/ Revalidated(b, look, m) = memory[m]
  PROVE  Follows(m, Revalidated(b, look, m))
<1> DEFINE read == worker.seen.memory[m]
           row == memory[m]
           invalid == InvalidIn(b, look, m)
           new == AfterWithdrawal(read, row, m, invalid)
           final == Revalidated(b, look, m)
<1>1. m \in Memories /\ read \in MemoryRow /\ Written(read) /\ Grown(read, row)
  BY LookIs DEF RevalidateFits
<1>2. row \in MemoryRow /\ RowStands(memory, source', m, row)
  BY <1>1, MemoryIs, RestsOn DEF RowStands
<1>3. /\ new \in MemoryRow /\ new.status \in {row.status, "suspended"}
      /\ RowStands(memory, source', m, new) /\ Grown(row, new)
      /\ ~Withdraws(read, m, invalid) => new = row
      /\ Withdraws(read, m, invalid) => LeftCited(row, new, invalid)
      /\ read = row /\ UsedAsReviewed(row) => UsedAsReviewed(new)
  BY <1>1, <1>2, RevalidationFits, AfterWithdrawalStands
<1>4. /\ Lapses(b, look, m) => final = [new EXCEPT !.status = "suspended"] /\ read.status = "active"
      /\ ~Lapses(b, look, m) => final = new
  BY LapsesIs DEF Revalidated, RevalidateFits
<1>5. CitesNothingForgotten(row, tombs) => CitesNothingForgotten(new, tombs)
  BY <1>3, LeftCitesLess
<1> HIDE DEF new, final, invalid
<1>6. /\ final \in MemoryRow /\ RowStands(memory, source', m, final) /\ Grown(new, final)
      /\ final.status \in {new.status, "suspended"}
      /\ CitesNothingForgotten(new, tombs) => CitesNothingForgotten(final, tombs)
      /\ UsedAsReviewed(new) => UsedAsReviewed(final)
      /\ read.status # "active" => final = new
  <2>1. CASE Lapses(b, look, m)
    <3>1. row.status # "absent" /\ new.status # "absent" /\ new.act \in 0..Cur(new)
      BY <1>1, <1>3, <1>4, <2>1 DEF Grown, RowStands, RowFits, Written
    <3> DEFINE out == [new EXCEPT !.status = "suspended"]
    <3>2. out \in MemoryRow /\ out.status = "suspended" /\ out.act = new.act /\ SameEvidence(new, out)
      BY <1>3, StatusIs DEF Statuses
    <3>3. final = out
      BY <1>4, <2>1
    <3> HIDE DEF out
    <3>4. /\ RowStands(memory, source', m, out) /\ Grown(new, out)
          /\ CitesNothingForgotten(new, tombs) => CitesNothingForgotten(out, tombs)
      BY <1>1, <1>3, <3>1, <3>2, SameEvidenceStands
    <3> QED
      BY <1>4, <2>1, <3>2, <3>3, <3>4 DEF UsedAsReviewed
  <2>2. CASE ~Lapses(b, look, m)
    <3>1. final = new /\ Grown(new, new)
      BY <1>3, <1>4, <2>2, RowParts DEF Grown
    <3> QED
      BY <1>3, <3>1
  <2> QED
    BY <2>1, <2>2
<1>7. Grown(row, final)
  BY <1>2, <1>3, <1>6, GrownOn
<1>8. ASSUME m \notin torn', final # row
      PROVE  Kept(m, final, tombs') /\ Obeys(row, final, m)
  <2>1. read = row
    BY <1>1, <1>8 DEF Moved, final
  <2>2. Kept(m, row, tombs)
    BY <1>1, <1>8, MemoryIs DEF TablesGo
  <2>3. row.status = "deleted" => final = row
    BY <1>3, <1>6, <2>1 DEF Withdraws
  <2>4. CitesNothingForgotten(row, tombs) => CitesNothingForgotten(final, tombs')
    BY <1>5, <1>6, CitesOn
  <2> QED
    BY <1>3, <1>6, <1>8, <2>1, <2>2, <2>3, <2>4 DEF Kept, Obeys
<1>9. CASE final = row
  <2>1. Follows(m, memory[m])
    BY <1>1, RowStaysCited
  <2> QED
    BY <1>9, <2>1 DEF final
<1>10. CASE final # row
  BY <1>6, <1>7, <1>8, <1>10 DEF Follows, final
<1> QED
  BY <1>9, <1>10

\* What a revalidation writes.
RevalidateWrites(look, mem) ==
  LET Basis(m) == IF m \in Episodes THEN LoadedWith(look) ELSE mem
      Row(m) == Revalidated(Basis(m), look, m)
  IN  /\ \A m \in Memories : BasisOf(look, Basis(m), m)
      /\ \A x \in Lessons : ~Clashes(worker.seen.memory[x], memory[x], InvalidIn(mem, look, x))
      /\ memory' = [m \in Memories |-> Row(m)]
      /\ torn' = torn \cup {m \in Moved(worker.seen) : Row(m) # memory[m]}

LEMMA RevalidateSaveIs ==
  ASSUME StoreInv, WorkerInv, RevalidateSave
  PROVE  /\ worker.at = "revalidate" /\ UNCHANGED <<source, tombs, working, uses>>
         /\ \/ UNCHANGED <<memory, torn>>
            \/ \E look \in {worker.seen, Picture} : \E mem : RevalidateWrites(look, mem)
<1>1. worker.at = "revalidate" /\ UNCHANGED <<source, tombs, working, uses>>
  BY Zenon DEF RevalidateSave, At
<1>2. \A m \in Memories : worker.seen.memory[m] \in MemoryRow
  BY <1>1 DEF WorkerInv, WorkerRow, PictureRow
<1>3. ASSUME NEW look PROVE \A m \in Memories : BasisOf(look, LoadedWith(look), m)
  <2> SUFFICES ASSUME NEW m \in Memories PROVE BasisOf(look, LoadedWith(look), m)
    OBVIOUS
  <2>1. LoadedWith(look)[m] = [worker.seen.memory[m] EXCEPT !.revs = look.memory[m].revs]
    BY DEF LoadedWith
  <2>2. worker.seen.memory[m] \in MemoryRow
    BY <1>2
  <2> QED
    BY <2>1, <2>2 DEF BasisOf, MemoryRow
<1>4. PICK look \in {worker.seen, Picture} :
        LET loaded == LoadedWith(look)
            lapsed == [m \in Memories |->
                         IF m \in Episodes /\ Lapses(loaded, look, m)
                         THEN [loaded[m] EXCEPT !.status = "suspended"] ELSE loaded[m]]
        IN  \E mem \in {loaded, lapsed} :
              LET Basis(m) == IF m \in Episodes THEN loaded ELSE mem
                  Row(m) == Revalidated(Basis(m), look, m)
              IN  IF \E x \in Lessons : Clashes(worker.seen.memory[x], memory[x],
                                                InvalidIn(mem, look, x))
                  THEN UNCHANGED <<memory, torn>>
                  ELSE /\ memory' = [m \in Memories |-> Row(m)]
                       /\ torn' = torn \cup {m \in Moved(worker.seen) : Row(m) # memory[m]}
  BY Zenon DEF RevalidateSave, Saves, SavesNothing
<1> DEFINE loaded == LoadedWith(look)
           lapsed == [m \in Memories |->
                        IF m \in Episodes /\ Lapses(loaded, look, m)
                        THEN [loaded[m] EXCEPT !.status = "suspended"] ELSE loaded[m]]
<1>5. PICK mem \in {loaded, lapsed} :
        LET Basis(m) == IF m \in Episodes THEN loaded ELSE mem
            Row(m) == Revalidated(Basis(m), look, m)
        IN  IF \E x \in Lessons : Clashes(worker.seen.memory[x], memory[x],
                                          InvalidIn(mem, look, x))
            THEN UNCHANGED <<memory, torn>>
            ELSE /\ memory' = [m \in Memories |-> Row(m)]
                 /\ torn' = torn \cup {m \in Moved(worker.seen) : Row(m) # memory[m]}
  BY <1>4, Zenon
<1>6. \A m \in Memories \ Episodes : mem[m] = loaded[m]
  OBVIOUS
<1> HIDE DEF lapsed
<1>7. \A m \in Memories : BasisOf(look, IF m \in Episodes THEN loaded ELSE mem, m)
  BY <1>3, <1>6 DEF BasisOf
<1>8. CASE \E x \in Lessons : Clashes(worker.seen.memory[x], memory[x], InvalidIn(mem, look, x))
  BY <1>1, <1>5, <1>8, Zenon
<1>9. CASE ~ \E x \in Lessons : Clashes(worker.seen.memory[x], memory[x], InvalidIn(mem, look, x))
  <2>1. RevalidateWrites(look, mem)
    BY <1>5, <1>7, <1>9, Zenon DEF RevalidateWrites
  <2> QED
    BY <1>1, <2>1
<1> QED
  BY <1>8, <1>9

LEMMA RevalidateSaveStore ==
  ASSUME StoreInv, WorkerInv, RevalidateSave
  PROVE  StoreGoes
<1>1. /\ worker.at = "revalidate" /\ UNCHANGED <<source, tombs, working, uses>>
      /\ \/ UNCHANGED <<memory, torn>>
         \/ \E look \in {worker.seen, Picture} : \E mem : RevalidateWrites(look, mem)
  BY RevalidateSaveIs
<1>2. CASE UNCHANGED <<memory, torn>>
  BY <1>1, <1>2, SavesNothingStore
<1>3. ASSUME NEW look \in {worker.seen, Picture}, NEW mem, RevalidateWrites(look, mem)
      PROVE  StoreGoes
  <2> DEFINE Basis(m) == IF m \in Episodes THEN LoadedWith(look) ELSE mem
             Row(m) == Revalidated(Basis(m), look, m)
  <2>1. /\ \A m \in Memories : BasisOf(look, Basis(m), m)
        /\ \A x \in Lessons : ~Clashes(worker.seen.memory[x], memory[x], InvalidIn(mem, look, x))
        /\ memory' = [m \in Memories |-> Row(m)]
        /\ torn' = torn \cup {m \in Moved(worker.seen) : Row(m) # memory[m]}
    BY <1>3, Zenon DEF RevalidateWrites
  <2>2. torn \subseteq torn' /\ torn' \subseteq Removed
    BY <2>1 DEF Moved, StoreInv, Removed
  <2>3. TablesGo /\ ForgetsNothing
    BY <1>1, <2>2, TablesStay DEF StoreInv
  <2>4. ASSUME NEW m \in Memories PROVE Follows(m, Row(m))
    <3>1. m \in Lessons => Basis(m) = mem
      BY KindsAreDisjoint
    <3> DEFINE b == Basis(m)
    <3>2. BasisOf(look, b, m)
      BY <2>1
    <3>3. m \in Lessons => ~Clashes(worker.seen.memory[m], memory[m], InvalidIn(b, look, m))
      BY <2>1, <3>1
    <3>4. m \notin torn' => m \notin Moved(worker.seen) \/ Revalidated(b, look, m) = memory[m]
      BY <2>1
    <3> HIDE DEF b
    <3>5. RevalidateFits(look, b, m)
      BY <1>1, <3>2, <3>3 DEF RevalidateFits
    <3>6. Follows(m, Revalidated(b, look, m))
      BY <2>3, <3>4, <3>5, RevalidatedFollows
    <3> QED
      BY <3>6 DEF b
  <2> HIDE DEF Row
  <2>5. memory' \in [Memories -> MemoryRow] /\ \A m \in Memories : Follows(m, memory'[m])
    BY <2>1, <2>4 DEF Follows
  <2> QED
    BY <2>3, <2>5 DEF StoreGoes
<1> QED
  BY <1>1, <1>2, <1>3
-----------------------------------------------------------------------------
(* Every step.                                                              *)

LEMMA UserStore ==
  ASSUME StoreInv, CallsInv, UserStep
  PROVE  StoreGoes
<1>0. uses \subseteq Lessons \X Nat
  BY DEF StoreInv
<1>1. ASSUME NEW x \in Lessons, NEW confirm \in BOOLEAN, Create(x, confirm) PROVE StoreGoes
  BY <1>1, CreateStore
<1>2. ASSUME NEW m \in Memories, NEW kind \in DOMAIN Allowed, Ask(kind, m) PROVE StoreGoes
  BY <1>0, <1>2, QuietStore DEF Ask, Begins
<1>3. ASSUME NEW c \in Conversations, AskForget(c) PROVE StoreGoes
  BY <1>0, <1>3, QuietStore DEF AskForget, Begins
<1>4. ASSUME NEW c \in Conversations, KeepSources(c) PROVE StoreGoes
  BY <1>4, KeepSourcesStore
<1>5. ASSUME NEW j \in jobs.failed, RetryJob(j) PROVE StoreGoes
  BY <1>0, <1>5, QuietStore DEF RetryJob, AtOnce
<1>6. ASSUME NEW t \in open, Edit(t) \/ Confirm(t) \/ Reject(t) PROVE StoreGoes
  BY <1>6, EditStore, ConfirmStore, RejectStore
<1>7. ASSUME NEW t \in open, SuspendOrArchive(t) \/ Delete(t) PROVE StoreGoes
  BY <1>7, PutAwayStore
<1>8. ASSUME NEW t \in open, ForgetSource(t) PROVE StoreGoes
  BY <1>8, ForgetSourceStore
<1> QED
  BY <1>1, <1>2, <1>3, <1>4, <1>5, <1>6, <1>7, <1>8 DEF UserStep

LEMMA AgentStore ==
  ASSUME StoreInv, CallsInv, AgentStep
  PROVE  StoreGoes
<1>0. uses \subseteq Lessons \X Nat
  BY DEF StoreInv
<1>1. ASSUME NEW e \in Episodes, NEW f \in Findings, AskRecord(e, f) PROVE StoreGoes
  BY <1>0, <1>1, QuietStore DEF AskRecord, Begins
<1>2. ASSUME NEW e \in Episodes, RunFinished(e) PROVE StoreGoes
  BY <1>0, <1>2, QuietStore DEF RunFinished, AtOnce
<1>3. ASSUME NEW x \in Lessons, NEW a \in Agents, AskPropose(x, a) PROVE StoreGoes
  BY <1>0, <1>3, QuietStore DEF AskPropose, Begins
<1>4. ASSUME NEW x \in Lessons, Adopt(x) PROVE StoreGoes
  BY <1>4, UseStore
<1>5. ASSUME NEW use \in uses, NEW matched \in BOOLEAN, CounterExample(use[1], use[2], matched)
      PROVE  StoreGoes
  <2>1. use[1] \in Lessons /\ use[2] \in Nat
    BY <1>0
  <2> QED
    BY <1>5, <2>1, UseStore
<1>6. ASSUME NEW t \in open, RecordTool(t) \/ Propose(t) PROVE StoreGoes
  BY <1>6, RecordToolStore, ProposeStore
<1> QED
  BY <1>1, <1>2, <1>3, <1>4, <1>5, <1>6 DEF AgentStep

LEMMA WorkerStore ==
  ASSUME StoreInv, WorkerInv, WorkerStep
  PROVE  StoreGoes
<1>1. ASSUME NEW j \in Due, SyncRead(j) PROVE StoreGoes
  BY <1>1, SavesNothingStore DEF SyncRead, Takes
<1>2. ASSUME NEW j \in Due, NEW e \in Episodes, CaptureRead(j, e) PROVE StoreGoes
  BY <1>2, SavesNothingStore DEF CaptureRead, Takes
<1>3. ASSUME NEW j \in Due, ExtractRead(j) PROVE StoreGoes
  BY <1>3, SavesNothingStore DEF ExtractRead, Takes
<1>4. ASSUME NEW j \in Due, ReconcileRead(j) PROVE StoreGoes
  BY <1>4, SavesNothingStore DEF ReconcileRead, Takes
<1>5. ASSUME NEW j \in Due, RevalidateRead(j) PROVE StoreGoes
  BY <1>5, SavesNothingStore DEF RevalidateRead, Takes
<1>6. ASSUME NEW j \in Due, PurgeContent(j) PROVE StoreGoes
  BY <1>6, PurgeContentStore
<1>7. ASSUME SyncCall \/ SyncCheck \/ SyncRecord PROVE StoreGoes
  BY <1>7, SavesNothingStore DEF SyncCall, SyncCheck, SyncRecord, SavesNothing, store
<1>8. ASSUME NEW e \in Episodes, CaptureSave(e) PROVE StoreGoes
  BY <1>8, CaptureSaveStore
<1>9. ASSUME NEW useful \in BOOLEAN, ModelAnswers(useful) PROVE StoreGoes
  BY <1>9, SavesNothingStore DEF ModelAnswers, SavesNothing
<1>10. ASSUME ExtractCheck PROVE StoreGoes
  BY <1>10, SavesNothingStore DEF ExtractCheck, SavesNothing
<1>11. ASSUME NEW x \in Lessons, NEW e \in Episodes, ExtractSave(x, e) PROVE StoreGoes
  BY <1>11, ExtractSaveStore
<1>12. ASSUME ReconcileSave \/ RevalidateSave PROVE StoreGoes
  BY <1>12, ReconcileSaveStore, RevalidateSaveStore
<1>13. ASSUME Settle PROVE StoreGoes
  BY <1>13, SavesNothingStore DEF Settle, store
<1> QED
  BY <1>1, <1>2, <1>3, <1>4, <1>5, <1>6, <1>7, <1>8, <1>9, <1>10, <1>11, <1>12, <1>13
     DEF WorkerStep

\* Whatever the step: no row loses what holds of it, unless it is torn.
LEMMA StoreStep ==
  ASSUME StoreInv, CallsInv, WorkerInv, [Next]_vars
  PROVE  StoreGoes
<1>1. CASE UserStep
  BY <1>1, UserStore
<1>2. CASE AgentStep
  BY <1>2, AgentStore
<1>3. CASE WorkerStep
  BY <1>3, WorkerStore
<1>4. ASSUME NEW t \in open, GivesUp(t) PROVE StoreGoes
  <2>1. UNCHANGED <<memory, source, tombs, working, uses, torn>>
    BY <1>4 DEF GivesUp, Commits
  <2> QED
    BY <2>1, SavesNothingStore
<1>5. ASSUME NEW j \in Due, FaultAtOnce(j) PROVE StoreGoes
  BY <1>5, SavesNothingStore DEF FaultAtOnce, Takes
<1>6. CASE Fault \/ Crash \/ UNCHANGED vars
  BY <1>6, SavesNothingStore DEF Fault, Crash, vars, store
<1> QED
  BY <1>1, <1>2, <1>3, <1>4, <1>5, <1>6 DEF Next

-----------------------------------------------------------------------------
(* The pictures, step by step.                                              *)

\* A call that begins.
LEMMA CallBegins ==
  ASSUME StoreInv, CallsInv, StoreGoes,
         NEW kind \in DOMAIN Allowed \cup {"forget", "record", "propose"}, NEW o \in Removed,
         NEW w \in Findings \cup Agents \cup {"none"},
         CallKnows([kind |-> kind, of |-> o, with |-> w, seen |-> Picture]),
         open' = open \cup {[kind |-> kind, of |-> o, with |-> w, seen |-> Picture]}
  PROVE  CallsInv'
<1> DEFINE new == [kind |-> kind, of |-> o, with |-> w, seen |-> Picture]
<1>1. Picture \in PictureRow /\ Earlier(Picture)
  BY PictureIs
<1>2. new \in CallRow /\ new.seen = Picture
  BY <1>1 DEF CallRow
<1> HIDE DEF new
<1>3. ASSUME NEW t \in open'
      PROVE  t \in CallRow /\ Earlier(t.seen) /\ CallKnows(t)
  <2>1. CASE t \in open
    BY <2>1 DEF CallsInv
  <2>2. CASE t = new
    BY <1>1, <1>2, <2>2 DEF new
  <2> QED
    BY <1>2, <2>1, <2>2 DEF new
<1>4. ASSUME NEW t \in open'
      PROVE  t \in CallRow /\ Earlier(t.seen)' /\ CallKnows(t)'
  <2>1. t.seen \in PictureRow
    BY <1>3 DEF CallRow
  <2>2. Earlier(t.seen)'
    BY <1>3, <2>1, EarlierStays DEF Earlier
  <2>3. CallKnows(t)'
    BY <1>3 DEF CallKnows, Admits, Read, Confirmable
  <2> QED
    BY <1>3, <2>2, <2>3
<1> QED
  BY <1>4 DEF CallsInv

LEMMA CallsStay ==
  ASSUME StoreInv, CallsInv, StoreGoes, open' \subseteq open
  PROVE  CallsInv'
<1>1. ASSUME NEW t \in open'
      PROVE  t \in CallRow /\ Earlier(t.seen)' /\ CallKnows(t)'
  <2>1. t \in CallRow /\ Earlier(t.seen) /\ CallKnows(t) /\ t.seen \in PictureRow
    BY DEF CallsInv, CallRow
  <2>2. Earlier(t.seen)'
    BY <2>1, EarlierStays DEF Earlier
  <2>3. CallKnows(t)'
    BY <2>1 DEF CallKnows, Admits, Read, Confirmable
  <2> QED
    BY <2>1, <2>2, <2>3
<1> QED
  BY <1>1 DEF CallsInv
-----------------------------------------------------------------------------
(* The queue.                                                               *)

InBatches(queue) == UNION {queue[i] : i \in DOMAIN queue}

Waiting(js) == InBatches(js.queue) \cup js.late \cup js.failed

\* A sync job that is not done accounts for the version it is about.
Accounts(j, p) == j.kind = "sync" /\ j.op # "done" /\ Point(j) = p

Accounted(js, w, p) == \E j \in Waiting(js) \cup {w.job} : Accounts(j, p)

JobsInv ==
  /\ jobs \in JobsType
  /\ worker \in WorkerRow
  /\ WorkerKnows
  /\ \A p \in (vectors \ indexed) \cup (indexed \ vectors) : Accounted(jobs, worker, p)

LEMMA JobIs ==
  ASSUME NEW kind \in Kinds, NEW o \in Removed \cup {"none"}, NEW n \in Nat,
         NEW op \in Ops, kind = "reconcile" => o \in Lessons
  PROVE  /\ Job(kind, o, n, op) \in JobRow /\ Job(kind, o, n, op).kind = kind
         /\ Job(kind, o, n, op).of = o /\ Job(kind, o, n, op).rev = n
         /\ Job(kind, o, n, op).op = op
  BY DEF Job, JobRow

LEMMA SyncJobIs ==
  ASSUME NEW m \in Memories, NEW row, Indexable(row) \in Nat, NEW op \in {"upsert", "purge"}
  PROVE  SyncJob(m, row, op) \in JobRow
  BY JobIs DEF SyncJob, Kinds, Ops, Removed

LEMMA RowSyncJob ==
  ASSUME NEW m \in Memories, NEW row \in MemoryRow, NEW op \in {"upsert", "purge"}
  PROVE  SyncJob(m, row, op) \in JobRow
<1>1. Indexable(row) \in Nat
  BY RowParts DEF Indexable
<1> QED
  BY <1>1, SyncJobIs

LEMMA AttemptIs ==
  ASSUME NEW j \in JobRow
  PROVE  /\ Attempt(j) \in JobRow /\ Attempt(j).kind = j.kind /\ Attempt(j).op = j.op
         /\ Point(Attempt(j)) = Point(j)
  BY DEF Attempt, JobRow, Point

LEMMA DoneIs ==
  ASSUME NEW j \in JobRow
  PROVE  /\ [j EXCEPT !.op = "done"] \in JobRow
         /\ [j EXCEPT !.op = "done"].kind = j.kind /\ [j EXCEPT !.op = "done"].op = "done"
  BY DEF JobRow, Ops

LEMMA AgainIs ==
  ASSUME NEW j \in JobRow
  PROVE  /\ [j EXCEPT !.attempts = 0] \in JobRow
         /\ \A p : Accounts(j, p) => Accounts([j EXCEPT !.attempts = 0], p)
  BY DEF JobRow, Accounts, Point

LEMMA BatchBehind ==
  ASSUME NEW queue \in Seq(SUBSET JobRow), NEW batch \in SUBSET JobRow
  PROVE  /\ queue \o Queued(batch) \in Seq(SUBSET JobRow)
         /\ InBatches(queue \o Queued(batch)) = InBatches(queue) \cup batch
<1>1. CASE batch = {}
  BY <1>1 DEF Queued, InBatches
<1>2. CASE batch # {}
  <2>1. Queued(batch) = <<batch>>
    BY <1>2 DEF Queued
  <2> DEFINE all == queue \o <<batch>>
  <2>2. /\ all \in Seq(SUBSET JobRow) /\ Len(all) = Len(queue) + 1 /\ Len(queue) \in Nat
        /\ \A i \in 1..Len(queue) : all[i] = queue[i]
        /\ all[Len(queue) + 1] = batch
        /\ DOMAIN all = 1..(Len(queue) + 1) /\ DOMAIN queue = 1..Len(queue)
    OBVIOUS
  <2> HIDE DEF all
  <2>3. InBatches(all) = InBatches(queue) \cup batch
    BY <2>2 DEF InBatches
  <2> QED
    BY <2>1, <2>2, <2>3 DEF all
<1> QED
  BY <1>1, <1>2

\* What is left of the queue when a job of its first batch is claimed.
LEMMA BatchInFront ==
  ASSUME NEW queue \in Seq(SUBSET JobRow), queue # <<>>, NEW j
  PROVE  LET rest == Queued(Head(queue) \ {j}) \o Tail(queue)
         IN  /\ Head(queue) \subseteq InBatches(queue)
             /\ rest \in Seq(SUBSET JobRow)
             /\ InBatches(queue) \subseteq InBatches(rest) \cup {j}
<1> DEFINE batch == Head(queue) \ {j}
           tail == Tail(queue)
<1>1. /\ Len(queue) \in Nat /\ Len(queue) > 0 /\ Head(queue) = queue[1]
      /\ tail \in Seq(SUBSET JobRow) /\ Len(tail) = Len(queue) - 1
      /\ \A i \in 1..Len(tail) : tail[i] = queue[i + 1]
      /\ DOMAIN queue = 1..Len(queue) /\ DOMAIN tail = 1..Len(tail)
      /\ batch \in SUBSET JobRow
  <2>1. Len(queue) \in Nat /\ Len(queue) > 0 /\ DOMAIN queue = 1..Len(queue)
        /\ Head(queue) = queue[1] /\ Head(queue) \in SUBSET JobRow
    OBVIOUS
  <2>2. /\ tail \in Seq(SUBSET JobRow) /\ Len(tail) = Len(queue) - 1
        /\ \A i \in 1..Len(tail) : tail[i] = queue[i + 1]
        /\ DOMAIN tail = 1..Len(tail)
    BY HeadTailProperties
  <2> QED
    BY <2>1, <2>2
<1>2. Head(queue) \subseteq InBatches(queue)
  BY <1>1 DEF InBatches
<1>3. \A k \in InBatches(queue) : k \in Head(queue) \/ k \in InBatches(tail)
  <2> SUFFICES ASSUME NEW i \in 1..Len(queue), NEW k \in queue[i], k \notin Head(queue)
               PROVE  k \in InBatches(tail)
    BY <1>1 DEF InBatches
  <2>1. i - 1 \in 1..Len(tail) /\ tail[i - 1] = queue[i]
    BY <1>1
  <2> QED
    BY <1>1, <2>1 DEF InBatches
<1> HIDE DEF tail
<1>4. CASE batch = {}
  <2>1. Queued(batch) \o tail = tail
    BY <1>1, <1>4 DEF Queued
  <2> QED
    BY <1>1, <1>2, <1>3, <1>4, <2>1 DEF tail
<1>5. CASE batch # {}
  <2> DEFINE rest == <<batch>> \o tail
  <2>1. Queued(batch) = <<batch>>
    BY <1>5 DEF Queued
  <2>2. /\ rest \in Seq(SUBSET JobRow) /\ DOMAIN rest = 1..(Len(tail) + 1) /\ Len(tail) \in Nat
        /\ rest[1] = batch /\ \A i \in 1..Len(tail) : rest[i + 1] = tail[i]
    BY <1>1
  <2> HIDE DEF rest
  <2>3. batch \subseteq InBatches(rest) /\ InBatches(tail) \subseteq InBatches(rest)
    BY <1>1, <2>2 DEF InBatches
  <2> QED
    BY <1>1, <1>2, <1>3, <2>1, <2>2, <2>3 DEF tail, rest
<1> QED
  BY <1>4, <1>5

LEMMA DueIs ==
  ASSUME jobs \in JobsType, NEW j \in Due
  PROVE  /\ j \in JobRow /\ j \in Waiting(jobs)
         /\ Unclaimed(j) \in JobsType
         /\ Waiting(jobs) \subseteq Waiting(Unclaimed(j)) \cup {j}
<1>1. /\ jobs.queue \in Seq(SUBSET JobRow) /\ jobs.late \in SUBSET JobRow
      /\ jobs.failed \in SUBSET JobRow
      /\ jobs = [queue |-> jobs.queue, late |-> jobs.late, failed |-> jobs.failed]
  BY DEF JobsType
<1>2. CASE j \in jobs.late
  <2>1. Unclaimed(j) = [queue |-> jobs.queue, late |-> jobs.late \ {j}, failed |-> jobs.failed]
    BY <1>1, <1>2 DEF Unclaimed
  <2> QED
    BY <1>1, <1>2, <2>1 DEF JobsType, Waiting
<1>3. CASE j \notin jobs.late
  <2> DEFINE rest == Queued(Head(jobs.queue) \ {j}) \o Tail(jobs.queue)
  <2>1. jobs.queue # <<>> /\ j \in Head(jobs.queue)
    BY <1>3 DEF Due
  <2>2. /\ Head(jobs.queue) \subseteq InBatches(jobs.queue)
        /\ rest \in Seq(SUBSET JobRow)
        /\ InBatches(jobs.queue) \subseteq InBatches(rest) \cup {j}
    BY <1>1, <2>1, BatchInFront
  <2>3. j \in JobRow
    <3>1. Head(jobs.queue) \in SUBSET JobRow
      BY <1>1, <2>1
    <3> QED
      BY <2>1, <3>1
  <2>4. Unclaimed(j) = [jobs EXCEPT !.queue = rest]
    BY <1>3 DEF Unclaimed
  <2> HIDE DEF rest
  <2>5. Unclaimed(j) = [queue |-> rest, late |-> jobs.late, failed |-> jobs.failed]
    BY <1>1, <2>4
  <2> QED
    BY <1>1, <2>1, <2>2, <2>3, <2>5 DEF JobsType, Waiting
<1> QED
  BY <1>2, <1>3

\* Whatever waits goes on waiting, and a new entry of the outbox is never
\* left out for a job that has the same key.
LEMMA QueueOnIs ==
  ASSUME NEW waiting \in JobsType, NEW new \in SUBSET JobRow, QueueOn(waiting, new)
  PROVE  /\ jobs' \in JobsType /\ Waiting(waiting) \subseteq Waiting(jobs')
         /\ \A j \in new : j.kind = "sync" => j \in Waiting(jobs')
<1> DEFINE fresh == {j \in new : j.kind = "sync" \/ j \notin keys}
           due == {j \in fresh : j.kind # "purge"}
           queue == waiting.queue \o Queued(due)
<1>1. /\ waiting.queue \in Seq(SUBSET JobRow) /\ waiting.late \in SUBSET JobRow
      /\ waiting.failed \in SUBSET JobRow
  BY DEF JobsType
<1>2. jobs' = [queue |-> queue, late |-> waiting.late \cup (fresh \ due),
               failed |-> waiting.failed]
  BY DEF QueueOn
<1>3. due \in SUBSET JobRow /\ fresh \in SUBSET JobRow /\ \A j \in new : j.kind = "sync" => j \in due
  OBVIOUS
<1> HIDE DEF due, fresh
<1>4. queue \in Seq(SUBSET JobRow) /\ InBatches(queue) = InBatches(waiting.queue) \cup due
  BY <1>1, <1>3, BatchBehind
<1> HIDE DEF queue
<1> QED
  BY <1>1, <1>2, <1>3, <1>4 DEF JobsType, Waiting
-----------------------------------------------------------------------------
(* The worker, from place to place.                                         *)

LEMMA WorkerIs ==
  ASSUME JobsInv
  PROVE  /\ worker.job \in JobRow /\ worker.ok \in BOOLEAN /\ worker.seen \in PictureRow
         /\ NoJob \in JobRow /\ NoJob.kind = "none" /\ NoPicture \in PictureRow
         /\ Idle \in WorkerRow /\ Idle.at = "idle" /\ Idle.job = NoJob
<1>1. Absent \in MemoryRow /\ NoSource \in SourceRow
  BY DEF Absent, MemoryRow, Statuses, NoSource, SourceRow, Access
<1>2. NoPicture \in PictureRow
  BY <1>1 DEF NoPicture, PictureRow
<1>3. NoJob \in JobRow /\ NoJob.kind = "none"
  BY DEF NoJob, Job, JobRow, Kinds, Ops
<1> QED
  BY <1>2, <1>3 DEF JobsInv, WorkerRow, Idle

LEMMA GoIs ==
  ASSUME JobsInv, NEW place \in {"index", "record", "mark", "cleanup", "model", "propose", "settle"},
         NEW job \in JobRow, NEW ok \in BOOLEAN, Go(place, job, ok)
  PROVE  /\ worker' \in WorkerRow /\ worker'.at = place /\ worker'.job = job /\ worker'.ok = ok
         /\ worker'.at \notin Reading
  BY WorkerIs DEF Go, WorkerRow, Reading

LEMMA HoldsIs ==
  ASSUME StoreInv, NEW place \in Reading, NEW job \in JobRow, Holds(place, job)
  PROVE  /\ worker' \in WorkerRow /\ worker'.at = place /\ worker'.job = job
         /\ worker'.seen = Picture
<1>1. Picture \in PictureRow
  BY PictureIs
<1> QED
  BY <1>1 DEF Holds, WorkerRow

\* The end of an attempt is good for nothing else, and what is not to be
\* tried again has been done.
LEMMA EndIs ==
  ASSUME JobsInv, NEW job \in JobRow,
         Errs(job) \/ (Ends(job) /\ (job.kind # "sync" \/ job.op = "done"))
  PROVE  worker' \in WorkerRow /\ worker'.job = job /\ WorkerKnows' /\ worker'.at \notin Reading
<1>1. ASSUME NEW ok \in BOOLEAN, Go("settle", job, ok),
             ~ok \/ job.kind # "sync" \/ job.op = "done"
      PROVE  worker' \in WorkerRow /\ worker'.job = job /\ WorkerKnows' /\ worker'.at \notin Reading
  <2>1. /\ worker' \in WorkerRow /\ worker'.at = "settle" /\ worker'.job = job /\ worker'.ok = ok
        /\ worker'.at \notin Reading
    BY <1>1, GoIs
  <2>2. WorkerKnows'
    BY <1>1, <2>1 DEF WorkerKnows
  <2> QED
    BY <2>1, <2>2
<1>2. CASE Errs(job)
  <2>1. Go("settle", job, FALSE)
    BY <1>2 DEF Errs
  <2> QED
    BY <1>1, <2>1
<1>3. CASE Ends(job) /\ (job.kind # "sync" \/ job.op = "done")
  <2>1. Go("settle", job, TRUE)
    BY <1>3 DEF Ends
  <2> QED
    BY <1>1, <1>3, <2>1
<1> QED
  BY <1>2, <1>3

\* A step that does not touch the index and loses no entry that is to be done.
LEMMA EntriesKept ==
  ASSUME JobsInv, UNCHANGED <<vectors, indexed>>, jobs' \in JobsType, worker' \in WorkerRow,
         WorkerKnows',
         \A p : Accounted(jobs, worker, p) => Accounted(jobs', worker', p)
  PROVE  JobsInv'
  BY DEF JobsInv, WorkerRow, Accounted, JobsType

\* The worker keeps its job, or nobody looks at it: jobs are added.
LEMMA QueueKeeps ==
  ASSUME JobsInv, UNCHANGED <<vectors, indexed>>, worker' \in WorkerRow, WorkerKnows',
         worker'.job = worker.job,
         NEW new \in SUBSET JobRow, Queue(new) \/ UNCHANGED jobs
  PROVE  JobsInv'
<1>1. jobs \in JobsType
  BY DEF JobsInv
<1>2. jobs' \in JobsType /\ Waiting(jobs) \subseteq Waiting(jobs')
  BY <1>1, QueueOnIs DEF Queue
<1>3. \A p : Accounted(jobs, worker, p) => Accounted(jobs', worker', p)
  BY <1>2 DEF Accounted
<1> QED
  BY <1>2, <1>3, EntriesKept

\* Requests leave the worker alone.
LEMMA RequestKeeps ==
  ASSUME JobsInv, UNCHANGED <<worker, vectors, indexed>>,
         NEW new \in SUBSET JobRow, Queue(new) \/ UNCHANGED jobs
  PROVE  JobsInv'
<1>1. worker' \in WorkerRow /\ WorkerKnows' /\ worker'.job = worker.job
  BY DEF JobsInv, WorkerRow, WorkerKnows, EpisodeKnown
<1> QED
  BY <1>1, QueueKeeps

\* The worker claims a job, and does not lose it.
LEMMA ClaimKeeps ==
  ASSUME JobsInv, At("idle"), NEW j \in Due, QueueOn(Unclaimed(j), {}),
         UNCHANGED <<vectors, indexed>>,
         worker' \in WorkerRow, worker'.job = Attempt(j), WorkerKnows'
  PROVE  JobsInv'
<1>1. jobs \in JobsType /\ worker = Idle
  BY DEF JobsInv, WorkerKnows, At
<1>2. /\ j \in JobRow /\ Unclaimed(j) \in JobsType
      /\ Waiting(jobs) \subseteq Waiting(Unclaimed(j)) \cup {j}
  BY <1>1, DueIs
<1>3. {} \in SUBSET JobRow
  OBVIOUS
<1>4. jobs' \in JobsType /\ Waiting(Unclaimed(j)) \subseteq Waiting(jobs')
  BY <1>2, <1>3, QueueOnIs
<1>5. /\ Attempt(j) \in JobRow /\ Attempt(j).kind = j.kind /\ Attempt(j).op = j.op
      /\ Point(Attempt(j)) = Point(j)
  BY <1>2, AttemptIs
<1>6. ASSUME NEW p, Accounted(jobs, worker, p) PROVE Accounted(jobs', worker', p)
  <2>1. PICK k \in Waiting(jobs) \cup {worker.job} : Accounts(k, p)
    BY <1>6 DEF Accounted
  <2>2. k # worker.job
    BY <1>1, <2>1, WorkerIs DEF Accounts
  <2>3. k \in Waiting(jobs') \/ k = j
    BY <1>2, <1>4, <2>1, <2>2
  <2>4. Accounts(j, p) => Accounts(worker'.job, p)
    BY <1>5 DEF Accounts
  <2> QED
    BY <2>1, <2>3, <2>4 DEF Accounted
<1> QED
  BY <1>4, <1>6, EntriesKept

\* The work of a job is done, or has failed, in its first transaction.
LEMMA WorkIndex ==
  ASSUME JobsInv, At("idle"), NEW j \in Due, QueueOn(Unclaimed(j), {}),
         UNCHANGED <<vectors, indexed>>,
         Errs(Attempt(j)) \/ (Ends(Attempt(j)) /\ (j.kind # "sync" \/ j.op = "done"))
  PROVE  JobsInv'
<1>1. Attempt(j) \in JobRow /\ Attempt(j).kind = j.kind /\ Attempt(j).op = j.op
  BY DueIs, AttemptIs DEF JobsInv
<1>2. worker' \in WorkerRow /\ worker'.job = Attempt(j) /\ WorkerKnows'
  BY <1>1, EndIs
<1> QED
  BY <1>2, ClaimKeeps

\* An attempt ends with what it has written, or without having written anything.
LEMMA EndIndex ==
  ASSUME JobsInv, UNCHANGED <<vectors, indexed>>, worker.job.kind # "sync",
         NEW new \in SUBSET JobRow,
         \/ Errs(worker.job) /\ SavesNothing
         \/ Ends(worker.job) /\ (SavesNothing \/ Queue(new))
  PROVE  JobsInv'
<1>1. worker' \in WorkerRow /\ worker'.job = worker.job /\ WorkerKnows'
  BY WorkerIs, EndIs
<1> QED
  BY <1>1, QueueKeeps DEF SavesNothing
-----------------------------------------------------------------------------
(* The index, step by step.                                                 *)

\* What a call that is under way may leave in the vector store: the versions
\* it may differ in are those that were accounted for, and the worker's own.
LEMMA CallIndex ==
  ASSUME JobsInv, At("index"), vectors' \in {vectors, Applied}, UNCHANGED <<jobs, indexed>>,
         worker' \in WorkerRow, worker'.job = worker.job, WorkerKnows'
  PROVE  JobsInv'
<1>1. worker.job.kind = "sync" /\ worker.job.op # "done"
  BY DEF JobsInv, WorkerKnows, At
<1>2. Accounted(jobs', worker', Point(worker.job))
  BY <1>1 DEF Accounted, Accounts
<1>3. \A p : Accounted(jobs, worker, p) => Accounted(jobs', worker', p)
  BY DEF Accounted
<1>4. \A p : p # Point(worker.job) => (p \in vectors' <=> p \in vectors)
  BY DEF Applied
<1>5. ASSUME NEW p \in (vectors' \ indexed') \cup (indexed' \ vectors')
      PROVE  Accounted(jobs', worker', p)
  BY <1>2, <1>3, <1>4 DEF JobsInv
<1> QED
  BY <1>5 DEF JobsInv, WorkerRow

LEMMA SyncReadIndex ==
  ASSUME JobsInv, NEW j \in Due, SyncRead(j)
  PROVE  JobsInv' /\ worker'.at \notin Reading
<1> DEFINE ok == j.op = "upsert" /\ Eligible(j.of, j.rev)
<1>1. /\ At("idle") /\ j.kind = "sync" /\ QueueOn(Unclaimed(j), {})
      /\ UNCHANGED <<vectors, indexed>>
      /\ IF j.op = "done" THEN Ends(Attempt(j)) ELSE Go("index", Attempt(j), ok)
  BY DEF SyncRead, Claims, Takes
<1>2. Attempt(j) \in JobRow /\ Attempt(j).kind = j.kind /\ Attempt(j).op = j.op
  BY DueIs, AttemptIs DEF JobsInv
<1>3. ok \in BOOLEAN
  BY Zenon
<1> HIDE DEF ok
<1>4. CASE j.op = "done"
  BY <1>1, <1>2, <1>4, WorkIndex, EndIs
<1>5. CASE j.op # "done"
  <2>1. /\ worker' \in WorkerRow /\ worker'.at = "index" /\ worker'.job = Attempt(j)
        /\ worker'.at \notin Reading
    BY <1>1, <1>2, <1>3, <1>5, GoIs
  <2>2. WorkerKnows'
    BY <1>1, <1>2, <1>5, <2>1 DEF WorkerKnows
  <2> QED
    BY <1>1, <2>1, <2>2, ClaimKeeps
<1> QED
  BY <1>4, <1>5

LEMMA SyncCallIndex ==
  ASSUME JobsInv, SyncCall
  PROVE  JobsInv' /\ worker'.at \notin Reading
<1>1. /\ At("index") /\ vectors' = Applied /\ UNCHANGED <<jobs, indexed>>
      /\ Go("record", worker.job, worker.ok)
  BY DEF SyncCall, SavesNothing
<1>2. /\ worker' \in WorkerRow /\ worker'.job = worker.job /\ worker'.ok = worker.ok
      /\ worker'.at = "record" /\ worker'.at \notin Reading
  BY <1>1, WorkerIs, GoIs
<1>3. worker.job.kind = "sync" /\ worker.job.op # "done"
  BY <1>1 DEF JobsInv, WorkerKnows, At
<1>4. worker'.ok <=> Point(worker'.job) \in vectors'
  BY <1>1, <1>2 DEF Applied
<1>5. WorkerKnows'
  BY <1>2, <1>3, <1>4 DEF WorkerKnows
<1> QED
  BY <1>1, <1>2, <1>5, CallIndex

LEMMA SyncCheckIndex ==
  ASSUME JobsInv, SyncCheck
  PROVE  JobsInv' /\ worker'.at \notin Reading
<1>1. /\ At("record") /\ UNCHANGED <<jobs, vectors, indexed>>
      /\ \/ Go("cleanup", worker.job, TRUE) /\ worker.ok
         \/ Go("mark", worker.job, worker.ok)
  BY Zenon DEF SyncCheck, SavesNothing
<1>2. /\ worker.job.kind = "sync" /\ worker.job.op # "done"
      /\ worker.ok <=> Point(worker.job) \in vectors
  BY <1>1 DEF JobsInv, WorkerKnows, At
<1>3. /\ worker' \in WorkerRow /\ worker'.at \notin Reading /\ worker'.job = worker.job
      /\ \/ worker'.at = "cleanup" /\ worker.ok
         \/ worker'.at = "mark" /\ worker'.ok = worker.ok
  BY <1>1, WorkerIs, GoIs
<1>4. WorkerKnows'
  BY <1>1, <1>2, <1>3 DEF WorkerKnows
<1>5. {} \in SUBSET JobRow
  OBVIOUS
<1> QED
  BY <1>1, <1>3, <1>4, <1>5, QueueKeeps

\* The entry is done: what is recorded is what is in the vector store, or an
\* entry of its own takes the version out again.
LEMMA SyncRecordIndex ==
  ASSUME JobsInv, SyncRecord
  PROVE  JobsInv' /\ worker'.at \notin Reading
<1> DEFINE job == worker.job
           p == Point(job)
           stays == At("mark") /\ worker.ok
           entry == Job("sync", job.of, job.rev, "purge")
           new == IF At("cleanup") THEN {entry} ELSE {}
           after == [job EXCEPT !.op = "done"]
<1>1. /\ worker.at \in {"mark", "cleanup"} /\ Queue(new) /\ vectors' = vectors
      /\ indexed' = IF stays THEN indexed \cup {p} ELSE indexed \ {p}
      /\ Ends(after)
  BY DEF SyncRecord
<1>2. /\ jobs \in JobsType /\ job \in JobRow /\ job.kind = "sync" /\ job.op # "done"
      /\ At("mark") => (worker.ok <=> p \in vectors)
      /\ At("cleanup") => p \in vectors
  BY <1>1, WorkerIs DEF JobsInv, WorkerKnows, At
<1>3. job.of \in Removed \cup {"none"} /\ job.rev \in Nat
  BY <1>2 DEF JobRow
<1>4. /\ entry \in JobRow /\ entry.kind = "sync" /\ entry.op = "purge" /\ Point(entry) = p
  BY <1>3, JobIs DEF Kinds, Ops, Point
<1> HIDE DEF entry
<1>5. new \in SUBSET JobRow
  BY <1>4
<1>6. /\ jobs' \in JobsType /\ Waiting(jobs) \subseteq Waiting(jobs')
      /\ \A j \in new : j.kind = "sync" => j \in Waiting(jobs')
  BY <1>1, <1>2, <1>5, QueueOnIs DEF Queue
<1>7. worker' \in WorkerRow /\ WorkerKnows' /\ worker'.at \notin Reading
  <2>1. after \in JobRow /\ after.kind = "sync" /\ after.op = "done"
    BY <1>2, DoneIs
  <2> HIDE DEF after
  <2> QED
    BY <1>1, <2>1, EndIs
<1>8. ASSUME NEW q \in (vectors' \ indexed') \cup (indexed' \ vectors')
      PROVE  Accounted(jobs', worker', q)
  <2>1. CASE q = p
    <3>1. entry \in new
      BY <1>1, <1>2, <1>8, <2>1 DEF At
    <3> QED
      BY <1>4, <1>6, <2>1, <3>1 DEF Accounted, Accounts
  <2>2. CASE q # p
    <3>1. Accounted(jobs, worker, q)
      BY <1>1, <1>8, <2>2 DEF JobsInv
    <3> QED
      BY <1>6, <2>2, <3>1 DEF Accounted, Accounts
  <2> QED
    BY <2>1, <2>2
<1> QED
  BY <1>6, <1>7, <1>8 DEF JobsInv, WorkerRow

\* A job that is put away is back in the queue, or done, or waits for the user.
LEMMA PutAwayIndex ==
  ASSUME JobsInv, UNCHANGED <<vectors, indexed>>, worker' = Idle, jobs' \in JobsType,
         Waiting(jobs) \subseteq Waiting(jobs'),
         worker.job \in Waiting(jobs') \/ worker.job.kind # "sync" \/ worker.job.op = "done"
  PROVE  JobsInv'
<1>1. worker' \in WorkerRow /\ worker'.at = "idle"
  BY WorkerIs
<1>2. WorkerKnows'
  BY <1>1 DEF WorkerKnows
<1>3. \A p : Accounted(jobs, worker, p) => Accounted(jobs', worker', p)
  BY DEF Accounted, Accounts
<1> QED
  BY <1>1, <1>2, <1>3, EntriesKept

LEMMA SettleIndex ==
  ASSUME JobsInv, Settle \/ Crash
  PROVE  JobsInv' /\ worker'.at \notin Reading
<1>1. /\ UNCHANGED <<vectors, indexed>> /\ worker' = Idle
      /\ \/ jobs' = jobs /\ worker.at = "settle" /\ worker.ok
         \/ jobs' = [jobs EXCEPT !.failed = @ \cup {worker.job}]
         \/ jobs' = [jobs EXCEPT !.late = @ \cup {worker.job}]
  BY DEF Settle, Crash, At
<1>2. /\ jobs.queue \in Seq(SUBSET JobRow) /\ jobs.late \in SUBSET JobRow
      /\ jobs.failed \in SUBSET JobRow /\ worker.job \in JobRow /\ jobs \in JobsType
      /\ jobs = [queue |-> jobs.queue, late |-> jobs.late, failed |-> jobs.failed]
  BY WorkerIs DEF JobsInv, JobsType
<1>3. CASE jobs' = jobs /\ worker.at = "settle" /\ worker.ok
  <2>1. worker.job.kind # "sync" \/ worker.job.op = "done"
    BY <1>3 DEF JobsInv, WorkerKnows
  <2> QED
    BY <1>1, <1>2, <1>3, <2>1, PutAwayIndex, WorkerIs DEF Reading
<1>4. CASE jobs' = [jobs EXCEPT !.failed = @ \cup {worker.job}]
  <2>1. jobs' = [queue |-> jobs.queue, late |-> jobs.late, failed |-> jobs.failed \cup {worker.job}]
    BY <1>2, <1>4
  <2>2. jobs' \in JobsType /\ Waiting(jobs') = Waiting(jobs) \cup {worker.job}
    BY <1>2, <2>1 DEF JobsType, Waiting
  <2> QED
    BY <1>1, <2>2, PutAwayIndex, WorkerIs DEF Reading
<1>5. CASE jobs' = [jobs EXCEPT !.late = @ \cup {worker.job}]
  <2>1. jobs' = [queue |-> jobs.queue, late |-> jobs.late \cup {worker.job}, failed |-> jobs.failed]
    BY <1>2, <1>5
  <2>2. jobs' \in JobsType /\ Waiting(jobs') = Waiting(jobs) \cup {worker.job}
    BY <1>2, <2>1 DEF JobsType, Waiting
  <2> QED
    BY <1>1, <2>2, PutAwayIndex, WorkerIs DEF Reading
<1> QED
  BY <1>1, <1>3, <1>4, <1>5

LEMMA FaultIndex ==
  ASSUME JobsInv, Fault
  PROVE  JobsInv' /\ worker'.at \notin Reading
<1>1. /\ vectors' = vectors \/ (At("index") /\ vectors' = Applied)
      /\ UNCHANGED <<jobs, indexed>> /\ Errs(worker.job)
  BY DEF Fault
<1>2. worker' \in WorkerRow /\ worker'.job = worker.job /\ WorkerKnows' /\ worker'.at \notin Reading
  BY <1>1, WorkerIs, EndIs
<1>3. CASE vectors' = vectors
  <2>1. {} \in SUBSET JobRow
    OBVIOUS
  <2> QED
    BY <1>1, <1>2, <1>3, <2>1, QueueKeeps
<1>4. CASE At("index") /\ vectors' = Applied
  BY <1>1, <1>2, <1>4, CallIndex
<1> QED
  BY <1>1, <1>3, <1>4

LEMMA RetryIndex ==
  ASSUME JobsInv, NEW j, RetryJob(j)
  PROVE  JobsInv'
<1> DEFINE again == [j EXCEPT !.attempts = 0]
           queue == Append(jobs.queue, {again})
<1>1. /\ jobs.queue \in Seq(SUBSET JobRow) /\ jobs.late \in SUBSET JobRow
      /\ jobs.failed \in SUBSET JobRow /\ jobs \in JobsType /\ j \in jobs.failed /\ j \in JobRow
      /\ jobs = [queue |-> jobs.queue, late |-> jobs.late, failed |-> jobs.failed]
  BY DEF JobsInv, JobsType, RetryJob
<1>2. /\ UNCHANGED <<worker, vectors, indexed>>
      /\ jobs' = [queue |-> queue, late |-> jobs.late, failed |-> jobs.failed \ {j}]
  BY <1>1 DEF RetryJob, AtOnce, Request, workerSide
<1>3. again \in JobRow /\ \A p : Accounts(j, p) => Accounts(again, p)
  BY <1>1, AgainIs
<1> HIDE DEF again
<1>4. queue = jobs.queue \o Queued({again})
  <2>1. Queued({again}) = <<{again}>>
    BY DEF Queued
  <2>2. {again} \in SUBSET JobRow
    BY <1>3
  <2> QED
    BY <1>1, <2>1, <2>2, AppendIsConcat, Zenon
<1> HIDE DEF queue
<1>5. queue \in Seq(SUBSET JobRow) /\ InBatches(queue) = InBatches(jobs.queue) \cup {again}
  BY <1>1, <1>3, <1>4, BatchBehind
<1>6. jobs' \in JobsType /\ again \in Waiting(jobs') /\ Waiting(jobs) \subseteq Waiting(jobs') \cup {j}
  BY <1>1, <1>2, <1>5 DEF JobsType, Waiting
<1>7. \A p : Accounted(jobs, worker, p) => Accounted(jobs', worker', p)
  BY <1>2, <1>3, <1>6 DEF Accounted
<1>8. worker' \in WorkerRow /\ WorkerKnows'
  BY <1>2 DEF JobsInv, WorkerRow, WorkerKnows, EpisodeKnown
<1> QED
  BY <1>2, <1>6, <1>7, <1>8, EntriesKept
-----------------------------------------------------------------------------
(* The jobs that requests leave.                                            *)

LEMMA PutRow ==
  ASSUME StoreInv, StoreGoes, NEW m \in Memories, NEW row, memory' = [memory EXCEPT ![m] = row]
  PROVE  row \in MemoryRow
  BY DEF StoreInv, StoreGoes

LEMMA DeletionJobsAre ==
  ASSUME NEW m \in Memories, NEW row \in MemoryRow
  PROVE  DeletionJobs(m, row) \subseteq JobRow
  BY JobIs, RowSyncJob DEF DeletionJobs, Kinds, Ops, Removed

LEMMA TransitionIndex ==
  ASSUME JobsInv, NEW t, t.of \in Memories, NEW row, NEW said \in MemoryRow,
         Transition(t, row, said)
  PROVE  JobsInv'
<1> DEFINE op == IF said.status = "active" THEN "upsert" ELSE "purge"
<1>1. Queue({SyncJob(t.of, said, op)}) /\ UNCHANGED <<worker, vectors, indexed>>
  BY DEF Transition, CommitsRow, Commits, workerSide
<1>2. op \in {"upsert", "purge"}
  OBVIOUS
<1> HIDE DEF op
<1>3. {SyncJob(t.of, said, op)} \in SUBSET JobRow
  BY <1>2, RowSyncJob
<1> QED
  BY <1>1, <1>3, RequestKeeps

LEMMA EditIndex ==
  ASSUME CallsInv, StoreInv, StoreGoes, JobsInv, NEW t \in open, Edit(t)
  PROVE  JobsInv'
<1>1. t.of \in Memories
  BY DEF CallsInv, CallKnows, Edit, Allowed
<1>2. UNCHANGED <<worker, vectors, indexed>>
  BY DEF Edit, CommitsRow, Commits, workerSide
<1>3. KeepJobs \/ \E row : Put(t.of, row) /\ Queue({SyncJob(t.of, row, "upsert")})
  BY Zenon DEF Edit
<1>4. CASE KeepJobs
  <2>1. {} \in SUBSET JobRow
    OBVIOUS
  <2> QED
    BY <1>2, <1>4, <2>1, RequestKeeps DEF KeepJobs
<1>5. ASSUME NEW row, Put(t.of, row), Queue({SyncJob(t.of, row, "upsert")}) PROVE JobsInv'
  <2>1. row \in MemoryRow
    BY <1>1, <1>5, PutRow DEF Put
  <2>2. {SyncJob(t.of, row, "upsert")} \in SUBSET JobRow
    BY <1>1, <2>1, RowSyncJob
  <2> QED
    BY <1>2, <1>5, <2>2, RequestKeeps
<1> QED
  BY <1>3, <1>4, <1>5

LEMMA TransitionsIndex ==
  ASSUME CallsInv, StoreInv, StoreGoes, JobsInv, NEW t \in open,
         Confirm(t) \/ Reject(t) \/ SuspendOrArchive(t)
  PROVE  JobsInv'
<1>1. t.of \in Memories /\ Read(t) \in MemoryRow
  BY DEF CallsInv, CallKnows, CallRow, PictureRow, Read, Confirm, Reject, SuspendOrArchive,
         PutAside, Allowed
<1>2. \A status \in Statuses : [Read(t) EXCEPT !.status = status] \in MemoryRow
  BY <1>1, StatusIs
<1>3. CASE Confirm(t)
  <2>1. PICK row : Transition(t, row, row)
    BY <1>3, Zenon DEF Confirm
  <2>2. row \in MemoryRow
    BY <1>1, <2>1, PutRow DEF Transition, Put
  <2> QED
    BY <1>1, <2>1, <2>2, TransitionIndex
<1>4. CASE Reject(t)
  <2> DEFINE status == IF Read(t).act = 0 THEN "rejected" ELSE Read(t).status
             said == [Read(t) EXCEPT !.status = status]
  <2>1. PICK row : Transition(t, row, said)
    BY <1>4, Zenon DEF Reject
  <2>2. status \in Statuses
    BY <1>1 DEF Statuses, MemoryRow
  <2>3. said \in MemoryRow
    BY <1>2, <2>2
  <2> HIDE DEF said
  <2> QED
    BY <1>1, <2>1, <2>3, TransitionIndex
<1>5. CASE SuspendOrArchive(t)
  <2> DEFINE said == [Read(t) EXCEPT !.status = PutAside[t.kind]]
  <2>1. PICK row : Transition(t, row, said)
    BY <1>5, Zenon DEF SuspendOrArchive
  <2>2. PutAside[t.kind] \in Statuses
    BY <1>5 DEF SuspendOrArchive, PutAside, Statuses
  <2>3. said \in MemoryRow
    BY <1>2, <2>2
  <2> HIDE DEF said
  <2> QED
    BY <1>1, <2>1, <2>3, TransitionIndex
<1> QED
  BY <1>3, <1>4, <1>5

LEMMA ForgetSourceIndex ==
  ASSUME CallsInv, JobsInv, NEW t \in open, ForgetSource(t)
  PROVE  JobsInv'
<1> DEFINE items == Impact(t.seen.memory, t.seen.source, t.of)
           new == ForgetJobs(t.seen, items) \cup {Job("revalidate", t.of, 0, "none")}
<1>1. Queue(new) /\ UNCHANGED <<worker, vectors, indexed>> /\ t.kind = "forget"
  BY DEF ForgetSource, Commits, workerSide
<1>2. t.of \in Conversations /\ \A m \in Memories : t.seen.memory[m] \in MemoryRow
  BY <1>1 DEF CallsInv, CallKnows, CallRow, PictureRow
<1>3. items \subseteq Memories
  BY DEF Impact, Citing
<1> HIDE DEF items
<1>4. ASSUME NEW m \in items
      PROVE  /\ DeletionJobs(m, t.seen.memory[m]) \subseteq JobRow
             /\ SyncJob(m, t.seen.memory[m], "purge") \in JobRow
  BY <1>2, <1>3, DeletionJobsAre, RowSyncJob
<1>5. ForgetJobs(t.seen, items) \subseteq JobRow
  BY <1>4 DEF ForgetJobs
<1>6. Job("revalidate", t.of, 0, "none") \in JobRow
  BY <1>2, JobIs DEF Kinds, Ops, Removed
<1>7. new \in SUBSET JobRow
  BY <1>5, <1>6
<1> HIDE DEF new
<1> QED
  BY <1>1, <1>7, RequestKeeps

LEMMA UserIndex ==
  ASSUME CallsInv, StoreInv, StoreGoes, JobsInv, UserStep
  PROVE  JobsInv' /\ UNCHANGED worker
<1>0. {} \in SUBSET JobRow
  OBVIOUS
<1>1. ASSUME NEW x \in Lessons, NEW confirm \in BOOLEAN, Create(x, confirm)
      PROVE  JobsInv' /\ UNCHANGED worker
  <2> DEFINE row == Confirmed([status |-> "candidate", act |-> 0,
                               revs |-> <<Revision("lesson", {}, {}, "written")>>])
             new == IF confirm THEN {SyncJob(x, row, "upsert")} ELSE {}
  <2>1. confirm => Put(x, row)
    BY <1>1 DEF Create
  <2>2. Queue(new) /\ UNCHANGED <<worker, vectors, indexed>>
    BY <1>1 DEF Create, AtOnce, Request, workerSide
  <2> HIDE DEF row
  <2>3. new \in SUBSET JobRow
    BY <2>1, PutRow, RowSyncJob DEF Put, Memories
  <2> HIDE DEF new
  <2> QED
    BY <2>2, <2>3, RequestKeeps
<1>2. ASSUME NEW m \in Memories, NEW kind \in DOMAIN Allowed, Ask(kind, m)
      PROVE  JobsInv' /\ UNCHANGED worker
  BY <1>0, <1>2, RequestKeeps DEF Ask, Begins, Request, workerSide
<1>3. ASSUME NEW c \in Conversations, AskForget(c) PROVE JobsInv' /\ UNCHANGED worker
  BY <1>0, <1>3, RequestKeeps DEF AskForget, Begins, Request, workerSide
<1>4. ASSUME NEW c \in Conversations, KeepSources(c) PROVE JobsInv' /\ UNCHANGED worker
  BY <1>0, <1>4, RequestKeeps DEF KeepSources, AtOnce, Request, workerSide, KeepJobs
<1>5. ASSUME NEW j \in jobs.failed, RetryJob(j) PROVE JobsInv' /\ UNCHANGED worker
  BY <1>5, RetryIndex DEF RetryJob, AtOnce, Request, workerSide
<1>6. ASSUME NEW t \in open,
             Edit(t) \/ Confirm(t) \/ Reject(t) \/ SuspendOrArchive(t) \/ ForgetSource(t)
      PROVE  JobsInv' /\ UNCHANGED worker
  <2>1. JobsInv'
    BY <1>6, EditIndex, TransitionsIndex, ForgetSourceIndex
  <2>2. UNCHANGED workerSide
    BY <1>6 DEF Edit, Confirm, Reject, SuspendOrArchive, ForgetSource, Transition, CommitsRow,
                Commits
  <2> QED
    BY <2>1, <2>2 DEF workerSide
<1>7. ASSUME NEW t \in open, Delete(t) PROVE JobsInv' /\ UNCHANGED worker
  <2>1. Queue(DeletionJobs(t.of, Read(t))) /\ UNCHANGED <<worker, vectors, indexed>>
    BY <1>7 DEF Delete, CommitsRow, Commits, workerSide
  <2>2. t.of \in Memories /\ Read(t) \in MemoryRow
    BY <1>7 DEF CallsInv, CallKnows, CallRow, PictureRow, Read, Delete, Allowed
  <2>3. DeletionJobs(t.of, Read(t)) \in SUBSET JobRow
    BY <2>2, DeletionJobsAre
  <2> QED
    BY <2>1, <2>3, RequestKeeps
<1> QED
  BY <1>1, <1>2, <1>3, <1>4, <1>5, <1>6, <1>7 DEF UserStep

LEMMA AgentIndex ==
  ASSUME CallsInv, StoreInv, StoreGoes, JobsInv, AgentStep
  PROVE  JobsInv' /\ UNCHANGED worker
<1>0. {} \in SUBSET JobRow
  OBVIOUS
<1>1. ASSUME UNCHANGED workerSide, KeepJobs PROVE JobsInv' /\ UNCHANGED worker
  BY <1>0, <1>1, RequestKeeps DEF workerSide, KeepJobs
<1>2. ASSUME NEW e \in Episodes, NEW op \in Findings \cup {"run"}, UNCHANGED workerSide,
             Queue({Job("capture", e, 0, op)})
      PROVE  JobsInv' /\ UNCHANGED worker
  <2>1. {Job("capture", e, 0, op)} \in SUBSET JobRow
    BY JobIs DEF Kinds, Ops, Memories, Removed
  <2> QED
    BY <1>2, <2>1, RequestKeeps DEF workerSide
<1>3. ASSUME NEW e \in Episodes, NEW f \in Findings, AskRecord(e, f)
      PROVE  JobsInv' /\ UNCHANGED worker
  BY <1>1, <1>3 DEF AskRecord, Begins, Request, KeepJobs
<1>4. ASSUME NEW e \in Episodes, RunFinished(e) PROVE JobsInv' /\ UNCHANGED worker
  BY <1>2, <1>4 DEF RunFinished, AtOnce, Request
<1>5. ASSUME NEW x \in Lessons, NEW a \in Agents, AskPropose(x, a)
      PROVE  JobsInv' /\ UNCHANGED worker
  BY <1>1, <1>5 DEF AskPropose, Begins, Request, KeepJobs
<1>6. ASSUME NEW x \in Lessons, Adopt(x) PROVE JobsInv' /\ UNCHANGED worker
  BY <1>1, <1>6 DEF Adopt, AtOnce, Request
<1>7. ASSUME NEW use \in uses, NEW matched \in BOOLEAN, CounterExample(use[1], use[2], matched)
      PROVE  JobsInv' /\ UNCHANGED worker
  <2> DEFINE x == use[1]
             n == use[2]
             suspends == matched /\ memory[x].status = "active" /\ memory[x].act = n
             row == [memory[x] EXCEPT !.status = "suspended"]
             report == Job("reconcile", x, n, IF matched THEN "matched" ELSE "unmatched")
             new == IF suspends THEN {SyncJob(x, row, "purge"), report} ELSE {report}
  <2>1. Queue(new) /\ UNCHANGED <<worker, vectors, indexed>>
    BY <1>7 DEF CounterExample, AtOnce, Request, workerSide
  <2>2. x \in Lessons /\ x \in Memories /\ n \in Nat
    BY DEF StoreInv, Memories
  <2>3. report \in JobRow
    BY <2>2, JobIs DEF Kinds, Ops, Removed
  <2>4. row \in MemoryRow
    BY <2>2, MemoryIs, StatusIs DEF Statuses
  <2> HIDE DEF row, report, x, n
  <2>5. new \in SUBSET JobRow
    BY <2>2, <2>3, <2>4, RowSyncJob
  <2> HIDE DEF new
  <2> QED
    BY <2>1, <2>5, RequestKeeps
<1>8. ASSUME NEW t \in open, RecordTool(t) PROVE JobsInv' /\ UNCHANGED worker
  <2>1. t.of \in Episodes /\ t.with \in Findings
    BY <1>8 DEF CallsInv, CallKnows, RecordTool
  <2>2. UNCHANGED workerSide /\ Queue({Job("capture", t.of, 0, t.with)})
    BY <1>8 DEF RecordTool, Commits
  <2> QED
    BY <1>2, <2>1, <2>2
<1>9. ASSUME NEW t \in open, Propose(t) PROVE JobsInv' /\ UNCHANGED worker
  BY <1>1, <1>9 DEF Propose, Commits
<1> QED
  BY <1>3, <1>4, <1>5, <1>6, <1>7, <1>8, <1>9 DEF AgentStep
-----------------------------------------------------------------------------
(* What the worker reads, and the jobs that its work leaves.                *)

\* What it writes later it has just read.
Looks == worker'.at \in Reading => worker'.seen = Picture

LEMMA JobClaimed ==
  ASSUME JobsInv, NEW j \in Due
  PROVE  Attempt(j) \in JobRow /\ Attempt(j).kind = j.kind /\ Attempt(j).op = j.op
         /\ Attempt(j).of = j.of
  BY DueIs DEF JobsInv, Attempt, JobRow

\* A job that ends in its first transaction.
LEMMA AtOnceIndex ==
  ASSUME JobsInv, At("idle"), NEW j \in Due, QueueOn(Unclaimed(j), {}),
         UNCHANGED <<vectors, indexed>>,
         Errs(Attempt(j)) \/ (Ends(Attempt(j)) /\ j.kind # "sync")
  PROVE  JobsInv' /\ Looks
<1>1. worker'.at \notin Reading
  BY JobClaimed, EndIs
<1> QED
  BY <1>1, WorkIndex DEF Looks

LEMMA CaptureReadIndex ==
  ASSUME StoreInv, JobsInv, NEW j \in Due, NEW e \in Episodes, CaptureRead(j, e)
  PROVE  JobsInv' /\ Looks
<1>1. /\ At("idle") /\ j.kind = "capture" /\ j.of = e /\ QueueOn(Unclaimed(j), {})
      /\ UNCHANGED <<vectors, indexed>>
  BY DEF CaptureRead, Claims, Takes
<1>2. \/ Errs(Attempt(j)) \/ Ends(Attempt(j))
      \/ /\ Holds("capture", Attempt(j)) /\ Standing(e)
         /\ memory[e].status \notin {"deleted", "archived", "rejected"}
  BY Zenon DEF CaptureRead
<1>3. CASE Errs(Attempt(j)) \/ Ends(Attempt(j))
  BY <1>1, <1>3, AtOnceIndex
<1>4. CASE /\ Holds("capture", Attempt(j)) /\ Standing(e)
           /\ memory[e].status \notin {"deleted", "archived", "rejected"}
  <2>1. /\ worker' \in WorkerRow /\ worker'.at = "capture" /\ worker'.job = Attempt(j)
        /\ worker'.seen = Picture /\ worker'.job.kind = "capture" /\ worker'.job.of = e
    BY <1>1, <1>4, JobClaimed, HoldsIs DEF Reading
  <2>2. ConversationOf[e] \notin tombs /\ source[e].access # "absent"
        /\ source[e].holds \in Findings
    BY <1>4 DEF Standing, StoreInv, StoreStands
  <2>3. EpisodeKnown(e)'
    BY <1>4, <2>1, <2>2 DEF EpisodeKnown, Picture
  <2>4. WorkerKnows'
    BY <2>1, <2>3 DEF WorkerKnows
  <2> QED
    BY <1>1, <2>1, <2>4, ClaimKeeps DEF Looks
<1> QED
  BY <1>2, <1>3, <1>4

LEMMA ExtractReadIndex ==
  ASSUME JobsInv, NEW j \in Due, ExtractRead(j)
  PROVE  JobsInv' /\ Looks
<1>1. /\ At("idle") /\ j.kind = "extract" /\ QueueOn(Unclaimed(j), {})
      /\ UNCHANGED <<vectors, indexed>> /\ TRUE \in BOOLEAN
      /\ Go("model", Attempt(j), TRUE) \/ Ends(Attempt(j))
  BY DEF ExtractRead, Claims, Takes
<1>2. CASE Ends(Attempt(j))
  BY <1>1, <1>2, AtOnceIndex
<1>3. CASE Go("model", Attempt(j), TRUE)
  <2>1. /\ worker' \in WorkerRow /\ worker'.at = "model" /\ worker'.job = Attempt(j)
        /\ worker'.at \notin Reading /\ worker'.job.kind = "extract"
    BY <1>1, <1>3, JobClaimed, GoIs
  <2>2. WorkerKnows'
    BY <2>1 DEF WorkerKnows
  <2> QED
    BY <1>1, <2>1, <2>2, ClaimKeeps DEF Looks
<1> QED
  BY <1>1, <1>2, <1>3

LEMMA ReconcileReadIndex ==
  ASSUME StoreInv, JobsInv, NEW j \in Due, ReconcileRead(j)
  PROVE  JobsInv' /\ Looks
<1>1. /\ At("idle") /\ j.kind = "reconcile" /\ QueueOn(Unclaimed(j), {})
      /\ UNCHANGED <<vectors, indexed>>
      /\ (Holds("reconcile", Attempt(j)) /\ ReconcileApplies(j)) \/ Ends(Attempt(j))
  BY DEF ReconcileRead, Claims, Takes
<1>2. CASE Ends(Attempt(j))
  BY <1>1, <1>2, AtOnceIndex
<1>3. CASE Holds("reconcile", Attempt(j)) /\ ReconcileApplies(j)
  <2>1. /\ worker' \in WorkerRow /\ worker'.at = "reconcile" /\ worker'.job = Attempt(j)
        /\ worker'.seen = Picture /\ worker'.job.kind = "reconcile" /\ worker'.job.of = j.of
    BY <1>1, <1>3, JobClaimed, HoldsIs DEF Reading
  <2>2. worker'.seen.memory[worker'.job.of].status \notin {"deleted", "archived", "rejected"}
    BY <1>3, <2>1 DEF ReconcileApplies, Picture
  <2>3. WorkerKnows'
    BY <2>1, <2>2 DEF WorkerKnows
  <2> QED
    BY <1>1, <2>1, <2>3, ClaimKeeps DEF Looks
<1> QED
  BY <1>1, <1>2, <1>3

LEMMA RevalidateReadIndex ==
  ASSUME StoreInv, JobsInv, NEW j \in Due, RevalidateRead(j)
  PROVE  JobsInv' /\ Looks
<1>1. /\ At("idle") /\ j.kind = "revalidate" /\ QueueOn(Unclaimed(j), {})
      /\ UNCHANGED <<vectors, indexed>> /\ Holds("revalidate", Attempt(j))
  BY DEF RevalidateRead, Claims, Takes
<1>2. /\ worker' \in WorkerRow /\ worker'.at = "revalidate" /\ worker'.job = Attempt(j)
      /\ worker'.seen = Picture /\ worker'.job.kind = "revalidate"
  BY <1>1, JobClaimed, HoldsIs DEF Reading
<1>3. WorkerKnows'
  BY <1>2 DEF WorkerKnows
<1> QED
  BY <1>1, <1>2, <1>3, ClaimKeeps DEF Looks

LEMMA ModelIndex ==
  ASSUME JobsInv, NEW useful \in BOOLEAN, ModelAnswers(useful)
  PROVE  JobsInv' /\ Looks
<1>1. /\ At("model") /\ SavesNothing /\ UNCHANGED <<jobs, vectors, indexed>>
      /\ Go("propose", worker.job, TRUE) \/ Ends(worker.job)
      /\ {} \in SUBSET JobRow /\ TRUE \in BOOLEAN
  BY DEF ModelAnswers, SavesNothing
<1>2. worker.job.kind = "extract" /\ worker.job \in JobRow
  BY <1>1, WorkerIs DEF JobsInv, WorkerKnows, At
<1>3. CASE Ends(worker.job)
  BY <1>1, <1>2, <1>3, EndIndex, EndIs DEF Looks
<1>4. CASE Go("propose", worker.job, TRUE)
  <2>1. /\ worker' \in WorkerRow /\ worker'.at = "propose" /\ worker'.job = worker.job
        /\ worker'.at \notin Reading
    BY <1>1, <1>2, <1>4, GoIs
  <2>2. WorkerKnows'
    BY <1>2, <2>1 DEF WorkerKnows
  <2> QED
    BY <1>1, <2>1, <2>2, QueueKeeps DEF Looks
<1> QED
  BY <1>1, <1>3, <1>4

LEMMA ExtractCheckIndex ==
  ASSUME StoreInv, JobsInv, ExtractCheck
  PROVE  JobsInv' /\ Looks
<1> DEFINE e == worker.job.of
<1>1. /\ At("propose") /\ SavesNothing /\ UNCHANGED <<jobs, vectors, indexed>>
      /\ (Holds("lesson", worker.job) /\ Eligible(e, worker.job.rev)) \/ Ends(worker.job)
      /\ {} \in SUBSET JobRow
  BY DEF ExtractCheck, SavesNothing
<1>2. worker.job.kind = "extract" /\ worker.job \in JobRow
  BY <1>1, WorkerIs DEF JobsInv, WorkerKnows, At
<1>3. CASE Ends(worker.job)
  BY <1>1, <1>2, <1>3, EndIndex, EndIs DEF Looks
<1>4. CASE Holds("lesson", worker.job) /\ Eligible(e, worker.job.rev)
  <2>1. /\ worker' \in WorkerRow /\ worker'.at = "lesson" /\ worker'.job = worker.job
        /\ worker'.seen = Picture
    BY <1>2, <1>4, HoldsIs DEF Reading
  <2>2. Shaped(memory)
    BY DEF StoreInv, StoreStands, RowFits, Shaped, Memories
  <2>3. e \in Episodes => memory[e].status = "active" /\ ConversationOf[e] \notin tombs
    BY <1>4, <2>2, EligibleEpisode DEF Eligible
  <2>4. e \in Episodes => EpisodeKnown(e)'
    BY <2>1, <2>3 DEF EpisodeKnown, Picture
  <2>5. WorkerKnows'
    BY <1>2, <2>1, <2>4 DEF WorkerKnows
  <2> QED
    BY <1>1, <2>1, <2>5, QueueKeeps DEF Looks
<1> QED
  BY <1>1, <1>3, <1>4

LEMMA CaptureSaveIndex ==
  ASSUME StoreInv, StoreGoes, JobsInv, NEW e \in Episodes, CaptureSave(e)
  PROVE  JobsInv' /\ Looks
<1>1. /\ worker.at = "capture" /\ UNCHANGED <<vectors, indexed>> /\ e \in Memories
      /\ \/ Errs(worker.job) /\ SavesNothing
         \/ /\ Ends(worker.job)
            /\ \E row : memory' = [memory EXCEPT ![e] = row] /\ Queue(CaptureJobs(e, row))
  BY Zenon DEF CaptureSave, Saves, Memories, At
<1>2. worker.job.kind = "capture" /\ worker.job \in JobRow
  BY <1>1, WorkerIs DEF JobsInv, WorkerKnows
<1>3. Looks
  BY <1>1, <1>2, EndIs DEF Looks
<1>4. CASE Errs(worker.job) /\ SavesNothing
  <2>1. {} \in SUBSET JobRow
    OBVIOUS
  <2> QED
    BY <1>1, <1>2, <1>3, <1>4, <2>1, EndIndex
<1>5. ASSUME Ends(worker.job),
             NEW row, memory' = [memory EXCEPT ![e] = row], Queue(CaptureJobs(e, row))
      PROVE  JobsInv'
  <2>1. row \in MemoryRow /\ Cur(row) \in Nat
    BY <1>1, <1>5, PutRow, RowParts
  <2>2. SyncJob(e, row, "upsert") \in JobRow /\ Job("extract", e, Cur(row), "none") \in JobRow
    BY <1>1, <2>1, RowSyncJob, JobIs DEF Kinds, Ops, Removed
  <2>3. CaptureJobs(e, row) \in SUBSET JobRow
    BY <2>2 DEF CaptureJobs
  <2> QED
    BY <1>1, <1>2, <1>5, <2>3, EndIndex
<1> QED
  BY <1>1, <1>3, <1>4, <1>5

LEMMA ExtractSaveIndex ==
  ASSUME JobsInv, NEW x \in Lessons, NEW e \in Episodes, ExtractSave(x, e)
  PROVE  JobsInv' /\ Looks
<1>1. /\ worker.at = "lesson" /\ UNCHANGED <<vectors, indexed>> /\ {} \in SUBSET JobRow
      /\ \/ Errs(worker.job) /\ SavesNothing
         \/ Ends(worker.job) /\ (SavesNothing \/ Queue({}))
  BY Zenon DEF ExtractSave, Saves, At
<1>2. worker.job.kind = "extract" /\ worker.job \in JobRow
  BY <1>1, WorkerIs DEF JobsInv, WorkerKnows
<1> QED
  BY <1>1, <1>2, EndIndex, EndIs DEF Looks

LEMMA ReconcileSaveIndex ==
  ASSUME JobsInv, ReconcileSave
  PROVE  JobsInv' /\ Looks
<1> DEFINE x == worker.job.of
           new == {SyncJob(x, worker.seen.memory[x], "purge")}
<1>1. /\ worker.at = "reconcile" /\ UNCHANGED <<vectors, indexed>>
      /\ \/ Errs(worker.job) /\ SavesNothing
         \/ Ends(worker.job) /\ (SavesNothing \/ Queue(new))
  BY Zenon DEF ReconcileSave, Saves, At
<1>2. worker.job.kind = "reconcile" /\ worker.job \in JobRow /\ worker.seen \in PictureRow
  BY <1>1, WorkerIs DEF JobsInv, WorkerKnows
<1>3. x \in Memories
  BY <1>2 DEF JobRow, Memories
<1>4. new \in SUBSET JobRow
  BY <1>2, <1>3, RowSyncJob DEF PictureRow
<1> HIDE DEF new
<1> QED
  BY <1>1, <1>2, <1>4, EndIndex, EndIs DEF Looks

LEMMA RevalidationJobsAre ==
  ASSUME JobsInv, NEW mem, NEW look, NEW m \in Memories
  PROVE  RevalidationJobs(mem, look, m) \subseteq JobRow
<1>1. worker.seen.memory[m] \in MemoryRow
  BY WorkerIs DEF PictureRow
<1>2. SyncJob(m, worker.seen.memory[m], "purge") \in JobRow
  BY <1>1, RowSyncJob
<1> QED
  BY <1>2 DEF RevalidationJobs, WithdrawalJobs

LEMMA RevalidateSaveIndex ==
  ASSUME JobsInv, RevalidateSave
  PROVE  JobsInv' /\ Looks
<1>1. /\ worker.at = "revalidate" /\ UNCHANGED <<vectors, indexed>>
  BY Zenon DEF RevalidateSave, At
<1>2. worker.job.kind = "revalidate" /\ worker.job \in JobRow
  BY <1>1, WorkerIs DEF JobsInv, WorkerKnows
<1>3. PICK look \in {worker.seen, Picture} :
        LET loaded == LoadedWith(look)
            lapsed == [m \in Memories |->
                         IF m \in Episodes /\ Lapses(loaded, look, m)
                         THEN [loaded[m] EXCEPT !.status = "suspended"] ELSE loaded[m]]
        IN  \E mem \in {loaded, lapsed} :
              LET Basis(m) == IF m \in Episodes THEN loaded ELSE mem
              IN  \/ Errs(worker.job) /\ SavesNothing
                  \/ /\ Ends(worker.job)
                     /\ Queue(UNION {RevalidationJobs(Basis(m), look, m) : m \in Memories})
  BY Zenon DEF RevalidateSave, Saves
<1> DEFINE loaded == LoadedWith(look)
           lapsed == [m \in Memories |->
                        IF m \in Episodes /\ Lapses(loaded, look, m)
                        THEN [loaded[m] EXCEPT !.status = "suspended"] ELSE loaded[m]]
           JobsFor(mem) == UNION {RevalidationJobs(IF m \in Episodes THEN loaded ELSE mem, look, m)
                                  : m \in Memories}
<1>4. PICK mem \in {loaded, lapsed} :
        \/ Errs(worker.job) /\ SavesNothing
        \/ Ends(worker.job) /\ Queue(JobsFor(mem))
  BY <1>3, Zenon
<1>5. CASE Errs(worker.job) /\ SavesNothing
  <2>1. {} \in SUBSET JobRow
    OBVIOUS
  <2> QED
    BY <1>1, <1>2, <1>5, <2>1, EndIndex, EndIs DEF Looks
<1>6. CASE Ends(worker.job) /\ Queue(JobsFor(mem))
  <2>1. JobsFor(mem) \in SUBSET JobRow
    BY RevalidationJobsAre
  <2> HIDE DEF JobsFor
  <2> QED
    BY <1>1, <1>2, <1>6, <2>1, EndIndex, EndIs DEF Looks
<1> QED
  BY <1>4, <1>5, <1>6
LEMMA WorkerIndex ==
  ASSUME StoreInv, StoreGoes, JobsInv, WorkerStep
  PROVE  JobsInv' /\ Looks
<1>1. ASSUME NEW j \in Due, SyncRead(j) PROVE JobsInv' /\ Looks
  BY <1>1, SyncReadIndex DEF Looks
<1>2. ASSUME NEW j \in Due, NEW e \in Episodes, CaptureRead(j, e) PROVE JobsInv' /\ Looks
  BY <1>2, CaptureReadIndex
<1>3. ASSUME NEW j \in Due, ExtractRead(j) PROVE JobsInv' /\ Looks
  BY <1>3, ExtractReadIndex
<1>4. ASSUME NEW j \in Due, ReconcileRead(j) PROVE JobsInv' /\ Looks
  BY <1>4, ReconcileReadIndex
<1>5. ASSUME NEW j \in Due, RevalidateRead(j) PROVE JobsInv' /\ Looks
  BY <1>5, RevalidateReadIndex
<1>6. ASSUME NEW j \in Due, PurgeContent(j) PROVE JobsInv' /\ Looks
  BY <1>6, AtOnceIndex DEF PurgeContent, Claims
<1>7. ASSUME SyncCall \/ SyncCheck \/ SyncRecord \/ Settle PROVE JobsInv' /\ Looks
  BY <1>7, SyncCallIndex, SyncCheckIndex, SyncRecordIndex, SettleIndex DEF Looks
<1>8. ASSUME NEW e \in Episodes, CaptureSave(e) PROVE JobsInv' /\ Looks
  BY <1>8, CaptureSaveIndex
<1>9. ASSUME NEW useful \in BOOLEAN, ModelAnswers(useful) PROVE JobsInv' /\ Looks
  BY <1>9, ModelIndex
<1>10. ASSUME NEW x \in Lessons, NEW e \in Episodes, ExtractSave(x, e) PROVE JobsInv' /\ Looks
  BY <1>10, ExtractSaveIndex
<1>11. ASSUME ExtractCheck \/ ReconcileSave \/ RevalidateSave PROVE JobsInv' /\ Looks
  BY <1>11, ExtractCheckIndex, ReconcileSaveIndex, RevalidateSaveIndex
<1> QED
  BY <1>1, <1>2, <1>3, <1>4, <1>5, <1>6, <1>7, <1>8, <1>9, <1>10, <1>11 DEF WorkerStep

\* Whatever the step: no entry of the index is lost, and the worker holds the
\* picture it had or a new one.
LEMMA IndexStep ==
  ASSUME StoreInv, StoreGoes, CallsInv, JobsInv, [Next]_vars
  PROVE  JobsInv' /\ (Looks \/ UNCHANGED worker)
<1>1. CASE UserStep
  BY <1>1, UserIndex
<1>2. CASE AgentStep
  BY <1>2, AgentIndex
<1>3. CASE WorkerStep
  BY <1>3, WorkerIndex
<1>4. ASSUME NEW t \in open, GivesUp(t) PROVE JobsInv' /\ UNCHANGED worker
  <2>1. {} \in SUBSET JobRow /\ UNCHANGED <<worker, vectors, indexed, jobs>>
    BY <1>4 DEF GivesUp, Commits, workerSide
  <2> QED
    BY <2>1, RequestKeeps
<1>5. ASSUME NEW j \in Due, FaultAtOnce(j) PROVE JobsInv' /\ Looks
  BY <1>5, AtOnceIndex DEF FaultAtOnce, Takes
<1>6. CASE Fault \/ Crash
  BY <1>6, FaultIndex, SettleIndex DEF Looks
<1>7. CASE UNCHANGED vars
  <2>1. {} \in SUBSET JobRow /\ UNCHANGED <<worker, vectors, indexed, jobs>>
    BY <1>7 DEF vars, workerSide
  <2> QED
    BY <2>1, RequestKeeps
<1> QED
  BY <1>1, <1>2, <1>3, <1>4, <1>5, <1>6, <1>7 DEF Next

-----------------------------------------------------------------------------
(* The pictures, whatever the step.                                         *)

\* Calls begin with what the code checks.
LEMMA OpenUser ==
  ASSUME StoreInv, CallsInv, StoreGoes, UserStep
  PROVE  CallsInv'
<1>1. ASSUME NEW x \in Lessons, NEW confirm \in BOOLEAN, Create(x, confirm) PROVE CallsInv'
  BY <1>1, CallsStay DEF Create, AtOnce
<1>2. ASSUME NEW m \in Memories, NEW kind \in DOMAIN Allowed, Ask(kind, m) PROVE CallsInv'
  <2> DEFINE new == [kind |-> kind, of |-> m, with |-> "none", seen |-> Picture]
  <2>1. m \in Removed /\ "none" \in Findings \cup Agents \cup {"none"}
        /\ kind \in DOMAIN Allowed \cup {"forget", "record", "propose"}
    BY DEF Removed
  <2>2. kind \notin {"forget", "record", "propose"}
    BY DEF Allowed
  <2>3. Read(new) = memory[m] /\ Admits(kind, memory[m])
    BY <1>2 DEF Ask, Read, Picture
  <2>4. CallKnows(new)
    BY <2>2, <2>3 DEF CallKnows
  <2>5. open' = open \cup {new}
    BY <1>2 DEF Ask, Begins
  <2> QED
    BY <2>1, <2>4, <2>5, CallBegins
<1>3. ASSUME NEW c \in Conversations, AskForget(c) PROVE CallsInv'
  <2> DEFINE new == [kind |-> "forget", of |-> c, with |-> "none", seen |-> Picture]
  <2>1. c \in Removed /\ "none" \in Findings \cup Agents \cup {"none"}
        /\ "forget" \in DOMAIN Allowed \cup {"forget", "record", "propose"}
    BY DEF Removed
  <2>2. CallKnows(new)
    BY DEF CallKnows, Allowed
  <2>3. open' = open \cup {new}
    BY <1>3 DEF AskForget, Begins
  <2> QED
    BY <2>1, <2>2, <2>3, CallBegins
<1>4. ASSUME NEW c \in Conversations, KeepSources(c) PROVE CallsInv'
  BY <1>4, CallsStay DEF KeepSources, AtOnce
<1>5. ASSUME NEW j \in jobs.failed, RetryJob(j) PROVE CallsInv'
  BY <1>5, CallsStay DEF RetryJob, AtOnce
<1>6. ASSUME NEW t \in open,
             \/ Edit(t) \/ Confirm(t) \/ Reject(t) \/ SuspendOrArchive(t) \/ Delete(t)
             \/ ForgetSource(t)
      PROVE  CallsInv'
  <2>1. open' \subseteq open
    BY <1>6 DEF Edit, Confirm, Reject, SuspendOrArchive, Delete, ForgetSource, Transition,
                CommitsRow, Commits
  <2> QED
    BY <2>1, CallsStay
<1> QED
  BY <1>1, <1>2, <1>3, <1>4, <1>5, <1>6 DEF UserStep

LEMMA OpenAgent ==
  ASSUME StoreInv, CallsInv, StoreGoes, AgentStep
  PROVE  CallsInv'
<1>1. ASSUME NEW e \in Episodes, NEW f \in Findings, AskRecord(e, f) PROVE CallsInv'
  <2> DEFINE new == [kind |-> "record", of |-> e, with |-> f, seen |-> Picture]
  <2>1. e \in Removed /\ f \in Findings \cup Agents \cup {"none"}
        /\ "record" \in DOMAIN Allowed \cup {"forget", "record", "propose"}
    BY DEF Removed, Memories
  <2>2. CallKnows(new)
    BY <1>1 DEF CallKnows, Allowed, AskRecord, Picture
  <2>3. open' = open \cup {new}
    BY <1>1 DEF AskRecord, Begins
  <2> QED
    BY <2>1, <2>2, <2>3, CallBegins
<1>2. ASSUME NEW x \in Lessons, NEW a \in Agents, AskPropose(x, a) PROVE CallsInv'
  <2> DEFINE new == [kind |-> "propose", of |-> x, with |-> a, seen |-> Picture]
  <2>1. x \in Removed /\ a \in Findings \cup Agents \cup {"none"}
        /\ "propose" \in DOMAIN Allowed \cup {"forget", "record", "propose"}
    BY DEF Removed, Memories
  <2>2. CallKnows(new)
    BY <1>2 DEF CallKnows, Allowed, AskPropose, Picture, Read
  <2>3. open' = open \cup {new}
    BY <1>2 DEF AskPropose, Begins
  <2> QED
    BY <2>1, <2>2, <2>3, CallBegins
<1>3. ASSUME NEW e \in Episodes, RunFinished(e) PROVE CallsInv'
  BY <1>3, CallsStay DEF RunFinished, AtOnce
<1>4. ASSUME NEW x \in Lessons, Adopt(x) PROVE CallsInv'
  BY <1>4, CallsStay DEF Adopt, AtOnce
<1>5. ASSUME NEW use \in uses, NEW matched \in BOOLEAN, CounterExample(use[1], use[2], matched)
      PROVE  CallsInv'
  BY <1>5, CallsStay DEF CounterExample, AtOnce
<1>6. ASSUME NEW t \in open, RecordTool(t) \/ Propose(t) PROVE CallsInv'
  BY <1>6, CallsStay DEF RecordTool, Propose, Commits
<1> QED
  BY <1>1, <1>2, <1>3, <1>4, <1>5, <1>6 DEF AgentStep

LEMMA OpenStep ==
  ASSUME StoreInv, CallsInv, StoreGoes, [Next]_vars
  PROVE  CallsInv'
<1>1. CASE UserStep \/ AgentStep
  BY <1>1, OpenUser, OpenAgent
<1>2. ASSUME UNCHANGED open PROVE CallsInv'
  BY <1>2, CallsStay
<1>3. CASE WorkerStep
  <2>1. UNCHANGED open
    BY <1>3 DEF WorkerStep, SyncRead, CaptureRead, ExtractRead, ReconcileRead, RevalidateRead,
                PurgeContent, SyncCall, SyncCheck, SyncRecord, CaptureSave, ModelAnswers,
                ExtractCheck, ExtractSave, ReconcileSave, RevalidateSave, Settle
  <2> QED
    BY <1>2, <2>1
<1>4. ASSUME NEW t \in open, GivesUp(t) PROVE CallsInv'
  BY <1>4, CallsStay DEF GivesUp, Commits
<1>5. ASSUME NEW j \in Due, FaultAtOnce(j) PROVE CallsInv'
  BY <1>2, <1>5 DEF FaultAtOnce
<1>6. CASE Fault \/ Crash \/ UNCHANGED vars
  BY <1>2, <1>6 DEF Fault, Crash, vars
<1> QED
  BY <1>1, <1>3, <1>4, <1>5, <1>6 DEF Next

LEMMA SeenStep ==
  ASSUME StoreInv, JobsInv, ReadsInv, StoreGoes, Looks \/ UNCHANGED worker,
         worker'.at \in Reading
  PROVE  Earlier(worker.seen)'
<1>1. CASE UNCHANGED worker
  <2>1. worker.seen \in PictureRow /\ Earlier(worker.seen)
    BY <1>1, WorkerIs DEF ReadsInv
  <2> QED
    BY <1>1, <2>1, EarlierStays DEF Earlier
<1>2. CASE Looks
  <2>1. worker'.seen = Picture /\ Picture \in PictureRow /\ Earlier(Picture)
    BY <1>2, PictureIs DEF Looks
  <2> DEFINE seen == Picture
  <2> HIDE DEF seen
  <2>2. /\ \A m \in Memories : Written(seen.memory[m]) /\ Grown(seen.memory[m], memory'[m])
        /\ \A s \in Sources : seen.source[s].access # "absent" => source'[s].access # "absent"
        /\ seen.tombs \subseteq tombs'
    BY <2>1, EarlierStays DEF seen
  <2>3. worker'.seen = seen
    BY <2>1 DEF seen
  <2> QED
    BY <2>2, <2>3 DEF Earlier
<1> QED
  BY <1>1, <1>2
-----------------------------------------------------------------------------
(* The databases the specification starts from.                             *)

LEMMA AbsentStands ==
  ASSUME NEW mem, NEW src, NEW tmb, NEW m \in Memories
  PROVE  Absent \in MemoryRow /\ RowStands(mem, src, m, Absent) /\ Kept(m, Absent, tmb)
<1>1. /\ Absent \in MemoryRow /\ Absent.status = "absent" /\ Absent.act = 0 /\ Cur(Absent) = 0
  BY DEF Absent, MemoryRow, Statuses, Cur
<1>2. Written(Absent) /\ SaysItsSource(m, Absent) /\ CitesWhatItSays(Absent)
      /\ UsedAsReviewed(Absent)
  BY <1>1 DEF Written, SaysItsSource, CitesWhatItSays, UsedAsReviewed
<1>3. Rests(mem, src, Absent) /\ CitesNothingForgotten(Absent, tmb)
  BY <1>1 DEF Rests, CitesNothingForgotten
<1> QED
  BY <1>1, <1>2, <1>3 DEF RowStands, RowFits, Kept

\* One memory, from one source of the conversation.
Starts(o, row, s, holds, used) ==
  /\ o \in Memories /\ row \in MemoryRow /\ s \in Sources
  /\ holds \in Findings \cup {"nothing", "note"} /\ (s \in Episodes => holds \in Findings)
  /\ used \subseteq Lessons \X Nat /\ tombs = {} /\ working = {} /\ torn = {}
  /\ History([m \in {o} |-> row], [t \in {s} |-> [access |-> "available", holds |-> holds]],
             used)
  /\ RowStands(memory, source, o, row) /\ Kept(o, row, {})

LEMMA OneMemory ==
  ASSUME NEW o, NEW row, NEW s, NEW holds, NEW used, Starts(o, row, s, holds, used)
  PROVE  StoreInv
<1> DEFINE src == [access |-> "available", holds |-> holds]
<1>1. /\ memory = [m \in Memories |-> IF m = o THEN row ELSE Absent]
      /\ source = [t \in Sources |-> IF t = s THEN src ELSE NoSource] /\ uses = used
  BY DEF History, Starts
<1>2. src \in SourceRow /\ NoSource \in SourceRow /\ NoSource.access = "absent"
      /\ src.holds = holds
  BY DEF SourceRow, NoSource, Access, Starts
<1> HIDE DEF src
<1>3. \A m \in Memories : /\ memory[m] \in MemoryRow /\ RowStands(memory, source, m, memory[m])
                          /\ Kept(m, memory[m], tombs)
  BY <1>1, AbsentStands DEF Starts
<1>4. \A e \in Episodes :
        source[e].access # "absent" /\ ConversationOf[e] \notin tombs => source[e].holds \in Findings
  BY <1>1, <1>2 DEF Sources, Starts
<1> QED
  BY <1>1, <1>2, <1>3, <1>4 DEF StoreInv, StoreStands, RowStands, Starts

LEMMA ConfirmedIs ==
  ASSUME NEW row \in MemoryRow, Cur(row) > 0
  PROVE  /\ Confirmed(row) \in MemoryRow /\ Confirmed(row).status = "active"
         /\ Confirmed(row).act = Cur(row) /\ SameEvidence(row, Confirmed(row))
         /\ Confirmed(row).revs[Cur(row)].review = "confirmed"
<1> DEFINE new == Confirmed(row)
           revs == [row.revs EXCEPT ![Cur(row)].review = "confirmed"]
<1>1. new = [status |-> "active", act |-> Cur(row),
             revs |-> [row.revs EXCEPT ![Cur(row)].review = "confirmed"]]
      /\ new.revs = revs
  BY DEF Confirmed
<1>2. /\ Cur(row) \in Nat /\ Cur(row) \in 0..Cur(row) /\ Cur(row) \in 1..Cur(row)
      /\ "active" \in Statuses /\ "confirmed" \in Reviews
  BY RowParts DEF Statuses, Reviews
<1> HIDE DEF new
<1>3. new \in MemoryRow /\ new.status = "active" /\ new.act = Cur(row) /\ SameEvidence(row, new)
  BY <1>1, <1>2, ReviewedRow
<1>4. revs[Cur(row)].review = "confirmed"
  BY <1>2, RowParts DEF RevisionRow
<1> HIDE DEF revs
<1> QED
  BY <1>1, <1>3, <1>4 DEF new

LEMMA StartsWithLesson ==
  ASSUME tombs = {}, working = {}, torn = {}, NEW x \in Lessons, NEW a \in Agents,
         LessonInUse(x, a)
  PROVE  StoreInv
<1> DEFINE rev == Proposed(a)
           row == [status |-> "candidate", act |-> 0, revs |-> <<rev>>]
           new == Confirmed(row)
<1>1. a \in Sources /\ a \notin Episodes /\ x \in Memories /\ x \notin Episodes
  BY KindsAreDisjoint DEF Sources, Memories
<1>2. History([m \in {x} |-> new], [t \in {a} |-> [access |-> "available", holds |-> "note"]],
              {<<x, 1>>})
  BY DEF LessonInUse
<1>3. source = [t \in Sources |-> IF t = a THEN [access |-> "available", holds |-> "note"]
                                  ELSE NoSource]
  BY <1>2 DEF History
<1>4. rev \in RevisionRow /\ rev.links = {SourceLink(a)} /\ rev.from = {a} /\ rev.text = "lesson"
  <2>1. {SourceLink(a)} \in SUBSET Links /\ {a} \in SUBSET Sources /\ "lesson" \in Texts
        /\ "written" \in Whys
    BY <1>1, LinksAreLinks DEF Texts, Whys
  <2> QED
    BY <2>1, NewRevision DEF Proposed
<1> HIDE DEF rev
<1>5. FirstFits(memory, source, x, rev)
  BY <1>1, <1>3, <1>4, LinksAreLinks DEF FirstFits, Cites
<1>6. /\ row \in MemoryRow /\ Cur(row) = 1 /\ Latest(row) = rev /\ row.status = "candidate"
      /\ row.act = 0 /\ RowStands(memory, source, x, row) /\ CitesNothingForgotten(row, {})
  <2>1. "candidate" \in Statuses \ {"absent"} /\ 0 \in 0..1
    BY DEF Statuses
  <2> QED
    BY <1>5, <2>1, FirstRowStands
<1> HIDE DEF row
<1>7. "active" \in Statuses /\ Cur(row) > 0 /\ 1 \in 0..Cur(row)
  BY <1>6 DEF Statuses
<1>8. /\ new \in MemoryRow /\ new.status = "active" /\ new.act = 1 /\ SameEvidence(row, new)
      /\ new.revs[1].review = "confirmed"
  BY <1>6, <1>7, ConfirmedIs
<1> HIDE DEF new
<1>9. UsedAsReviewed(new)
  BY <1>4, <1>6, <1>8 DEF UsedAsReviewed, SameEvidence, Latest
<1>10. RowStands(memory, source, x, new) /\ CitesNothingForgotten(new, {})
  BY <1>1, <1>6, <1>7, <1>8, SameEvidenceStands
<1>11. Starts(x, new, a, "note", {<<x, 1>>})
  BY <1>1, <1>2, <1>8, <1>9, <1>10 DEF Starts, Kept
<1> QED
  BY <1>11, OneMemory

LEMMA StartsWithEpisode ==
  ASSUME tombs = {}, working = {}, torn = {}, NEW e \in Episodes,
         NEW status \in {"active", "suspended", "archived"}, CapturedEpisode(e, status)
  PROVE  StoreInv
<1> DEFINE rev == Revision("pending", {SourceLink(e)}, {e}, "written")
           row == [status |-> status, act |-> 1, revs |-> <<rev>>]
<1>1. e \in Sources /\ e \in Memories /\ e \notin Lessons
  BY KindsAreDisjoint DEF Sources, Memories
<1>2. History([m \in {e} |-> row], [t \in {e} |-> [access |-> "available", holds |-> "pending"]],
              {})
  <2>1. [Captured(e, "pending") EXCEPT !.status = status] = row
    BY DEF Captured
  <2> QED
    BY <2>1 DEF CapturedEpisode
<1>3. source = [t \in Sources |-> IF t = e THEN [access |-> "available", holds |-> "pending"]
                                  ELSE NoSource]
  BY <1>2 DEF History
<1>4. rev \in RevisionRow /\ rev.links = {SourceLink(e)} /\ rev.from = {e}
  <2>1. {SourceLink(e)} \in SUBSET Links /\ {e} \in SUBSET Sources /\ "pending" \in Texts
        /\ "written" \in Whys
    BY <1>1, LinksAreLinks DEF Texts, Whys, Findings
  <2> QED
    BY <2>1, NewRevision
<1> HIDE DEF rev
<1>5. FirstFits(memory, source, e, rev)
  BY <1>1, <1>3, <1>4, LinksAreLinks DEF FirstFits
<1>6. row \in MemoryRow /\ RowStands(memory, source, e, row) /\ CitesNothingForgotten(row, {})
  <2>1. status \in Statuses \ {"absent"} /\ 1 \in 0..1
    BY DEF Statuses
  <2> QED
    BY <1>5, <2>1, FirstRowStands
<1> HIDE DEF row
<1>7. "pending" \in Findings \cup {"nothing", "note"} /\ "pending" \in Findings
      /\ {} \subseteq Lessons \X Nat
  BY DEF Findings
<1>8. Starts(e, row, e, "pending", {})
  BY <1>1, <1>2, <1>6, <1>7 DEF Starts, Kept
<1> QED
  BY <1>8, OneMemory

LEMMA StartsEmpty ==
  ASSUME tombs = {}, working = {}, torn = {}, NewUser
  PROVE  StoreInv
<1>1. /\ memory = [m \in Memories |-> Absent] /\ source = [s \in Sources |-> NoSource]
      /\ uses = {}
  BY DEF NewUser, History
<1>2. NoSource \in SourceRow /\ NoSource.access = "absent"
  BY DEF SourceRow, NoSource, Access
<1>3. \A m \in Memories : /\ memory[m] \in MemoryRow /\ RowStands(memory, source, m, memory[m])
                          /\ Kept(m, memory[m], tombs)
  BY <1>1, AbsentStands
<1> QED
  BY <1>1, <1>2, <1>3 DEF StoreInv, StoreStands, RowStands, Sources

LEMMA InitIndex ==
  ASSUME Init
  PROVE  JobsInv /\ ReadsInv
<1>1. /\ jobs = [queue |-> <<>>, late |-> {}, failed |-> {}] /\ worker = Idle /\ open = {}
      /\ vectors = indexed
  BY DEF Init, NewUser, LessonInUse, CapturedEpisode, History
<1>2. jobs \in JobsType
  BY <1>1 DEF JobsType
<1>3. NoJob \in JobRow /\ NoPicture \in PictureRow
  <2>1. Absent \in MemoryRow /\ NoSource \in SourceRow
    BY DEF Absent, MemoryRow, Statuses, NoSource, SourceRow, Access
  <2> QED
    BY <2>1 DEF NoJob, Job, JobRow, Kinds, Ops, NoPicture, PictureRow
<1>4. worker \in WorkerRow /\ worker.at = "idle"
  BY <1>1, <1>3 DEF Idle, WorkerRow
<1>5. WorkerKnows
  BY <1>1, <1>4 DEF WorkerKnows
<1>6. ReadsInv
  BY <1>1, <1>4 DEF ReadsInv, CallsInv, Reading
<1> QED
  BY <1>1, <1>2, <1>4, <1>5, <1>6 DEF JobsInv

-----------------------------------------------------------------------------
(* The theorems.                                                            *)

AllInv == StoreInv /\ ReadsInv /\ JobsInv

LEMMA InitAll == Init => AllInv
<1> SUFFICES ASSUME Init PROVE AllInv
  OBVIOUS
<1>1. tombs = {} /\ working = {} /\ torn = {}
  BY DEF Init
<1>2. CASE NewUser
  BY <1>1, <1>2, StartsEmpty, InitIndex DEF AllInv
<1>3. ASSUME NEW x \in Lessons, NEW a \in Agents, LessonInUse(x, a) PROVE AllInv
  BY <1>1, <1>3, StartsWithLesson, InitIndex DEF AllInv
<1>4. ASSUME NEW e \in Episodes, NEW status \in {"active", "suspended", "archived"},
             CapturedEpisode(e, status)
      PROVE  AllInv
  BY <1>1, <1>4, StartsWithEpisode, InitIndex DEF AllInv
<1> QED
  BY <1>2, <1>3, <1>4 DEF Init

\* A step writes what the reads before it allow, whatever has been written since.
LEMMA NextAll == AllInv /\ [Next]_vars => AllInv' /\ StoreGoes
<1> SUFFICES ASSUME AllInv, [Next]_vars PROVE AllInv' /\ StoreGoes
  OBVIOUS
<1>1. StoreInv /\ CallsInv /\ ReadsInv /\ JobsInv /\ WorkerInv
  BY DEF AllInv, ReadsInv, JobsInv, WorkerInv
<1>2. StoreGoes
  BY <1>1, StoreStep
<1>3. StoreInv'
  BY <1>2, StoreGoesOn
<1>4. JobsInv' /\ (Looks \/ UNCHANGED worker)
  BY <1>1, <1>2, IndexStep
<1>5. CallsInv'
  BY <1>1, <1>2, OpenStep
<1>6. ReadsInv'
  BY <1>1, <1>2, <1>4, <1>5, SeenStep DEF ReadsInv
<1> QED
  BY <1>2, <1>3, <1>4, <1>6 DEF AllInv

LEMMA AllHolds == Spec => []AllInv
<1>1. AllInv /\ [Next]_vars => AllInv'
  BY NextAll
<1> QED
  BY <1>1, InitAll, PTL DEF Spec

\* The rows of the store stand, whatever requests come between what a request or
\* the worker has read and what it writes: what a row says it rests on, and a
\* row that nobody wrote on the word of stale reads repeats nothing that has
\* been forgotten, and is in use as the user has reviewed it.
THEOREM StoreHolds == Spec => []StoreStands
<1>1. AllInv => StoreStands
  BY DEF AllInv, StoreInv
<1> QED
  BY <1>1, AllHolds, PTL

\* What is recalled repeats nothing a source of a forgotten conversation has
\* said, however the text came about and whatever overtook what wrote it.
THEOREM NothingForgottenIsRecalled == Spec => []ForgottenIsNotRecalled
<1>1. AllInv => ForgottenIsNotRecalled
  <2> SUFFICES ASSUME StoreInv, NEW m \in Recalled,
                      NEW s \in memory[m].revs[memory[m].act].from
               PROVE  ConversationOf[s] \notin tombs
    BY DEF AllInv, ForgottenIsNotRecalled
  <2>1. /\ m \in Memories /\ EligibleIn(memory, source, tombs, m, memory[m].act)
        /\ memory[m].act \in 1..Cur(memory[m])
    <3>1. m \in Memories /\ EligibleIn(memory, source, tombs, m, memory[m].act)
      BY DEF Recalled, Eligible
    <3> QED
      BY <3>1, MemoryIs DEF EligibleIn, Sound
  <2>2. Shaped(memory) /\ RowFits(m, memory[m])
    BY <2>1 DEF StoreInv, StoreStands, RowFits, Shaped, Memories
  <2>3. CASE m \in Episodes
    <3>1. ConversationOf[m] \notin tombs
      BY <2>1, <2>2, <2>3, EligibleEpisode
    <3>2. s = m
      BY <2>1, <2>2, <2>3 DEF RowFits, SaysItsSource
    <3> QED
      BY <3>1, <3>2
  <2>4. CASE m \in Lessons
    <3>1. PICK l \in memory[m].revs[memory[m].act].links : Cites(l, s)
      BY <2>1, <2>2, <2>4 DEF RowFits, CitesWhatItSays
    <3>2. l \in Links /\ EvidenceHolds(memory, source, tombs, l)
      BY <2>1, <3>1, MemoryIs, RowParts DEF EligibleIn
    <3>3. ConversationOf[l[1]] \notin tombs
      BY <2>2, <3>2, HoldingEvidence
    <3> QED
      BY <3>1, <3>3 DEF Cites
  <2> QED
    BY <2>1, <2>3, <2>4 DEF Memories
<1> QED
  BY <1>1, AllHolds, PTL

\* Once the user has had a conversation forgotten, no memory that is left repeats
\* what its sources said, unless what was written had been read before another
\* transaction changed it.
THEOREM NothingForgottenIsSaid == Spec => []ForgottenTextIsErased
<1>1. AllInv => ForgottenTextIsErased
  <2> SUFFICES ASSUME StoreInv, NEW m \in Memories \ torn, memory[m].status # "deleted",
                      NEW n \in 1..Cur(memory[m]), NEW s \in memory[m].revs[n].from
               PROVE  ConversationOf[s] \notin tombs
    BY DEF AllInv, StoreInv, StoreStands, ForgottenTextIsErased
  <2>1. CitesNothingForgotten(memory[m], tombs) /\ RowFits(m, memory[m])
    BY DEF StoreInv, StoreStands, Kept
  <2>2. PICK l \in memory[m].revs[n].links : l[1] = s
    <3>1. CASE m \in Episodes
      <4>1. m \in Sources /\ memory[m].revs[n].links = {SourceLink(m)} /\ s = m
        BY <2>1, <3>1 DEF RowFits, SaysItsSource, Sources
      <4> QED
        BY <4>1, LinksAreLinks
    <3>2. CASE m \in Lessons
      BY <2>1, <3>2 DEF RowFits, CitesWhatItSays, Cites
    <3> QED
      BY <3>1, <3>2 DEF Memories
  <2> QED
    BY <2>1, <2>2 DEF CitesNothingForgotten
<1> QED
  BY <1>1, AllHolds, PTL

\* A lesson is recalled in a version the user has confirmed, and with its text,
\* unless its row was written on the word of reads that were stale by then.
THEOREM OnlyReviewedIsRecalled == Spec => []RecalledIsReviewed
<1>1. AllInv => RecalledIsReviewed
  <2> SUFFICES ASSUME StoreInv, NEW x \in (Recalled \cap Lessons) \ torn
               PROVE  /\ memory[x].revs[memory[x].act].review = "confirmed"
                      /\ memory[x].revs[memory[x].act].text \notin {"blank", "bare"}
    BY DEF AllInv, RecalledIsReviewed
  <2>1. x \in Memories /\ memory[x].status = "active"
    BY DEF Recalled, Eligible, EligibleIn, Sound
  <2> QED
    BY <2>1 DEF StoreInv, StoreStands, Kept, UsedAsReviewed
<1> QED
  BY <1>1, AllHolds, PTL

\* A memory that was paused is used again only in a version the user confirms
\* after that, and one that was deleted is not made again, unless by a step that
\* had read the memory before.
THEOREM PutAsideStays == Spec => SetAsideStays
<1>1. AllInv /\ [Next]_vars =>
        [\A m \in Memories \ torn' :
           /\ memory[m].status = "suspended" /\ memory'[m].status = "active" => ConfirmedNow(m)
           /\ memory[m].status = "deleted" => memory'[m].status = "deleted"]_vars
  BY NextAll DEF StoreGoes, Follows, Obeys
<1> QED
  BY <1>1, AllHolds, PTL DEF Spec, SetAsideStays

\* The inductive invariant: types, what the rows of the store say and rest on,
\* what a picture still says of the store, what the worker has done of its job,
\* and an entry that is still to be done for every version the vector store and
\* its index state disagree about.
THEOREM MemoryHolds == Spec => []MemoryInv
<1>1. AllInv => MemoryInv
  <2> SUFFICES ASSUME StoreInv, ReadsInv, JobsInv PROVE MemoryInv
    BY DEF AllInv
  <2>1. MemoryTypes /\ StoreStands /\ PicturesStand /\ WorkerKnows
    BY DEF StoreInv, ReadsInv, CallsInv, JobsInv, MemoryTypes, PicturesStand
  <2>2. ASSUME NEW p \in (vectors \ indexed) \cup (indexed \ vectors)
        PROVE  \E j \in SyncJobs : Point(j) = p /\ j.op # "done"
    <3>1. PICK j \in Waiting(jobs) \cup {worker.job} : Accounts(j, p)
      BY DEF JobsInv, Accounted
    <3>2. j \in SyncJobs
      BY <3>1 DEF SyncJobs, Waiting, InBatches, Accounts
    <3> QED
      BY <3>1, <3>2 DEF Accounts
  <2> QED
    BY <2>1, <2>2 DEF MemoryInv, IndexStands
<1> QED
  BY <1>1, AllHolds, PTL

\* When no entry about a version is left, its index state says whether it is
\* in the vector store.
THEOREM IndexStateIsTrue == Spec => []IndexTellsTruth
<1>1. MemoryInv => IndexTellsTruth
  BY DEF MemoryInv, IndexStands, IndexTellsTruth
<1> QED
  BY <1>1, MemoryHolds, PTL
=============================================================================

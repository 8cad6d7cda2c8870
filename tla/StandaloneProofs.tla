-------------------------- MODULE StandaloneProofs --------------------------
(***************************************************************************)
(* Theorems about the components of MCStandalone side by side: what the      *)
(* modules UniqueNamesProofs, RateLimiterProofs and AttachmentsProofs prove   *)
(* of their own specifications holds of their composition too.  What pages    *)
(* and reports promise is proved here, from the laws of finite sums.          *)
(***************************************************************************)
EXTENDS MCStandalone, UniqueNamesProofs, FiniteSetTheorems, WellFoundedInduction, Sequences

LimiterProofs == INSTANCE RateLimiterProofs WITH Requests <- LimiterRequests, pc <- limiterPc

AttachedProofs == INSTANCE AttachmentsProofs WITH
  Requests <- AttachmentRequests, Fallible <- AttachmentFallible,
  rows <- attached, pc <- attachedPc, txn <- attachedTxn,
  committed <- attachedCommitted

-----------------------------------------------------------------------------
(* The instances of the proofs are about the instances of the models.         *)

LEMMA SameSets ==
  \A S : /\ LimiterProofs!Cardinality(S) = Limiter!Cardinality(S)
         /\ LimiterProofs!IsFiniteSet(S) = Limiter!IsFiniteSet(S)
BY DEF LimiterProofs!Cardinality, Limiter!Cardinality, LimiterProofs!IsFiniteSet, Limiter!IsFiniteSet

LEMMA SameLimiter ==
  /\ Limiter!LimiterConstants => LimiterProofs!LimiterConstants
  /\ Limiter!Init => LimiterProofs!Init
  /\ Limiter!Next => LimiterProofs!Next
  /\ LimiterProofs!vars = limiterVars
<1>1. \A r : /\ LimiterProofs!Outcome(r) = Limiter!Outcome(r)
             /\ LimiterProofs!Execute(r) <=> Limiter!Execute(r)
  BY SameSets DEF LimiterProofs!Outcome, Limiter!Outcome, LimiterProofs!Execute, Limiter!Execute,
       LimiterProofs!Kept, Limiter!Kept, LimiterProofs!Entries, Limiter!Entries,
       LimiterProofs!Overtaken, Limiter!Overtaken
<1>2. \A r : /\ LimiterProofs!TakeTime(r) <=> Limiter!TakeTime(r)
             /\ LimiterProofs!Evaluate(r) <=> Limiter!Evaluate(r)
             /\ LimiterProofs!Bypass(r) <=> Limiter!Bypass(r)
  BY <1>1 DEF LimiterProofs!TakeTime, Limiter!TakeTime, LimiterProofs!Evaluate, Limiter!Evaluate,
       LimiterProofs!Bypass, Limiter!Bypass
<1>3. LimiterProofs!Next <=> Limiter!Next
  BY <1>2 DEF LimiterProofs!Next, Limiter!Next, LimiterProofs!Tick, Limiter!Tick, LimiterProofs!Quiet,
       Limiter!Quiet, LimiterProofs!vars, Limiter!vars, LimiterProofs!Replied, Limiter!Replied
<1>4. Limiter!LimiterConstants => LimiterProofs!LimiterConstants
  BY SameSets DEF LimiterProofs!LimiterConstants, Limiter!LimiterConstants
<1> QED BY <1>3, <1>4 DEF LimiterProofs!Init, Limiter!Init, LimiterProofs!vars, limiterVars

LEMMA SameAttached ==
  /\ Attached!AttachmentsConstants => AttachedProofs!AttachmentsConstants
  /\ Attached!Init => AttachedProofs!Init
  /\ Attached!Next => AttachedProofs!Next
  /\ AttachedProofs!vars = attachedVars
<1>1. /\ AttachedProofs!Ids = Attached!Ids /\ AttachedProofs!Row = Attached!Row
      /\ AttachedProofs!Kinds = Attached!Kinds /\ AttachedProofs!Texts = Attached!Texts
      /\ AttachedProofs!Asked = Attached!Asked
      /\ AttachedProofs!Working = Attached!Working /\ AttachedProofs!Replied = Attached!Replied
      /\ AttachedProofs!NoTxn = Attached!NoTxn /\ AttachedProofs!vars = attachedVars
      /\ Attached!vars = attachedVars
  BY DEF AttachedProofs!Ids, Attached!Ids, AttachedProofs!Row, Attached!Row, AttachedProofs!Kinds,
       Attached!Kinds, AttachedProofs!Texts, Attached!Texts, AttachedProofs!Asked, Attached!Asked,
       AttachedProofs!Working, Attached!Working,
       AttachedProofs!Replied, Attached!Replied, AttachedProofs!NoTxn, Attached!NoTxn,
       AttachedProofs!vars, Attached!vars, attachedVars
<1>2. \A i, u : /\ AttachedProofs!Stored(i) <=> Attached!Stored(i)
                /\ AttachedProofs!Owns(u, i) <=> Attached!Owns(u, i)
                /\ AttachedProofs!Cascade(i) = Attached!Cascade(i)
                /\ AttachedProofs!Others(i) = Attached!Others(i)
  BY <1>1 DEF AttachedProofs!Stored, Attached!Stored, AttachedProofs!Owns, Attached!Owns,
       AttachedProofs!Cascade, Attached!Cascade, AttachedProofs!Others, Attached!Others
<1>3. \A q, i, op, text :
        /\ AttachedProofs!Written(q) = Attached!Written(q)
        /\ AttachedProofs!Targets(q) = Attached!Targets(q)
        /\ AttachedProofs!Pending(q, op) <=> Attached!Pending(q, op)
        /\ AttachedProofs!Referred(q, i) <=> Attached!Referred(q, i)
        /\ AttachedProofs!Response(text) = Attached!Response(text)
        /\ AttachedProofs!Answers(i, text) = Attached!Answers(i, text)
  BY <1>2 DEF AttachedProofs!Written, Attached!Written, AttachedProofs!Targets, Attached!Targets,
       AttachedProofs!Pending, Attached!Pending, AttachedProofs!Referred, Attached!Referred,
       AttachedProofs!Response, Attached!Response, AttachedProofs!Answers, Attached!Answers
<1>4. \A r : AttachedProofs!Arrive(r) <=> Attached!Arrive(r)
  <2>1. \A kind, u, p : AttachedProofs!MayHold(kind, u, p) <=> Attached!MayHold(kind, u, p)
    BY <1>2 DEF AttachedProofs!MayHold, Attached!MayHold
  <2>2. \A r, u, kind, p :
          /\ AttachedProofs!ListBegin(r, u, kind, p) <=> Attached!ListBegin(r, u, kind, p)
          /\ AttachedProofs!DeleteBegin(r, u, kind, p) <=> Attached!DeleteBegin(r, u, kind, p)
          /\ AttachedProofs!ReadBegin(r, u, kind, p) <=> Attached!ReadBegin(r, u, kind, p)
          /\ \A text :
               /\ AttachedProofs!CreateBegin(r, u, kind, p, text) <=> Attached!CreateBegin(r, u, kind, p, text)
               /\ AttachedProofs!UpdateBegin(r, u, kind, p, text) <=> Attached!UpdateBegin(r, u, kind, p, text)
    BY <1>2, <1>3, <2>1
       DEF AttachedProofs!Begin, Attached!Begin, AttachedProofs!CreateBegin, Attached!CreateBegin,
           AttachedProofs!ListBegin, Attached!ListBegin, AttachedProofs!UpdateBegin, Attached!UpdateBegin,
           AttachedProofs!ReadBegin, Attached!ReadBegin, AttachedProofs!DeleteBegin, Attached!DeleteBegin
  <2>3. ASSUME NEW r, NEW u \in Users
        PROVE  /\ (\E kind \in AttachedProofs!Kinds, p \in AttachedProofs!Ids :
                      \/ AttachedProofs!ListBegin(r, u, kind, p)
                      \/ \E text \in AttachedProofs!Asked : AttachedProofs!CreateBegin(r, u, kind, p, text))
                 <=> (\E kind \in Attached!Kinds, p \in Attached!Ids :
                        \/ Attached!ListBegin(r, u, kind, p)
                        \/ \E text \in Attached!Asked : Attached!CreateBegin(r, u, kind, p, text))
               /\ (\E kind \in AttachedProofs!Kinds \cup {"application"}, i \in AttachedProofs!Ids :
                      \/ AttachedProofs!DeleteBegin(r, u, kind, i) \/ AttachedProofs!ReadBegin(r, u, kind, i)
                      \/ \E text \in AttachedProofs!Asked : AttachedProofs!UpdateBegin(r, u, kind, i, text))
                 <=> (\E kind \in Attached!Kinds \cup {"application"}, i \in Attached!Ids :
                        \/ Attached!DeleteBegin(r, u, kind, i) \/ Attached!ReadBegin(r, u, kind, i)
                        \/ \E text \in Attached!Asked : Attached!UpdateBegin(r, u, kind, i, text))
    BY <1>1, <2>2
  <2>4. ASSUME NEW r PROVE AttachedProofs!Arrive(r) <=> Attached!Arrive(r)
    BY <2>3 DEF AttachedProofs!Arrive, Attached!Arrive
  <2> QED BY <2>4
<1>5. \A r : AttachedProofs!Committed(r) = Attached!Committed(r)
  BY <1>1, <1>2 DEF AttachedProofs!Committed, Attached!Committed
<1>6. \A r : AttachedProofs!Listed(r) = Attached!Listed(r)
  BY <1>1, <1>2 DEF AttachedProofs!Listed, Attached!Listed
<1>7. \A r : /\ AttachedProofs!Insert(r) <=> Attached!Insert(r)
             /\ AttachedProofs!Write(r) <=> Attached!Write(r)
  BY <1>2, <1>3 DEF AttachedProofs!Insert, Attached!Insert, AttachedProofs!Write, Attached!Write,
       AttachedProofs!Goto, Attached!Goto
<1>8. \A r : /\ AttachedProofs!Commit(r) <=> Attached!Commit(r)
             /\ AttachedProofs!Select(r) <=> Attached!Select(r)
             /\ AttachedProofs!Refresh(r) <=> Attached!Refresh(r)
             /\ AttachedProofs!Fail(r) <=> Attached!Fail(r)
  BY <1>1, <1>2, <1>3, <1>5, <1>6
     DEF AttachedProofs!Refresh, Attached!Refresh, AttachedProofs!Commit, Attached!Commit, AttachedProofs!Select, Attached!Select,
       AttachedProofs!Fail, Attached!Fail, AttachedProofs!Goto, Attached!Goto
<1>9. Attached!Next <=> AttachedProofs!Next
  <2>1. \A r : AttachedProofs!Proceed(r) <=> Attached!Proceed(r)
    BY <1>7, <1>8 DEF Attached!Proceed, AttachedProofs!Proceed
  <2>2. AttachedProofs!Quiet <=> Attached!Quiet
    BY DEF Attached!Quiet, AttachedProofs!Quiet, AttachedProofs!vars, Attached!vars,
         AttachedProofs!Replied, Attached!Replied
  <2> QED BY <1>4, <1>8, <2>1, <2>2, Zenon DEF Attached!Next, AttachedProofs!Next
<1>10. Attached!Init => AttachedProofs!Init
  BY <1>1 DEF Attached!Init, AttachedProofs!Init
<1> QED BY <1>1, <1>9, <1>10 DEF Attached!AttachmentsConstants, AttachedProofs!AttachmentsConstants

-----------------------------------------------------------------------------
(* A behaviour of the composition is one of each component.                  *)

LEMMA LimiterSpecs ==
  Limiter!Spec => LimiterProofs!Spec
<1>1. Limiter!vars = limiterVars /\ Limiter!vars' = limiterVars'
      /\ LimiterProofs!vars = limiterVars /\ LimiterProofs!vars' = limiterVars'
  BY DEF Limiter!vars, LimiterProofs!vars, limiterVars
<1>2. [Limiter!Next]_(Limiter!vars) => [LimiterProofs!Next]_(LimiterProofs!vars)
  BY <1>1, SameLimiter
<1>3. Limiter!Init => LimiterProofs!Init
  BY SameLimiter
<1> QED BY <1>2, <1>3, PTL DEF Limiter!Spec, LimiterProofs!Spec

LEMMA AttachedSpecs ==
  Attached!Spec => AttachedProofs!Spec
<1>1. Attached!vars = attachedVars /\ Attached!vars' = attachedVars'
      /\ AttachedProofs!vars = attachedVars /\ AttachedProofs!vars' = attachedVars'
  BY DEF Attached!vars, AttachedProofs!vars, attachedVars
<1>2. [Attached!Next]_(Attached!vars) => [AttachedProofs!Next]_(AttachedProofs!vars)
  BY <1>1, SameAttached
<1>3. Attached!Init => AttachedProofs!Init
  BY SameAttached
<1> QED BY <1>2, <1>3, PTL DEF Attached!Spec, AttachedProofs!Spec

\* The component that runs takes the steps of its own specification, and the
\* others stutter.
THEOREM EachComponentRuns ==
  StandaloneSpec => Spec /\ Limiter!Spec /\ Attached!Spec /\ Pages!Spec /\ Reports!Spec
<1>1. StandaloneInit => Init /\ Limiter!Init /\ Attached!Init /\ Pages!Init /\ Reports!Init
  BY DEF StandaloneInit
<1>2. [StandaloneNext]_allVars =>
        /\ [Next]_vars /\ [Limiter!Next]_(Limiter!vars) /\ [Attached!Next]_(Attached!vars)
        /\ [Pages!Next]_(Pages!vars) /\ [Reports!Next]_(Reports!vars)
  <2>1. /\ Limiter!vars = limiterVars /\ Attached!vars = attachedVars
        /\ Pages!vars = pagesVars /\ Reports!vars = reportsVars
        /\ Limiter!vars' = limiterVars' /\ Attached!vars' = attachedVars'
        /\ Pages!vars' = pagesVars' /\ Reports!vars' = reportsVars'
    BY DEF Limiter!vars, Attached!vars, Pages!vars, Reports!vars,
           limiterVars, attachedVars, pagesVars, reportsVars
  <2>2. ASSUME UNCHANGED allVars
        PROVE  UNCHANGED <<vars, limiterVars, attachedVars, pagesVars, reportsVars>>
    BY <2>2 DEF allVars
  <2> QED BY <2>1, <2>2 DEF StandaloneNext
<1> QED
  BY <1>1, <1>2, PTL
     DEF StandaloneSpec, Spec, Limiter!Spec, Attached!Spec, Pages!Spec, Reports!Spec

LEMMA LimiterProperties ==
  /\ LimiterProofs!TypeOK => Limiter!TypeOK
  /\ LimiterProofs!AdmissionBound => AdmissionBound
  /\ LimiterProofs!RefusalJustified => RefusalJustified
BY SameSets
   DEF LimiterProofs!TypeOK, Limiter!TypeOK, LimiterProofs!Replied, Limiter!Replied,
       LimiterProofs!AdmissionBound, AdmissionBound, Limiter!AdmissionBound,
       LimiterProofs!Within, Limiter!Within,
       LimiterProofs!RefusalJustified, RefusalJustified, Limiter!RefusalJustified

LEMMA AttachedProperties ==
  /\ AttachedProofs!TypeOK => Attached!TypeOK
  /\ AttachedProofs!NoStrayChildren => NoStrayChildren
  /\ AttachedProofs!LateRefusalsSpoilt => LateRefusalsSpoilt
  /\ AttachedProofs!UndeclaredExplained => UndeclaredExplained
<1>1. AttachedProofs!TypeOK => Attached!TypeOK
  BY DEF AttachedProofs!TypeOK, Attached!TypeOK, AttachedProofs!Row, Attached!Row,
         AttachedProofs!Txn, Attached!Txn, AttachedProofs!Ids, Attached!Ids,
         AttachedProofs!Kinds, Attached!Kinds, AttachedProofs!Texts, Attached!Texts,
         AttachedProofs!Asked, Attached!Asked, AttachedProofs!Working, Attached!Working, AttachedProofs!Replied, Attached!Replied
<1>2. AttachedProofs!NoStrayChildren => NoStrayChildren
  BY DEF AttachedProofs!NoStrayChildren, NoStrayChildren, Attached!NoStrayChildren,
         AttachedProofs!Stored, Attached!Stored, AttachedProofs!Owns, Attached!Owns,
         AttachedProofs!Ids, Attached!Ids
<1>3. AttachedProofs!Exceptions = Attached!Exceptions /\ AttachedProofs!StatusOf = Attached!StatusOf
  BY DEF AttachedProofs!Exceptions, Attached!Exceptions, AttachedProofs!StatusOf, Attached!StatusOf
<1>4. AttachedProofs!LateRefusalsSpoilt => LateRefusalsSpoilt
  BY <1>3
     DEF AttachedProofs!LateRefusalsSpoilt, LateRefusalsSpoilt, Attached!LateRefusalsSpoilt,
         AttachedProofs!Spoilt, Attached!Spoilt,
         AttachedProofs!Stored, Attached!Stored, AttachedProofs!Ids, Attached!Ids
<1>5. AttachedProofs!Declared = Attached!Declared
  BY DEF AttachedProofs!Declared, Attached!Declared,
         AttachedProofs!InterviewResponses, Attached!InterviewResponses,
         AttachedProofs!FollowUpResponses, Attached!FollowUpResponses,
         AttachedProofs!NoteResponses, Attached!NoteResponses,
         AttachedProofs!ApplicationResponses, Attached!ApplicationResponses
<1>6. \A r : AttachedProofs!Explained(r) <=> Attached!Explained(r)
  BY <1>3, <1>5
     DEF AttachedProofs!Explained, Attached!Explained, AttachedProofs!Listed, Attached!Listed,
         AttachedProofs!Blank, Attached!Blank,
         AttachedProofs!Stored, Attached!Stored, AttachedProofs!Ids, Attached!Ids,
         AttachedProofs!Others, Attached!Others
<1>7. [\A r \in AttachmentRequests : AttachedProofs!Explained(r)]_(AttachedProofs!vars)
        => [\A r \in AttachmentRequests : Attached!Explained(r)]_(Attached!vars)
  BY <1>6 DEF AttachedProofs!vars, Attached!vars
<1>8. AttachedProofs!UndeclaredExplained => UndeclaredExplained
  BY <1>7, PTL
     DEF AttachedProofs!UndeclaredExplained, UndeclaredExplained, Attached!UndeclaredExplained
<1> QED BY <1>1, <1>2, <1>4, <1>8

-----------------------------------------------------------------------------
(* Pages.                                                                    *)

\* How many rows are before i, and how many are before the next page.
Depth(i) == Cardinality(Pages!Ahead(listed, i))
Reached  == IF pagesPc = "items" THEN Pages!Offset(page) ELSE page * Size

\* As long as no row before i leaves, i has been read once the pages have come
\* as far as i; as long as none enters, it has been read then only, and once.
\* The last answer has come to the end of the list.
PagesInv ==
  /\ Pages!TypeOK
  /\ steady \subseteq Pages!Listed(listed)
  /\ \A i \in steady \ exposed : Depth(i) < Reached => read[i] > 0
  /\ \A i \in steady \ pushed : read[i] <= 1 /\ (read[i] = 1 => Depth(i) < Reached)
  /\ pagesPc = "done" => Cardinality(Pages!Listed(listed)) <= Reached

LEMMA PageSets ==
  ASSUME Pages!ListingConstants
  PROVE  /\ \A S : Pages!Cardinality(S) = Cardinality(S)
         /\ IsFiniteSet(RowIds)
         /\ \A i : IsFiniteSet(Pages!Ahead(listed, i)) /\ Depth(i) \in Nat
         /\ IsFiniteSet(Pages!Listed(listed)) /\ Cardinality(Pages!Listed(listed)) \in Nat
<1>1. \A S : Pages!Cardinality(S) = Cardinality(S) /\ Pages!IsFiniteSet(S) = IsFiniteSet(S)
  BY DEF Pages!Cardinality, Cardinality, Pages!IsFiniteSet, IsFiniteSet
<1>2. IsFiniteSet(RowIds)
  BY <1>1 DEF Pages!ListingConstants
<1>3. Pages!Listed(listed) \subseteq RowIds /\ \A i : Pages!Ahead(listed, i) \subseteq RowIds
  BY DEF Pages!Listed, Pages!Ahead
<1>4. IsFiniteSet(Pages!Listed(listed)) /\ \A i : IsFiniteSet(Pages!Ahead(listed, i))
  BY <1>2, <1>3, FS_Subset
<1> QED BY <1>1, <1>2, <1>4, FS_CardinalityType DEF Depth

\* A page begins where the one before it ends.
LEMMA PageBounds ==
  ASSUME Pages!ListingConstants, NEW p \in Nat \ {0}
  PROVE  /\ Pages!Offset(p) \in Nat /\ p * Size \in Nat
         /\ Pages!Offset(p) + Size = p * Size
         /\ Pages!Offset(p + 1) = p * Size
BY DEF Pages!ListingConstants, Pages!Offset

\* total_pages pages hold all rows.
LEMMA PagesSuffice ==
  ASSUME NEW total \in Nat, NEW p \in Nat, NEW size \in Nat \ {0}, p >= (total + size - 1) \div size
  PROVE  total <= p * size
<1>1. PICK n \in Nat : n = total + size - 1
  OBVIOUS
<1>2. PICK q \in Nat : q = n \div size
  OBVIOUS
<1>3. n < size * q + size /\ size * q \in Nat
  BY <1>2
<1>4. size * q <= size * p /\ size * p = p * size /\ p * size \in Nat
  BY <1>1, <1>2
<1> QED BY <1>1, <1>3, <1>4

LEMMA PagesInit ==
  ASSUME Pages!ListingConstants, Pages!Init
  PROVE  PagesInv
<1>1. Pages!TypeOK
  BY DEF Pages!ListingConstants, Pages!Init, Pages!TypeOK, Pages!Listed
<1>2. Reached = 0
  BY DEF Pages!ListingConstants, Pages!Init, Reached, Pages!Offset
<1> QED BY <1>1, <1>2, PageSets DEF Pages!Init, PagesInv, Pages!Listed

LEMMA PagesReadItems ==
  ASSUME Pages!ListingConstants, PagesInv, Pages!ReadItems
  PROVE  PagesInv'
<1>1. /\ pagesPc = "items" /\ pagesPc' = "count"
      /\ listed' = listed /\ query' = query /\ page' = page /\ steady' = steady
      /\ exposed' = exposed /\ pushed' = pushed /\ edits' = edits
      /\ read \in [RowIds -> Nat] /\ page \in Nat \ {0} /\ steady \subseteq RowIds
  BY DEF Pages!ReadItems, PagesInv, Pages!TypeOK
<1>2. /\ Reached \in Nat /\ Reached' = Reached + Size
      /\ Reached = Pages!Offset(page)
  BY <1>1, PageBounds DEF Reached
<1>3. \A i \in steady : /\ Depth(i)' = Depth(i) /\ Depth(i) \in Nat
                        /\ read'[i] = IF Reached <= Depth(i) /\ Depth(i) < Reached + Size
                                      THEN read[i] + 1 ELSE read[i]
  <2>1. \A i \in RowIds : read'[i] = IF i \in Pages!Items THEN read[i] + 1 ELSE read[i]
    BY DEF Pages!ReadItems
  <2>2. \A i : Pages!Ahead(listed, i)' = Pages!Ahead(listed, i)
    BY <1>1 DEF Pages!Ahead, Pages!Before, Pages!Listed, Pages!Matches
  <2>3. \A i \in steady : i \in Pages!Items <=> Reached <= Depth(i) /\ Depth(i) < Reached + Size
    BY <1>2, PageSets DEF PagesInv, Pages!Items, Depth, Pages!Listed
  <2> QED BY <1>1, <2>1, <2>2, <2>3, PageSets DEF Depth
<1>4. Pages!TypeOK'
  BY <1>1 DEF PagesInv, Pages!TypeOK, Pages!ReadItems
<1>5. Size \in Nat \ {0}
  BY DEF Pages!ListingConstants
<1>6. \A i \in steady : read[i] \in Nat
  BY <1>1
<1>7. steady' \subseteq Pages!Listed(listed)'
  BY <1>1 DEF PagesInv, Pages!Listed, Pages!Matches
<1> QED BY <1>1, <1>2, <1>3, <1>4, <1>5, <1>6, <1>7 DEF PagesInv

LEMMA PagesReadCount ==
  ASSUME Pages!ListingConstants, PagesInv, Pages!ReadCount
  PROVE  PagesInv'
<1>1. /\ pagesPc = "count"
      /\ listed' = listed /\ query' = query /\ steady' = steady /\ read' = read
      /\ exposed' = exposed /\ pushed' = pushed /\ edits' = edits
      /\ page \in Nat \ {0}
      /\ \/ page' = page + 1 /\ pagesPc' = "items"
         \/ page' = page /\ pagesPc' = "done" /\ page >= Pages!TotalPages
  BY DEF Pages!ReadCount, PagesInv, Pages!TypeOK
<1>2. Reached' = Reached /\ Reached = page * Size
  BY <1>1, PageBounds DEF Reached, Pages!Offset
<1>3. \A i : Depth(i)' = Depth(i)
  BY <1>1 DEF Depth, Pages!Ahead, Pages!Before, Pages!Listed, Pages!Matches
<1>4. Pages!TypeOK'
  BY <1>1 DEF PagesInv, Pages!TypeOK
<1>5. Pages!Listed(listed)' = Pages!Listed(listed)
  BY <1>1 DEF Pages!Listed, Pages!Matches
<1>6. ASSUME pagesPc' = "done" PROVE Cardinality(Pages!Listed(listed)) <= page * Size
  <2> DEFINE total == Cardinality(Pages!Listed(listed))
  <2>1. total \in Nat /\ Size \in Nat \ {0}
    BY PageSets DEF Pages!ListingConstants
  <2>2. page >= Pages!TotalPages
    BY <1>1, <1>6
  <2>3. total > 0 => page >= (total + Size - 1) \div Size
    BY <2>2, PageSets DEF Pages!TotalPages
  <2>4. page * Size \in Nat
    BY <1>1, <2>1
  <2> HIDE DEF total
  <2> QED BY <1>1, <2>1, <2>3, <2>4, PagesSuffice DEF total
<1> QED BY <1>1, <1>2, <1>3, <1>4, <1>5, <1>6 DEF PagesInv

\* An edit moves no other row: what is before j changes by i at most.
LEMMA EditMoves ==
  ASSUME NEW i \in RowIds, NEW row, Pages!Edit(i, row), Pages!TypeOK, NEW j \in RowIds \ {i}
  PROVE  /\ j \in Pages!Listed(listed)' <=> j \in Pages!Listed(listed)
         /\ Pages!Ahead(listed, j)' = Pages!Ahead(listed', j)
         /\ Pages!Ahead(listed', j) \ {i} = Pages!Ahead(listed, j) \ {i}
<1>1. listed' = [listed EXCEPT ![i] = row] /\ query' = query /\ listed \in [RowIds -> Pages!Row \cup {None}]
  BY DEF Pages!Edit, Pages!TypeOK
<1>2. \A k \in RowIds \ {i} : listed'[k] = listed[k]
  BY <1>1
<1>3. \A k \in RowIds \ {i} : k \in Pages!Listed(listed') <=> k \in Pages!Listed(listed)
  BY <1>2 DEF Pages!Listed
<1>4. \A k \in RowIds \ {i} : Pages!Before(listed', k, j) <=> Pages!Before(listed, k, j)
  BY <1>2 DEF Pages!Before
<1>5. Pages!Listed(listed)' = Pages!Listed(listed') /\ Pages!Ahead(listed, j)' = Pages!Ahead(listed', j)
  BY <1>1 DEF Pages!Listed, Pages!Ahead, Pages!Before, Pages!Matches
<1>6. Pages!Ahead(listed', j) \ {i} = Pages!Ahead(listed, j) \ {i}
  BY <1>3, <1>4 DEF Pages!Ahead, Pages!Listed
<1> QED BY <1>3, <1>5, <1>6

LEMMA PagesEdit ==
  ASSUME Pages!ListingConstants, PagesInv,
         NEW i \in RowIds, NEW row \in Pages!Row \cup {None}, Pages!Edit(i, row)
  PROVE  PagesInv'
<1>1. /\ pagesPc # "done" /\ pagesPc' = pagesPc /\ page' = page /\ read' = read /\ query' = query
      /\ steady' = steady \ {i} /\ steady \subseteq RowIds /\ Pages!TypeOK
      /\ exposed' = { j \in steady' : j \in exposed \/ i \in Pages!Ahead(listed, j) \ Pages!Ahead(listed', j) }
      /\ pushed' = { j \in steady' : j \in pushed \/ i \in Pages!Ahead(listed', j) \ Pages!Ahead(listed, j) }
      /\ listed' = [listed EXCEPT ![i] = row]
  BY DEF Pages!Edit, PagesInv, Pages!TypeOK
<1>2. Reached' = Reached /\ Reached \in Nat
  BY <1>1, PageBounds DEF Reached, Pages!Offset, Pages!TypeOK
<1>3. Pages!TypeOK'
  <2>1. edits' \in 0 .. MaxEdits
    BY <1>1 DEF Pages!Edit, Pages!TypeOK, Pages!ListingConstants
  <2>2. listed' \in [RowIds -> Pages!Row \cup {None}]
    BY <1>1 DEF Pages!TypeOK
  <2>3. query' \in Pages!Query /\ page' \in Nat \ {0} /\ pagesPc' \in {"items", "count", "done"} /\ read' \in [RowIds -> Nat]
    BY <1>1 DEF Pages!TypeOK
  <2>4. steady' \subseteq RowIds /\ exposed' \subseteq steady' /\ pushed' \subseteq steady'
    BY <1>1
  <2> QED BY <2>1, <2>2, <2>3, <2>4 DEF Pages!TypeOK
<1>4. ASSUME NEW j \in steady'
      PROVE  /\ j \in Pages!Listed(listed)'
             /\ j \notin exposed' => j \notin exposed /\ Depth(j) <= Depth(j)'
             /\ j \notin pushed' => j \notin pushed /\ Depth(j)' <= Depth(j)
             /\ Depth(j) \in Nat /\ Depth(j)' \in Nat
  <2>1. j \in steady /\ j \in RowIds \ {i} /\ j \in Pages!Listed(listed)
    BY <1>1 DEF PagesInv
  <2>2. /\ j \in Pages!Listed(listed)' <=> j \in Pages!Listed(listed)
        /\ Pages!Ahead(listed, j)' = Pages!Ahead(listed', j)
        /\ Pages!Ahead(listed', j) \ {i} = Pages!Ahead(listed, j) \ {i}
    BY <1>1, <2>1, EditMoves
  <2>3. IsFiniteSet(Pages!Ahead(listed, j)) /\ IsFiniteSet(Pages!Ahead(listed', j))
    <3>1. Pages!Ahead(listed', j) \subseteq RowIds
      BY DEF Pages!Ahead, Pages!Listed
    <3> QED BY <3>1, PageSets, FS_Subset
  <2>4. Depth(j) \in Nat /\ Depth(j)' \in Nat /\ Depth(j)' = Cardinality(Pages!Ahead(listed', j))
    BY <2>2, <2>3, FS_CardinalityType DEF Depth
  <2>5. ASSUME j \notin exposed' PROVE j \notin exposed /\ Depth(j) <= Depth(j)'
    <3>1. Pages!Ahead(listed, j) \subseteq Pages!Ahead(listed', j)
      BY <1>1, <2>2, <2>5
    <3> QED BY <1>1, <2>3, <2>4, <2>5, <3>1, FS_Subset DEF Depth
  <2>6. ASSUME j \notin pushed' PROVE j \notin pushed /\ Depth(j)' <= Depth(j)
    <3>1. Pages!Ahead(listed', j) \subseteq Pages!Ahead(listed, j)
      BY <1>1, <2>2, <2>6
    <3> QED BY <1>1, <2>3, <2>4, <2>6, <3>1, FS_Subset DEF Depth
  <2> QED BY <2>1, <2>2, <2>4, <2>5, <2>6
<1>5. \A j \in steady' : j \in steady /\ read'[j] = read[j]
  BY <1>1
<1>6. ASSUME NEW j \in steady' \ exposed', Depth(j)' < Reached' PROVE read'[j] > 0
  BY <1>2, <1>4, <1>5, <1>6 DEF PagesInv
<1>7. ASSUME NEW j \in steady' \ pushed' PROVE read'[j] <= 1 /\ (read'[j] = 1 => Depth(j)' < Reached')
  BY <1>2, <1>4, <1>5, <1>7 DEF PagesInv
<1> QED BY <1>1, <1>3, <1>4, <1>6, <1>7 DEF PagesInv

\* The inductive invariant of the client that reads page after page.
THEOREM PagesInvariant == StandaloneSpec => []PagesInv
<1>1. Pages!ListingConstants
  BY StandaloneAssumption
<1>2. Pages!Init => PagesInv
  BY <1>1, PagesInit
<1>3. PagesInv /\ [Pages!Next]_(Pages!vars) => PagesInv'
  <2> SUFFICES ASSUME PagesInv, [Pages!Next]_(Pages!vars) PROVE PagesInv'
    OBVIOUS
  <2>1. CASE UNCHANGED Pages!vars
    BY <2>1 DEF Pages!vars, PagesInv, Pages!TypeOK, Depth, Reached, Pages!Offset, Pages!Ahead,
                Pages!Before, Pages!Listed, Pages!Matches
  <2> QED
    BY <1>1, <2>1, PagesReadItems, PagesReadCount, PagesEdit DEF Pages!Next, Pages!Quiet
<1> QED BY <1>2, <1>3, EachComponentRuns, PTL DEF Pages!Spec

\* A client that reads all pages sees every row that nobody edits, unless rows
\* before it have left, and sees it once, unless rows have entered before it:
\* for any rows, pages of any size and any number of edits between the
\* statements.
THEOREM PagesArePartition == StandaloneSpec => []PagesPartition
<1>1. PagesInv => PagesPartition
  <2> SUFFICES ASSUME PagesInv, pagesPc = "done", NEW i \in steady
               PROVE  /\ read[i] = 0 => i \in exposed
                      /\ read[i] > 1 => i \in pushed
    BY DEF PagesPartition, Pages!PagesPartition
  <2>1. Pages!ListingConstants /\ Pages!TypeOK /\ i \in Pages!Listed(listed) /\ i \in RowIds /\ read[i] \in Nat
    BY StandaloneAssumption DEF PagesInv, Pages!TypeOK
  <2>2. Pages!Ahead(listed, i) \subseteq Pages!Listed(listed) /\ i \notin Pages!Ahead(listed, i)
    <3>1. listed[i].date \in Nat /\ i \in Nat
      BY <2>1 DEF Pages!TypeOK, Pages!Listed, Pages!Row, Pages!ListingConstants
    <3>2. ~Pages!Before(listed, i, i)
      BY <3>1 DEF Pages!Before
    <3> QED BY <3>2 DEF Pages!Ahead
  <2>3. Depth(i) < Cardinality(Pages!Listed(listed))
    BY <2>1, <2>2, PageSets, FS_Subset DEF Depth
  <2>4. Reached \in Nat
    BY <2>1, PageBounds DEF Reached, Pages!TypeOK
  <2> QED BY <2>1, <2>3, <2>4, PageSets DEF PagesInv
<1> QED BY <1>1, PagesInvariant, PTL

-----------------------------------------------------------------------------
(* What the components keep, they keep side by side.                         *)

LEMMA ComponentConstants ==
  /\ LimiterProofs!LimiterConstants /\ AttachedProofs!AttachmentsConstants
  /\ Pages!ListingConstants /\ Reports!AnalyticsConstants
BY StandaloneAssumption, SameLimiter, SameAttached

\* In every window the limiter lets at most the maximum through, also while
\* the other components work.
THEOREM AdmissionsBoundedSideBySide == StandaloneSpec => []AdmissionBound
<1>1. LimiterProofs!Spec => []LimiterProofs!AdmissionBound
  BY ComponentConstants, LimiterProofs!AdmissionsBounded
<1> QED BY <1>1, EachComponentRuns, LimiterSpecs, LimiterProperties, PTL

\* Who is refused was preceded by as many requests as are allowed.
THEOREM RefusalsJustifiedSideBySide == StandaloneSpec => []RefusalJustified
<1>1. LimiterProofs!Spec => []LimiterProofs!RefusalJustified
  BY ComponentConstants, LimiterProofs!RefusalsJustified
<1> QED BY <1>1, EachComponentRuns, LimiterSpecs, LimiterProperties, PTL

\* No interview or follow-up outlives its application, and what has a parent
\* belongs to the parent's owner.
THEOREM NoStrayChildrenSideBySide == StandaloneSpec => []NoStrayChildren
<1>1. AttachedProofs!Spec => []AttachedProofs!NoStrayChildren
  BY ComponentConstants, AttachedProofs!ChildrenDieWithParents
<1> QED BY <1>1, EachComponentRuns, AttachedSpecs, AttachedProperties, PTL

\* A refused request about them has changed nothing, unless a service had
\* stripped the text of the row to nothing.
THEOREM LateRefusalsSpoiltSideBySide == StandaloneSpec => []LateRefusalsSpoilt
<1>1. AttachedProofs!Spec => []AttachedProofs!LateRefusalsSpoilt
  BY ComponentConstants, AttachedProofs!RefusedLateOnlyWhenSpoilt
<1> QED BY <1>1, EachComponentRuns, AttachedSpecs, AttachedProperties, PTL

\* An undeclared answer to a request about them has one of the stated reasons.
THEOREM UndeclaredExplainedSideBySide == StandaloneSpec => UndeclaredExplained
<1>1. AttachedProofs!Spec => AttachedProofs!UndeclaredExplained
  BY ComponentConstants, AttachedProofs!UndeclaredOnlyExplained
<1> QED BY <1>1, EachComponentRuns, AttachedSpecs, AttachedProperties, PTL

LEMMA ReportsTyped == Reports!Spec => []Reports!TypeOK
<1>1. Reports!Init => Reports!TypeOK
  BY DEF Reports!Init, Reports!TypeOK
<1>2. Reports!TypeOK /\ [Reports!Next]_(Reports!vars) => Reports!TypeOK'
  <2> SUFFICES ASSUME Reports!TypeOK, [Reports!Next]_(Reports!vars) PROVE Reports!TypeOK'
    OBVIOUS
  <2>1. ASSUME NEW of \in Reports!Endpoints, NEW status \in {200, Reports!StatusOf.Unhandled}, NEW body,
               Reports!Answer(of, status, body)
        PROVE  Reports!TypeOK'
    BY <2>1 DEF Reports!Answer, Reports!TypeOK
  <2>2. CASE Reports!GetFunnel
    <3>1. PICK status \in {200, Reports!StatusOf.Unhandled} : Reports!Answer("funnel", status, Reports!Funnel)
      BY <2>2 DEF Reports!GetFunnel
    <3> QED BY <2>1, <3>1 DEF Reports!Endpoints
  <2>3. CASE Reports!GetDashboard \/ Reports!GetBreakdown \/ Reports!GetVelocity \/ Reports!GetTimeline
    BY <2>1, <2>3
       DEF Reports!Endpoints, Reports!GetDashboard, Reports!GetBreakdown, Reports!GetVelocity, Reports!GetTimeline
  <2>4. CASE UNCHANGED Reports!vars
    BY <2>4 DEF Reports!vars, Reports!TypeOK
  <2> QED BY <2>2, <2>3, <2>4 DEF Reports!Next, Reports!Quiet
<1> QED BY <1>1, <1>2, PTL DEF Reports!Spec

\* Every component keeps its types.
THEOREM TypesSideBySide == StandaloneSpec => []InstancesTypeOK
<1>1. LimiterProofs!Spec => []LimiterProofs!TypeOK
  BY ComponentConstants, LimiterProofs!TypeCorrect
<1>2. AttachedProofs!Spec => []AttachedProofs!TypeOK
  BY ComponentConstants, AttachedProofs!TypeCorrect
<1>3. PagesInv => Pages!TypeOK
  BY DEF PagesInv
<1>4. TypeOK /\ Limiter!TypeOK /\ Attached!TypeOK /\ Pages!TypeOK /\ Reports!TypeOK
        => InstancesTypeOK
  BY DEF InstancesTypeOK
<1> QED
  BY <1>1, <1>2, <1>3, <1>4, EachComponentRuns, TypeCorrect, LimiterSpecs, LimiterProperties,
     AttachedSpecs, AttachedProperties, PagesInvariant, ReportsTyped, PTL

-----------------------------------------------------------------------------
(* Sums.  The fold of SumFunction is a recursive function over subsets of    *)
(* its domain.  What it computes is proved with the well-founded order of    *)
(* subsets: a set of counterexamples would have a smallest one.              *)

\* Induction over a set of numbers.
LEMMA NumberInduction ==
  ASSUME NEW T, 0 \in T, \A n \in Nat : n \in T => n + 1 \in T
  PROVE  \A n \in Nat : n \in T
<1> DEFINE R == OpToRel(<, Nat)
           Bad == { n \in Nat : n \notin T }
<1>1. IsWellFoundedOn(R, Nat) /\ Bad \subseteq Nat
  BY NatLessThanWellFounded
<1>2. \A m, n \in Nat : m < n => <<m, n>> \in R
  BY DEF OpToRel
<1> HIDE DEF R, Bad
<1>3. ASSUME Bad # {} PROVE FALSE
  <2>1. PICK n \in Bad : \A m \in Bad : ~(<<m, n>> \in R)
    BY <1>1, <1>3, WFMin
  <2>2. n \in Nat \ {0} /\ n - 1 \in Nat /\ n - 1 < n
    BY <2>1 DEF Bad
  <2>3. n - 1 \in T
    BY <1>2, <2>1, <2>2 DEF Bad
  <2> QED BY <2>1, <2>2, <2>3 DEF Bad
<1> QED BY <1>3 DEF Bad

\* Induction over the subsets of a finite set: smaller ones first.
LEMMA SubsetInduction ==
  ASSUME NEW D, IsFiniteSet(D), NEW T,
         \A s \in SUBSET D : (\A t \in SUBSET s : t # s => t \in T) => s \in T
  PROVE  \A s \in SUBSET D : s \in T
<1> DEFINE R == StrictSubsetOrdering(D)
           Bad == { s \in SUBSET D : s \notin T }
<1>1. IsWellFoundedOn(R, SUBSET D) /\ Bad \subseteq SUBSET D
  BY FS_StrictSubsetOrderingWellFounded, FS_FiniteSubsetsOfFinite
<1>2. \A s, t \in SUBSET D : t \subseteq s /\ t # s => <<t, s>> \in R
  BY DEF StrictSubsetOrdering
<1> HIDE DEF R, Bad
<1>3. ASSUME Bad # {} PROVE FALSE
  <2> DEFINE All == SUBSET D
  <2>1. PICK s \in Bad : \A t \in Bad : ~(<<t, s>> \in R)
    <3>1. IsWellFoundedOn(R, All) /\ Bad \subseteq All
      BY <1>1
    <3> HIDE DEF All
    <3> QED BY <1>3, <3>1, WFMin
  <2>2. ASSUME NEW t \in SUBSET s, t # s PROVE t \in T
    <3>1. s \in SUBSET D /\ t \in SUBSET D
      BY <1>1, <2>1
    <3>2. <<t, s>> \in R
      BY <1>2, <2>2, <3>1
    <3> QED BY <2>1, <3>1, <3>2 DEF Bad
  <2>3. s \in SUBSET D /\ s \notin T
    BY <2>1 DEF Bad
  <2> QED BY <2>2, <2>3, Zenon
<1> QED BY <1>3 DEF Bad

\* The element that a fold takes first.
Some(s) == CHOOSE x \in s : TRUE

LEMMA SomeElement == \A s : s # {} => Some(s) \in s
BY DEF Some

\* What the fold computes, as a function of a family of sets.
Adds(f, g, family) ==
  g = [s \in family |-> IF s = {} THEN 0 ELSE f[Some(s)] + g[s \ {Some(s)}]]

\* The recursive definition of the fold has a solution.
LEMMA FoldExists ==
  ASSUME NEW f, NEW D, IsFiniteSet(D)
  PROVE  \E g : Adds(f, g, SUBSET D)
<1> DEFINE Small(n) == { s \in SUBSET D : Cardinality(s) <= n }
           T == { n \in Nat : \E g : Adds(f, g, Small(n)) }
<1>1. \A s \in SUBSET D : IsFiniteSet(s) /\ Cardinality(s) \in Nat /\ Cardinality(s) <= Cardinality(D)
  BY FS_Subset, FS_CardinalityType
<1>2. \A s \in SUBSET D : s # {} => Cardinality(s \ {Some(s)}) = Cardinality(s) - 1
  BY <1>1, SomeElement, FS_RemoveElement
<1>3. 0 \in T
  <2>1. \A s \in Small(0) : s = {}
    BY <1>1, FS_EmptySet
  <2>2. Adds(f, [s \in Small(0) |-> 0], Small(0))
    <3> HIDE DEF Small
    <3> QED BY <2>1 DEF Adds
  <2> QED BY <2>2
<1>4. ASSUME NEW n \in Nat, n \in T PROVE n + 1 \in T
  <2>1. PICK g : Adds(f, g, Small(n))
    BY <1>4
  <2> DEFINE h == [s \in Small(n + 1) |->
                     IF s = {} THEN 0 ELSE f[Some(s)] + g[s \ {Some(s)}]]
  <2>2. \A s \in Small(n) : h[s] = g[s]
    <3>1. Small(n) \subseteq Small(n + 1)
      BY <1>1
    <3> HIDE DEF Small
    <3> QED BY <2>1, <3>1 DEF Adds
  <2>3. \A s \in Small(n + 1) : s # {} => s \ {Some(s)} \in Small(n)
    BY <1>1, <1>2
  <2>4. Adds(f, h, Small(n + 1))
    <3> HIDE DEF Small
    <3> QED BY <2>2, <2>3 DEF Adds
  <2> QED BY <2>4
<1>5. Cardinality(D) \in T
  <2> HIDE DEF T
  <2> QED BY <1>1, <1>3, <1>4, NumberInduction
<1>6. Small(Cardinality(D)) = SUBSET D
  BY <1>1
<1> QED BY <1>5, <1>6

\* The sum that the reports use.
Sum(f, s) == Reports!SumFunctionOnSet(f, s)

\* Sums are such a fold.
LEMMA SumIsFold ==
  ASSUME NEW f, NEW D, IsFiniteSet(D)
  PROVE  \E g : Adds(f, g, SUBSET D) /\ Sum(f, D) = g[D]
<1> DEFINE g == CHOOSE g : Adds(f, g, SUBSET D)
<1>1. Adds(f, g, SUBSET D)
  BY FoldExists
<1>2. Sum(f, D) = g[D]
  BY DEF Sum, Reports!SumFunctionOnSet, Reports!FoldFunctionOnSet, Reports!MapThenFoldSet, Adds, Some
<1> QED BY <1>1, <1>2

\* The order in which a sum is taken does not matter.
\* g adds the numbers of f in whichever order.
AnyOrder(f, g, D) ==
  \A s \in SUBSET D : g[s] \in Int /\ \A x \in s : g[s] = f[x] + g[s \ {x}]

\* A fold that always takes one particular element adds in any order.
LEMMA FoldStep ==
  ASSUME NEW f, NEW D, IsFiniteSet(D), NEW g, Adds(f, g, SUBSET D), \A x \in D : f[x] \in Int
  PROVE  AnyOrder(f, g, D)
<1> DEFINE Good(s) == /\ g[s] \in Int
                      /\ \A x \in s : g[s] = f[x] + g[s \ {x}]
           T == { s \in SUBSET D : Good(s) }
<1>1. ASSUME NEW s \in SUBSET D, \A t \in SUBSET s : t # s => t \in T
      PROVE  s \in T
  <2>1. CASE s = {}
    BY <2>1 DEF Adds
  <2>2. CASE s # {}
    <3>1. PICK y \in s : y = Some(s) /\ g[s] = f[y] + g[s \ {y}]
      BY <2>2, SomeElement DEF Adds
    <3>2. ASSUME NEW x \in s PROVE g[s \ {x}] \in Int /\ \A z \in s \ {x} : g[s \ {x}] = f[z] + g[(s \ {x}) \ {z}]
      <4>1. s \ {x} \in SUBSET s /\ s \ {x} # s
        OBVIOUS
      <4>2. s \ {x} \in T
        BY <1>1, <4>1
      <4> QED BY <4>2
    <3>3. ASSUME NEW x \in s, x # y PROVE g[s] = f[x] + g[s \ {x}]
      <4>1. (s \ {x}) \ {y} = (s \ {y}) \ {x}
        OBVIOUS
      <4>2. g[s \ {x}] = f[y] + g[(s \ {x}) \ {y}]
        BY <3>2, <3>3
      <4>3. g[s \ {y}] = f[x] + g[(s \ {y}) \ {x}]
        BY <3>2, <3>3
      <4>4. PICK m \in Int : m = g[(s \ {x}) \ {y}]
        <5>1. (s \ {x}) \ {y} \in SUBSET s /\ (s \ {x}) \ {y} # s
          OBVIOUS
        <5>2. (s \ {x}) \ {y} \in T
          BY <1>1, <5>1
        <5> QED BY <5>2
      <4>5. f[x] \in Int /\ f[y] \in Int
        OBVIOUS
      <4>6. g[s \ {x}] = f[y] + m /\ g[s \ {y}] = f[x] + m
        BY <4>1, <4>2, <4>3, <4>4
      <4>7. PICK a \in Int, b \in Int : a = f[x] /\ b = f[y]
        BY <4>5
      <4>8. g[s] = b + (a + m) /\ g[s \ {x}] = b + m
        BY <3>1, <4>6, <4>7
      <4>9. b + (a + m) = a + (b + m)
        OBVIOUS
      <4> QED BY <4>7, <4>8, <4>9, Zenon
    <3>4. \A x \in s : g[s] = f[x] + g[s \ {x}]
      BY <3>1, <3>3
    <3>5. g[s] \in Int
      <4>1. f[y] \in Int /\ g[s \ {y}] \in Int
        BY <3>2
      <4> QED BY <3>1, <4>1
    <3> QED BY <3>4, <3>5
  <2> QED BY <2>1, <2>2
<1>2. \A s \in SUBSET D : s \in T
  <2> HIDE DEF T
  <2> QED BY <1>1, SubsetInduction
<1> QED BY <1>2 DEF AnyOrder

\* The values for one set.
Agree(g, h, s) == g[s] = h[s]

\* Two functions that add the same numbers agree.
LEMMA FoldsAgree ==
  ASSUME NEW f, NEW D, IsFiniteSet(D), NEW g, Adds(f, g, SUBSET D),
         NEW s, s \subseteq D, NEW h, Adds(f, h, SUBSET s)
  PROVE  Agree(g, h, s)
<1> DEFINE T == { t \in SUBSET s : g[t] = h[t] }
<1>1. ASSUME NEW t \in SUBSET s, \A u \in SUBSET t : u # t => u \in T
      PROVE  t \in T
  <2>1. CASE t = {}
    BY <2>1 DEF Adds
  <2>2. CASE t # {}
    <3>1. Some(t) \in t /\ t \ {Some(t)} \in SUBSET t /\ t \ {Some(t)} # t
      BY <2>2, SomeElement
    <3>2. g[t \ {Some(t)}] = h[t \ {Some(t)}]
      BY <1>1, <3>1
    <3> QED BY <2>2, <3>1, <3>2 DEF Adds
  <2> QED BY <2>1, <2>2
<1>2. IsFiniteSet(s)
  BY FS_Subset
<1>3. \A t \in SUBSET s : t \in T
  <2> HIDE DEF T
  <2> QED BY <1>1, <1>2, SubsetInduction
<1> QED BY <1>3 DEF Agree

\* The laws of sums.
LEMMA SumLaws ==
  ASSUME NEW f, NEW D, IsFiniteSet(D), \A x \in D : f[x] \in Int
  PROVE  /\ Sum(f, {}) = 0
         /\ Sum(f, D) \in Int
         /\ \A x \in D : Sum(f, D) = f[x] + Sum(f, D \ {x})
<1>1. Sum(f, {}) = 0
  <2>1. PICK g : Adds(f, g, SUBSET {}) /\ Sum(f, {}) = g[{}]
    BY SumIsFold, FS_EmptySet
  <2> QED BY <2>1 DEF Adds
<1>2. PICK g : Adds(f, g, SUBSET D) /\ Sum(f, D) = g[D]
  BY SumIsFold
<1>3. \A s \in SUBSET D : Sum(f, s) = g[s]
  <2> SUFFICES ASSUME NEW s \in SUBSET D PROVE Sum(f, s) = g[s]
    OBVIOUS
  <2>1. PICK h : Adds(f, h, SUBSET s) /\ Sum(f, s) = h[s]
    BY SumIsFold, FS_Subset
  <2>2. Agree(g, h, s)
    <3>1. Adds(f, g, SUBSET D) /\ Adds(f, h, SUBSET s)
      BY <1>2, <2>1
    <3>2. s \subseteq D
      OBVIOUS
    <3> QED BY <3>1, <3>2, FoldsAgree
  <2> QED BY <2>1, <2>2 DEF Agree
<1>4. AnyOrder(f, g, D)
  BY <1>2, FoldStep
<1>5. ASSUME NEW x \in D PROVE Sum(f, D) = f[x] + Sum(f, D \ {x})
  <2>1. D \ {x} \in SUBSET D /\ D \in SUBSET D
    OBVIOUS
  <2>2. g[D] = f[x] + g[D \ {x}]
    BY <1>4, <2>1 DEF AnyOrder
  <2>3. Sum(f, D) = g[D] /\ Sum(f, D \ {x}) = g[D \ {x}]
    BY <1>3, <2>1, Zenon
  <2> QED BY <2>2, <2>3
<1>6. Sum(f, D) \in Int
  BY <1>2, <1>4 DEF AnyOrder
<1> QED BY <1>1, <1>5, <1>6

\* Nothing adds up to zero.
LEMMA SumOfNone ==
  \A f : Sum(f, {}) = 0
BY SumLaws, FS_EmptySet

\* A sum is any of its terms and the sum of the others.
LEMMA SumStep ==
  ASSUME NEW f, NEW D, IsFiniteSet(D), \A x \in D : f[x] \in Int, NEW s, s \subseteq D, NEW x \in s
  PROVE  /\ Sum(f, s) \in Int /\ f[x] \in Int /\ Sum(f, s \ {x}) \in Int
         /\ Sum(f, s) = f[x] + Sum(f, s \ {x})
<1>1. IsFiniteSet(s) /\ IsFiniteSet(s \ {x})
  BY FS_Subset
<1>2. Sum(f, s) \in Int /\ Sum(f, s) = f[x] + Sum(f, s \ {x})
  BY <1>1, SumLaws
<1>3. Sum(f, s \ {x}) \in Int
  <2>1. \A z \in s \ {x} : f[z] \in Int
    OBVIOUS
  <2> QED BY <1>1, <2>1, SumLaws
<1> QED BY <1>2, <1>3

\* Induction over a finite set: one element more at a time.
LEMMA SumInduction ==
  ASSUME NEW D, IsFiniteSet(D), NEW T, {} \in T,
         \A s \in SUBSET D : \A x \in s : s \ {x} \in T => s \in T
  PROVE  D \in T
<1>1. ASSUME NEW s \in SUBSET D, \A t \in SUBSET s : t # s => t \in T
      PROVE  s \in T
  <2>1. CASE s = {}
    BY <2>1
  <2>2. CASE s # {}
    <3>1. PICK x \in s : TRUE
      BY <2>2
    <3>2. s \ {x} \in SUBSET s /\ s \ {x} # s
      BY <3>1
    <3>3. s \ {x} \in T
      BY <1>1, <3>2
    <3> QED BY <3>1, <3>3
  <2> QED BY <2>1, <2>2
<1>2. \A s \in SUBSET D : s \in T
  BY <1>1, SubsetInduction
<1> QED BY <1>2

\* A factor.
LEMMA SumTimes ==
  ASSUME NEW D, IsFiniteSet(D), NEW k \in Int, NEW f, NEW g,
         \A x \in D : f[x] \in Int /\ g[x] = k * f[x]
  PROVE  Sum(g, D) = k * Sum(f, D)
<1> DEFINE T == { s \in SUBSET D : Sum(g, s) = k * Sum(f, s) }
<1>0. \A x \in D : f[x] \in Int /\ g[x] \in Int
  OBVIOUS
<1>1. {} \in T
  BY SumOfNone
<1>2. ASSUME NEW s \in SUBSET D, NEW x \in s, s \ {x} \in T PROVE s \in T
  <2>1. PICK a, b, c, d : a = Sum(f, s) /\ b = f[x] /\ c = Sum(f, s \ {x}) /\ d = Sum(g, s)
    OBVIOUS
  <2>2. a \in Int /\ b \in Int /\ c \in Int /\ a = b + c
    BY <1>0, <2>1, SumStep
  <2>3. d = g[x] + Sum(g, s \ {x})
    BY <1>0, <2>1, SumStep
  <2>4. g[x] = k * b /\ Sum(g, s \ {x}) = k * c
    BY <1>2, <2>1
  <2>5. d = k * b + k * c
    BY <2>3, <2>4
  <2>6. d = k * a
    BY <2>2, <2>5
  <2> QED BY <2>1, <2>6
<1> QED
  <2>1. D \in T
    <3> HIDE DEF T
    <3> QED BY <1>1, <1>2, SumInduction
  <2> QED BY <2>1

\* f and g differ by h at most.
Near(f, g, h, D) == \A x \in D : f[x] <= g[x] + h[x] /\ g[x] <= f[x] + h[x]

\* Two sums differ by no more than their terms do.
LEMMA SumClose ==
  ASSUME NEW D, IsFiniteSet(D), NEW f, NEW g, NEW h,
         \A x \in D : f[x] \in Int /\ g[x] \in Int /\ h[x] \in Int,
         Near(f, g, h, D)
  PROVE  Sum(f, D) <= Sum(g, D) + Sum(h, D) /\ Sum(g, D) <= Sum(f, D) + Sum(h, D)
<1> DEFINE Close(s) == Sum(f, s) <= Sum(g, s) + Sum(h, s) /\ Sum(g, s) <= Sum(f, s) + Sum(h, s)
           T == { s \in SUBSET D : Close(s) }
<1>1. {} \in T
  BY SumOfNone
<1>2. ASSUME NEW s \in SUBSET D, NEW x \in s, s \ {x} \in T PROVE s \in T
  <2>1. Sum(f, s) = f[x] + Sum(f, s \ {x}) /\ Sum(f, s \ {x}) \in Int /\ f[x] \in Int
    <3>1. \A z \in D : f[z] \in Int
      OBVIOUS
    <3> QED BY <3>1, SumStep
  <2>2. Sum(g, s) = g[x] + Sum(g, s \ {x}) /\ Sum(g, s \ {x}) \in Int /\ g[x] \in Int
    <3>1. \A z \in D : g[z] \in Int
      OBVIOUS
    <3> QED BY <3>1, SumStep
  <2>3. Sum(h, s) = h[x] + Sum(h, s \ {x}) /\ Sum(h, s \ {x}) \in Int /\ h[x] \in Int
    <3>1. \A z \in D : h[z] \in Int
      OBVIOUS
    <3> QED BY <3>1, SumStep
  <2>4. Close(s \ {x})
    BY <1>2
  <2>5. f[x] <= g[x] + h[x] /\ g[x] <= f[x] + h[x]
    BY DEF Near
  <2>6. PICK a \in Int, b \in Int, c \in Int : a = Sum(f, s \ {x}) /\ b = Sum(g, s \ {x}) /\ c = Sum(h, s \ {x})
    BY <2>1, <2>2, <2>3
  <2>7. Close(s)
    BY <2>1, <2>2, <2>3, <2>4, <2>5, <2>6
  <2> QED BY <2>7
<1> QED
  <2>1. D \in T
    <3> HIDE DEF T
    <3> QED BY <1>1, <1>2, SumInduction
  <2> QED BY <2>1

\* Equal terms.
LEMMA SumConstant ==
  ASSUME NEW D, IsFiniteSet(D), NEW k \in Int, NEW f, \A x \in D : f[x] = k
  PROVE  Sum(f, D) = k * Cardinality(D)
<1> DEFINE T == { s \in SUBSET D : Sum(f, s) = k * Cardinality(s) }
<1>0. \A x \in D : f[x] \in Int
  OBVIOUS
<1>1. {} \in T
  BY SumOfNone, FS_EmptySet
<1>2. ASSUME NEW s \in SUBSET D, NEW x \in s, s \ {x} \in T PROVE s \in T
  <2>1. Sum(f, s) = k + Sum(f, s \ {x})
    BY <1>0, SumStep
  <2>2. IsFiniteSet(s) /\ IsFiniteSet(s \ {x})
    BY FS_Subset
  <2>3. PICK n \in Nat : n = Cardinality(s \ {x})
    BY <2>2, FS_CardinalityType
  <2>4. Cardinality(s) = n + 1
    BY <2>2, <2>3, FS_RemoveElement, FS_CardinalityType
  <2>5. Sum(f, s \ {x}) = k * n
    BY <1>2, <2>3
  <2>6. k + k * n = k * (n + 1)
    OBVIOUS
  <2> QED BY <2>1, <2>4, <2>5, <2>6
<1> QED
  <2>1. D \in T
    <3> HIDE DEF T
    <3> QED BY <1>1, <1>2, SumInduction
  <2> QED BY <2>1

\* Functions that agree have the same sum.
LEMMA SumSame ==
  ASSUME NEW D, IsFiniteSet(D), NEW f, NEW g, \A x \in D : f[x] \in Int /\ g[x] = f[x]
  PROVE  Sum(g, D) = Sum(f, D)
<1> DEFINE T == { s \in SUBSET D : Sum(g, s) = Sum(f, s) }
<1>0. /\ \A x \in D : f[x] \in Int
      /\ \A x \in D : g[x] \in Int
  OBVIOUS
<1>1. {} \in T
  BY SumOfNone
<1>2. ASSUME NEW s \in SUBSET D, NEW x \in s, s \ {x} \in T PROVE s \in T
  <2>1. Sum(f, s) = f[x] + Sum(f, s \ {x}) /\ Sum(g, s) = g[x] + Sum(g, s \ {x})
    BY <1>0, SumStep
  <2>2. Sum(g, s \ {x}) = Sum(f, s \ {x}) /\ g[x] = f[x]
    BY <1>2
  <2> QED BY <2>1, <2>2
<1> QED
  <2>1. D \in T
    <3> HIDE DEF T
    <3> QED BY <1>1, <1>2, SumInduction
  <2> QED BY <2>1

\* The sum over two sets that share nothing.
LEMMA SumDisjoint ==
  ASSUME NEW f, NEW D, IsFiniteSet(D), \A x \in D : f[x] \in Int,
         NEW A, A \subseteq D, NEW B, B \subseteq D, A \cap B = {}
  PROVE  Sum(f, A \cup B) = Sum(f, A) + Sum(f, B)
<1> DEFINE T == { s \in SUBSET B : Sum(f, A \cup s) = Sum(f, A) + Sum(f, s) }
<1>1. {} \in T
  <2>1. A \cup {} = A
    OBVIOUS
  <2>2. Sum(f, A) \in Int
    <3>1. IsFiniteSet(A) /\ \A x \in A : f[x] \in Int
      BY FS_Subset
    <3> QED BY <3>1, SumLaws
  <2> QED BY <2>1, <2>2, SumLaws
<1>2. ASSUME NEW s \in SUBSET B, NEW x \in s, s \ {x} \in T PROVE s \in T
  <2>1. A \cup s \subseteq D /\ x \in A \cup s /\ s \subseteq D
    OBVIOUS
  <2>2. (A \cup s) \ {x} = A \cup (s \ {x})
    OBVIOUS
  <2>3. Sum(f, A \cup s) = f[x] + Sum(f, (A \cup s) \ {x}) /\ f[x] \in Int
    BY <2>1, SumStep
  <2>4. Sum(f, s) = f[x] + Sum(f, s \ {x}) /\ Sum(f, s \ {x}) \in Int
    BY <2>1, SumStep
  <2>5. Sum(f, A \cup (s \ {x})) = Sum(f, A) + Sum(f, s \ {x})
    BY <1>2
  <2>6. Sum(f, A) \in Int
    <3>1. IsFiniteSet(A) /\ \A z \in A : f[z] \in Int
      BY FS_Subset
    <3> QED BY <3>1, SumLaws
  <2>7. PICK a \in Int, b \in Int, c \in Int : a = Sum(f, A) /\ b = f[x] /\ c = Sum(f, s \ {x})
    BY <2>3, <2>4, <2>6
  <2>8. Sum(f, A \cup s) = b + (a + c) /\ Sum(f, s) = b + c
    BY <2>2, <2>3, <2>4, <2>5, <2>7
  <2> QED BY <2>7, <2>8
<1> QED
  <2>1. IsFiniteSet(B)
    BY FS_Subset
  <2>2. B \in T
    <3> HIDE DEF T
    <3> QED BY <1>1, <1>2, <2>1, SumInduction
  <2> QED BY <2>2

\* The sum of the sums over the parts of a partition.
LEMMA SumPartition ==
  ASSUME NEW f, NEW P, IsFiniteSet(P), \A x \in P : f[x] \in Int,
         NEW D, IsFiniteSet(D), NEW part,
         \A i \in D : part[i] \subseteq P,
         \A i, j \in D : i # j => part[i] \cap part[j] = {},
         \A x \in P : \E i \in D : x \in part[i],
         NEW n, \A i \in D : n[i] = Sum(f, part[i])
  PROVE  Sum(n, D) = Sum(f, P)
<1> DEFINE Cover(s) == { x \in P : \E i \in s : x \in part[i] }
           T == { s \in SUBSET D : Sum(n, s) = Sum(f, Cover(s)) }
<1>0. \A i \in D : n[i] \in Int
  <2> SUFFICES ASSUME NEW i \in D PROVE n[i] \in Int
    OBVIOUS
  <2>1. IsFiniteSet(part[i]) /\ \A x \in part[i] : f[x] \in Int
    BY FS_Subset
  <2> QED BY <2>1, SumLaws
<1>1. {} \in T
  <2>1. Cover({}) = {}
    OBVIOUS
  <2>2. Sum(n, {}) = 0 /\ Sum(f, {}) = 0
    BY <1>0, SumLaws
  <2> HIDE DEF Cover
  <2> QED BY <2>1, <2>2
<1>2. ASSUME NEW s \in SUBSET D, NEW i \in s, s \ {i} \in T PROVE s \in T
  <2>1. part[i] \subseteq P /\ Cover(s \ {i}) \subseteq P /\ part[i] \cap Cover(s \ {i}) = {}
    OBVIOUS
  <2>2. Cover(s) = part[i] \cup Cover(s \ {i})
    OBVIOUS
  <2>3. Sum(n, s \ {i}) = Sum(f, Cover(s \ {i}))
    BY <1>2
  <2> HIDE DEF Cover
  <2>4. Sum(f, part[i] \cup Cover(s \ {i})) = Sum(f, part[i]) + Sum(f, Cover(s \ {i}))
    <3>1. PICK A, B : A = part[i] /\ B = Cover(s \ {i})
      OBVIOUS
    <3>2. A \subseteq P /\ B \subseteq P /\ A \cap B = {}
      BY <2>1, <3>1
    <3>3. Sum(f, A \cup B) = Sum(f, A) + Sum(f, B)
      BY <3>2, SumDisjoint
    <3> QED BY <3>1, <3>3
  <2>5. Sum(n, s) = n[i] + Sum(n, s \ {i})
    BY <1>0, SumStep
  <2>6. n[i] = Sum(f, part[i])
    OBVIOUS
  <2>7. Sum(n, s) = Sum(f, Cover(s))
    BY <2>2, <2>3, <2>4, <2>5, <2>6
  <2> QED BY <2>7
<1>3. D \in T
  <2> HIDE DEF T
  <2> QED BY <1>1, <1>2, SumInduction
<1>4. Cover(D) = P
  OBVIOUS
<1> QED BY <1>3, <1>4

\* A partition counts every element once.
LEMMA PartitionCounts ==
  ASSUME NEW P, IsFiniteSet(P), NEW D, IsFiniteSet(D), NEW part,
         \A i \in D : part[i] \subseteq P,
         \A i, j \in D : i # j => part[i] \cap part[j] = {},
         \A x \in P : \E i \in D : x \in part[i],
         NEW n, \A i \in D : n[i] = Cardinality(part[i])
  PROVE  Sum(n, D) = Cardinality(P)
<1> DEFINE one == [x \in P |-> 1]
<1>1. \A x \in P : one[x] = 1 /\ one[x] \in Int
  OBVIOUS
<1> HIDE DEF one
<1>2. \A s \in SUBSET P : Sum(one, s) = Cardinality(s)
  <2> SUFFICES ASSUME NEW s \in SUBSET P PROVE Sum(one, s) = Cardinality(s)
    OBVIOUS
  <2>1. IsFiniteSet(s) /\ Cardinality(s) \in Nat
    BY FS_Subset, FS_CardinalityType
  <2>2. \A x \in s : one[x] = 1
    BY <1>1
  <2>3. Sum(one, s) = 1 * Cardinality(s)
    BY <2>1, <2>2, SumConstant
  <2> QED BY <2>1, <2>3
<1>3. \A i \in D : n[i] = Sum(one, part[i])
  BY <1>2
<1>4. Sum(n, D) = Sum(one, P)
  BY <1>1, <1>3, SumPartition
<1> QED BY <1>2, <1>4

-----------------------------------------------------------------------------
(* Reports.                                                                  *)

\* The sets that the reports are about.
LEMMA ReportSets ==
  ASSUME Reports!AnalyticsConstants, Reports!TypeOK
  PROVE  /\ \A s : Reports!Cardinality(s) = Cardinality(s)
         /\ IsFiniteSet(Reports!Present)
         /\ \A a \in Reports!Present : apps[a] \in Reports!AppRow
<1>1. \A s : Reports!Cardinality(s) = Cardinality(s) /\ Reports!IsFiniteSet(s) = IsFiniteSet(s)
  BY DEF Reports!Cardinality, Cardinality, Reports!IsFiniteSet, IsFiniteSet
<1>2. IsFiniteSet(ReportApps)
  BY <1>1 DEF Reports!AnalyticsConstants
<1>3. IsFiniteSet(Reports!Present)
  BY <1>2, FS_Subset DEF Reports!Present
<1>4. apps \in [ReportApps -> Reports!AppRow \cup {None}]
  BY DEF Reports!AnalyticsConstants, Reports!TypeOK
<1>5. \A a \in Reports!Present : apps[a] \in Reports!AppRow
  BY <1>4 DEF Reports!Present
<1> QED BY <1>1, <1>3, <1>5

\* A function of a finite set has finitely many values.
LEMMA ImageFinite ==
  ASSUME NEW D, IsFiniteSet(D), NEW f
  PROVE  IsFiniteSet({ f[x] : x \in D })
<1> DEFINE I == { f[x] : x \in D }
           g == [x \in D |-> f[x]]
<1>1. g \in Surjection(D, I)
  BY DEF Surjection
<1> QED BY <1>1, FS_Surjection

\* Percentages are rounded to the nearest.
LEMMA RoundedNear ==
  ASSUME NEW n \in Int, NEW d \in Nat \ {0}, NEW q, q = Reports!Rounded(n, d)
  PROVE  /\ q \in Int /\ d * q \in Int
         /\ 2 * (d * q) <= 200 * n + d /\ 200 * n <= 2 * (d * q) + d
<1>1. PICK e \in Nat \ {0} : e = 2 * d
  OBVIOUS
<1>2. PICK m \in Int : m = 2 * 100 * n + d /\ m = 200 * n + d
  OBVIOUS
<1>3. PICK r \in Int : r = m \div e
  OBVIOUS
<1>4. e * r <= m /\ m < e * r + e /\ e * r \in Int
  BY <1>3
<1>5. q = r
  BY <1>1, <1>2, <1>3 DEF Reports!Rounded
<1>6. e * r = 2 * (d * r) /\ d * r \in Int
  BY <1>1
<1> QED BY <1>1, <1>2, <1>4, <1>5, <1>6

\* Shares of what is counted once add up to 100 %, but for the rounding.
LEMMA SharesAddUp ==
  ASSUME NEW D, IsFiniteSet(D), NEW total \in Nat \ {0}, NEW counted, NEW share,
         \A x \in D : counted[x] \in Nat /\ share[x] = Reports!Percent(counted[x], total),
         Sum(counted, D) = total
  PROVE  2 * Sum(share, D) \in 20000 - Cardinality(D) .. 20000 + Cardinality(D)
<1> DEFINE f == [x \in D |-> (2 * total) * share[x]]
           g == [x \in D |-> 20000 * counted[x]]
           h == [x \in D |-> total]
<1>1. \A x \in D : share[x] \in Int
  <2> SUFFICES ASSUME NEW x \in D PROVE share[x] \in Int
    OBVIOUS
  <2>1. 100 * counted[x] \in Int /\ share[x] = Reports!Rounded(100 * counted[x], total)
    BY DEF Reports!Percent
  <2> QED BY <2>1, RoundedNear
<1>2. \A x \in D : f[x] = (2 * total) * share[x] /\ g[x] = 20000 * counted[x] /\ h[x] = total
  OBVIOUS
<1>3. \A x \in D : f[x] \in Int /\ g[x] \in Int /\ h[x] \in Int
  BY <1>1
<1>4. Near(f, g, h, D)
  <2> SUFFICES ASSUME NEW x \in D PROVE f[x] <= g[x] + h[x] /\ g[x] <= f[x] + h[x]
    BY DEF Near
  <2>1. PICK n \in Nat, r \in Int : n = counted[x] /\ r = share[x] /\ r = Reports!Rounded(100 * n, total)
    BY <1>1 DEF Reports!Percent
  <2>2. PICK m \in Int : m = 100 * n /\ r = Reports!Rounded(m, total)
    BY <2>1
  <2>3. total * r \in Int /\ 2 * (total * r) <= 200 * m + total /\ 200 * m <= 2 * (total * r) + total
    BY <2>2, RoundedNear
  <2>4. f[x] = (2 * total) * r /\ g[x] = 20000 * n /\ h[x] = total
    <3>1. counted[x] = n /\ share[x] = r
      BY <2>1
    <3>2. f[x] = (2 * total) * share[x]
      BY <1>2
    <3>3. g[x] = 20000 * counted[x]
      BY <1>2
    <3>4. h[x] = total
      BY <1>2
    <3> HIDE DEF f, g, h
    <3>5. f[x] = (2 * total) * r
      BY <3>1, <3>2
    <3>6. g[x] = 20000 * n
      BY <3>1, <3>3
    <3> QED BY <3>4, <3>5, <3>6
  <2>5. (2 * total) * r = 2 * (total * r)
    <3>1. \A a, b \in Int : (2 * a) * b = 2 * (a * b)
      OBVIOUS
    <3> QED BY <3>1
  <2>6. 20000 * n = 200 * m
    BY <2>2
  <2> HIDE DEF f, g, h
  <2> QED BY <2>3, <2>4, <2>5, <2>6
<1> HIDE DEF f, g, h
<1>5. Sum(f, D) = (2 * total) * Sum(share, D)
  <2>1. PICK k \in Int : k = 2 * total
    OBVIOUS
  <2>2. \A x \in D : share[x] \in Int /\ f[x] = k * share[x]
    BY <1>1, <1>2, <2>1
  <2>3. Sum(f, D) = k * Sum(share, D)
    BY <2>2, SumTimes
  <2> QED BY <2>1, <2>3
<1>6. Sum(g, D) = 20000 * total
  <2>1. PICK k \in Int : k = 20000
    OBVIOUS
  <2>2. \A x \in D : counted[x] \in Int /\ g[x] = k * counted[x]
    BY <1>2, <2>1
  <2>3. Sum(g, D) = k * Sum(counted, D)
    BY <2>2, SumTimes
  <2> QED BY <2>1, <2>3
<1>7. Sum(h, D) = total * Cardinality(D)
  BY <1>2, SumConstant
<1>8. Sum(f, D) <= Sum(g, D) + Sum(h, D) /\ Sum(g, D) <= Sum(f, D) + Sum(h, D)
  BY <1>3, <1>4, SumClose
<1>9. PICK S \in Int, k \in Nat : S = Sum(share, D) /\ k = Cardinality(D)
  BY <1>1, SumLaws, FS_CardinalityType
<1>10. total * (2 * S) <= total * (20000 + k) /\ total * 20000 <= total * (2 * S + k)
  BY <1>5, <1>6, <1>7, <1>8, <1>9
<1>11. 2 * S <= 20000 + k /\ 20000 <= 2 * S + k
  <2>1. \A a, b \in Int : total * a <= total * b => a <= b
    OBVIOUS
  <2> QED BY <1>10, <2>1
<1> QED BY <1>9, <1>11

\* A report whose entries partition the applications is complete.
LEMMA PartitionComplete ==
  ASSUME Reports!AnalyticsConstants, Reports!TypeOK,
         NEW entries, IsFiniteSet(DOMAIN entries), NEW part,
         \A e \in DOMAIN entries :
           /\ part[e] \subseteq Reports!Present
           /\ entries[e].count = Cardinality(part[e])
           /\ entries[e].percentage = Reports!Percent(entries[e].count, Cardinality(Reports!Present)),
         \A d, e \in DOMAIN entries : d # e => part[d] \cap part[e] = {},
         \A a \in Reports!Present : \E e \in DOMAIN entries : a \in part[e]
  PROVE  Reports!Complete(entries)
<1> DEFINE D == DOMAIN entries
           counted == [e \in D |-> entries[e].count]
           share   == [e \in D |-> entries[e].percentage]
           total   == Cardinality(Reports!Present)
<1>1. IsFiniteSet(Reports!Present) /\ total \in Nat
  BY ReportSets, FS_CardinalityType
<1>2. \A e \in D : counted[e] = Cardinality(part[e])
  OBVIOUS
<1>3. \A e \in D : counted[e] \in Nat
  BY <1>1, <1>2, FS_Subset, FS_CardinalityType
<1>4. \A e \in D : share[e] = Reports!Percent(counted[e], total)
  OBVIOUS
<1>5. DOMAIN counted = D /\ DOMAIN share = D
  OBVIOUS
<1>6. Reports!Complete(entries) <=>
        /\ Sum(counted, D) = total
        /\ Reports!Present # {} => 2 * Sum(share, D) \in 20000 - Cardinality(D) .. 20000 + Cardinality(D)
  BY <1>5, ReportSets DEF Reports!Complete, Reports!SumFunction, Sum
<1> HIDE DEF counted, share
<1>7. Sum(counted, D) = total
  BY <1>1, <1>2, PartitionCounts
<1>8. ASSUME Reports!Present # {}
      PROVE  2 * Sum(share, D) \in 20000 - Cardinality(D) .. 20000 + Cardinality(D)
  <2>1. total \in Nat \ {0}
    BY <1>1, <1>8, FS_EmptySet
  <2> HIDE DEF total, D
  <2>2. IsFiniteSet(D)
    BY DEF D
  <2> QED BY <1>3, <1>4, <1>7, <2>1, <2>2, SharesAddUp
<1> QED BY <1>6, <1>7, <1>8

\* The stages of the funnel partition the applications: get_funnel_analytics
\* forgets none and lists none twice.
LEMMA FunnelComplete ==
  ASSUME Reports!AnalyticsConstants, Reports!TypeOK
  PROVE  Reports!Complete(Reports!Funnel)
<1> DEFINE order == Reports!FunnelOrder
           part == [k \in 1 .. 8 |-> { a \in Reports!Present : apps[a].stage = order[k] }]
<1>1. DOMAIN Reports!Funnel = 1 .. 8 /\ IsFiniteSet(1 .. 8)
  <2>1. DOMAIN Reports!FunnelOrder = 1 .. 8
    BY DEF Reports!FunnelOrder
  <2>2. DOMAIN Reports!Funnel = DOMAIN Reports!FunnelOrder
    BY DEF Reports!Funnel
  <2>3. IsFiniteSet(1 .. 8)
    <3>1. 1 \in Int /\ 8 \in Int
      OBVIOUS
    <3> QED BY <3>1, FS_Interval, Zenon
  <2> QED BY <2>1, <2>2, <2>3
<1>2. \A k \in 1 .. 8 : /\ Reports!Funnel[k].count = Cardinality(part[k])
                        /\ Reports!Funnel[k].percentage =
                             Reports!Percent(Reports!Funnel[k].count, Cardinality(Reports!Present))
  <2> SUFFICES ASSUME NEW k \in 1 .. 8
               PROVE  /\ Reports!Funnel[k].count = Cardinality(part[k])
                      /\ Reports!Funnel[k].percentage =
                           Reports!Percent(Reports!Funnel[k].count, Cardinality(Reports!Present))
    OBVIOUS
  <2>1. Reports!InStages({order[k]}) = Cardinality(part[k])
    <3>1. { a \in Reports!Present : apps[a].stage \in {order[k]} } = part[k]
      OBVIOUS
    <3> HIDE DEF part
    <3> QED BY <3>1, ReportSets DEF Reports!InStages
  <2>2. k \in DOMAIN order
    BY <1>1 DEF Reports!Funnel
  <2>3. /\ Reports!Funnel[k].count = Reports!InStages({order[k]})
        /\ Reports!Funnel[k].percentage = Reports!Percent(Reports!InStages({order[k]}), Reports!Cardinality(Reports!Present))
    BY <2>2 DEF Reports!Funnel
  <2> HIDE DEF part, order
  <2> QED BY <2>1, <2>3, ReportSets
<1>3. /\ \A j, k \in 1 .. 8 : order[j] = order[k] => j = k
      /\ \A s \in Reports!Stages : \E k \in 1 .. 8 : order[k] = s
  BY DEF Reports!FunnelOrder, Reports!Stages
<1>4. \A a \in Reports!Present : apps[a].stage \in Reports!Stages
  BY ReportSets DEF Reports!AppRow
<1> HIDE DEF order
<1>5. \A k \in 1 .. 8 : part[k] \subseteq Reports!Present
  OBVIOUS
<1>6. \A j, k \in 1 .. 8 : j # k => part[j] \cap part[k] = {}
  BY <1>3
<1>7. \A a \in Reports!Present : \E k \in 1 .. 8 : a \in part[k]
  BY <1>3, <1>4
<1> HIDE DEF part
<1> QED BY <1>1, <1>2, <1>5, <1>6, <1>7, PartitionComplete

\* So do the values of any column (_calc_dist).
LEMMA DistributionComplete ==
  ASSUME Reports!AnalyticsConstants, Reports!TypeOK, NEW value
  PROVE  Reports!Complete([e \in Reports!Distribution(value) |-> e])
<1> DEFINE E == Reports!Distribution(value)
           count(v) == Reports!Cardinality({ a \in Reports!Present : value[a] = v })
           line(v) == [ name |-> v, count |-> count(v),
                        percentage |-> Reports!Percent(count(v), Reports!Cardinality(Reports!Present)) ]
           g == [a \in Reports!Present |-> line(value[a])]
           part == [e \in E |-> { a \in Reports!Present : value[a] = e.name }]
           entries == [e \in E |-> e]
<1>1. E = { g[a] : a \in Reports!Present }
  <2>1. E = { line(v) : v \in { value[a] : a \in Reports!Present } }
    BY DEF Reports!Distribution
  <2> HIDE DEF E, line
  <2> QED BY <2>1
<1>2. IsFiniteSet(E)
  <2> HIDE DEF E, g
  <2> QED BY <1>1, ReportSets, ImageFinite
<1>3. \A e \in E : \E a \in Reports!Present : e = line(value[a])
  BY <1>1
<1>4. \A a \in Reports!Present : line(value[a]) \in E
  BY <1>1
<1> HIDE DEF E
<1>5. ASSUME NEW e \in E
      PROVE  /\ part[e] \subseteq Reports!Present
             /\ e.count = Cardinality(part[e])
             /\ e.percentage = Reports!Percent(e.count, Cardinality(Reports!Present))
             /\ e = line(e.name)
  <2>1. PICK v : e = line(v)
    BY <1>3
  <2>2. e.name = v /\ e.count = count(v) /\ e.percentage = Reports!Percent(count(v), Reports!Cardinality(Reports!Present))
    BY <2>1
  <2>3. part[e] = { a \in Reports!Present : value[a] = v }
    BY <2>2
  <2>4. count(v) = Cardinality(part[e])
    BY <2>3, ReportSets
  <2>5. part[e] \subseteq Reports!Present
    BY <2>3
  <2> HIDE DEF line, count, part
  <2> QED BY <2>1, <2>2, <2>4, <2>5, ReportSets
<1>6. ASSUME NEW d \in E, NEW e \in E, d # e PROVE part[d] \cap part[e] = {}
  <2>1. d.name # e.name
    <3> HIDE DEF line
    <3> QED BY <1>5, <1>6
  <2> QED BY <2>1
<1>7. \A a \in Reports!Present : a \in part[line(value[a])]
  <2> SUFFICES ASSUME NEW a \in Reports!Present PROVE a \in part[line(value[a])]
    OBVIOUS
  <2>1. line(value[a]).name = value[a]
    OBVIOUS
  <2> HIDE DEF line
  <2> QED BY <1>4, <2>1
<1>8. DOMAIN entries = E /\ \A e \in E : entries[e] = e
  OBVIOUS
<1> HIDE DEF part, entries
<1>9. \A a \in Reports!Present : \E e \in E : a \in part[e]
  BY <1>4, <1>7
<1>10. Reports!Complete(entries)
  <2> HIDE DEF line, count
  <2>1. \A e \in E : /\ part[e] \subseteq Reports!Present
                     /\ entries[e].count = Cardinality(part[e])
                     /\ entries[e].percentage = Reports!Percent(entries[e].count, Cardinality(Reports!Present))
    BY <1>5, <1>8
  <2> QED BY <1>2, <1>6, <1>8, <1>9, <2>1, PartitionComplete
<1> QED BY <1>10 DEF E, entries

\* So do the months (get_timeline_series).
LEMMA TimelineComplete ==
  ASSUME Reports!AnalyticsConstants, Reports!TypeOK
  PROVE  Reports!SumFunction(Reports!Timeline) = Cardinality(Reports!Present)
<1> DEFINE month == [a \in Reports!Present |-> apps[a].month]
           M == { month[a] : a \in Reports!Present }
           part == [m \in M |-> { a \in Reports!Present : apps[a].month = m }]
           n == [m \in M |-> Cardinality({ a \in Reports!Present : apps[a].month = m })]
<1>1. Reports!Timeline = n
  <2>1. M = { apps[a].month : a \in Reports!Present }
    OBVIOUS
  <2> HIDE DEF M
  <2> QED BY <2>1, ReportSets DEF Reports!Timeline
<1>2. IsFiniteSet(M)
  <2> HIDE DEF month
  <2> QED BY ReportSets, ImageFinite
<1>3. \A m \in M : part[m] \subseteq Reports!Present /\ n[m] = Cardinality(part[m])
  OBVIOUS
<1>4. \A l, m \in M : l # m => part[l] \cap part[m] = {}
  OBVIOUS
<1>5. \A a \in Reports!Present : \E m \in M : a \in part[m]
  OBVIOUS
<1>6. DOMAIN n = M
  OBVIOUS
<1> HIDE DEF M, part, n
<1>7. Sum(n, M) = Cardinality(Reports!Present)
  BY <1>2, <1>3, <1>4, <1>5, ReportSets, PartitionCounts
<1> QED BY <1>1, <1>6, <1>7 DEF Sum, Reports!SumFunction

\* The rates of get_dashboard_kpis are shares, of offers among responses.
LEMMA RatesOrdered ==
  ASSUME Reports!AnalyticsConstants, Reports!TypeOK
  PROVE  LET body == Reports!Dashboard
         IN /\ body.offer_rate <= body.response_rate /\ body.response_rate <= 10000
            /\ body.offers_received + body.rejections_received <= body.total_applications
<1> DEFINE In(S) == { a \in Reports!Present : apps[a].stage \in S }
<1>1. \A S : Reports!InStages(S) = Cardinality(In(S)) /\ IsFiniteSet(In(S)) /\ Cardinality(In(S)) \in Nat
  BY ReportSets, FS_Subset, FS_CardinalityType DEF Reports!InStages
<1>2. PICK p, q, o \in Nat : /\ p = Reports!InStages(Reports!Stages \ {"SAVED"})
                            /\ q = Reports!InStages(Reports!Stages \ {"SAVED", "APPLIED"})
                            /\ o = Reports!InStages({"OFFER"})
  BY <1>1
<1>3. o <= q
  <2>1. In({"OFFER"}) \subseteq In(Reports!Stages \ {"SAVED", "APPLIED"})
    BY DEF Reports!Stages
  <2> HIDE DEF In
  <2> QED BY <1>1, <1>2, <2>1, FS_Subset
<1>4. q <= p
  <2>1. In(Reports!Stages \ {"SAVED", "APPLIED"}) \subseteq In(Reports!Stages \ {"SAVED"})
    OBVIOUS
  <2> HIDE DEF In
  <2> QED BY <1>1, <1>2, <2>1, FS_Subset
<1>5. Reports!Percent(o, p) <= Reports!Percent(q, p) /\ Reports!Percent(q, p) <= 10000
  <2>1. CASE p = 0
    BY <2>1 DEF Reports!Percent, Reports!Rounded
  <2>2. CASE p # 0
    <3>1. PICK k \in Nat \ {0} : k = 2 * p
      BY <2>2
    <3>2. PICK x \in Nat, y \in Nat : x = 2 * 100 * (100 * o) + p /\ y = 2 * 100 * (100 * q) + p
      OBVIOUS
    <3>3. x <= y
      BY <1>3, <3>2
    <3>4. PICK c \in Int, d \in Int : c = x \div k /\ d = y \div k
      OBVIOUS
    <3>5. k * c <= x /\ y < k * d + k /\ k * d <= y /\ k * c \in Int /\ k * d \in Int
      BY <3>4
    <3>6. k * c < k * (d + 1)
      BY <3>3, <3>5
    <3>7. c <= d
      <4>1. \A a, b \in Int : k * a < k * b => a < b
        OBVIOUS
      <4> QED BY <3>6, <4>1
    <3>8. k * d < k * 10001
      BY <1>4, <3>1, <3>2, <3>5
    <3>9. d <= 10000
      <4>1. \A a, b \in Int : k * a < k * b => a < b
        OBVIOUS
      <4> QED BY <3>8, <4>1
    <3>10. Reports!Percent(o, p) = c /\ Reports!Percent(q, p) = d
      BY <2>2, <3>1, <3>2, <3>4 DEF Reports!Percent, Reports!Rounded
    <3> QED BY <3>7, <3>9, <3>10
  <2> QED BY <2>1, <2>2
<1>6. Reports!InStages({"OFFER"}) + Reports!InStages({"REJECTED"}) <= Cardinality(Reports!Present)
  <2>1. In({"OFFER"}) \cap In({"REJECTED"}) = {} /\ In({"OFFER"}) \cup In({"REJECTED"}) \subseteq Reports!Present
    OBVIOUS
  <2> HIDE DEF In
  <2>2. Cardinality(In({"OFFER"}) \cup In({"REJECTED"})) = Cardinality(In({"OFFER"})) + Cardinality(In({"REJECTED"}))
    BY <1>1, <2>1, FS_Union, FS_EmptySet
  <2>3. Cardinality(In({"OFFER"}) \cup In({"REJECTED"})) <= Cardinality(Reports!Present)
    BY <2>1, ReportSets, FS_Subset
  <2> QED BY <1>1, <2>2, <2>3
<1> HIDE DEF In
<1> QED BY <1>2, <1>5, <1>6, ReportSets DEF Reports!Dashboard

-----------------------------------------------------------------------------
(* Velocity.                                                                 *)

\* The days before each transition.
Days == [t \in Reports!Transitions |-> Reports!Elapsed(t)]

\* The days between the first and the last transition.
Span(a) ==
  LET ledger == apps[a].ledger
  IN IF Len(ledger) < 2 THEN 0 ELSE ledger[Len(ledger)].at - ledger[2].at

\* The transitions of an application.
Moves(a) == {a} \X (2 .. Len(apps[a].ledger))

\* Ledgers have times, and finitely many transitions.
LEMMA LedgerTyped ==
  ASSUME Reports!AnalyticsConstants, Reports!TypeOK, NEW a \in Reports!Present
  PROVE  /\ Len(apps[a].ledger) \in Nat
         /\ \A k \in 1 .. Len(apps[a].ledger) : apps[a].ledger[k].at \in Nat
         /\ IsFiniteSet(Moves(a)) /\ Moves(a) \subseteq Reports!Transitions
<1>1. apps[a].ledger \in Seq(Reports!Entry)
  BY ReportSets DEF Reports!AppRow
<1>2. PICK n \in Nat : n = Len(apps[a].ledger)
  BY <1>1
<1>3. \A k \in 1 .. n : apps[a].ledger[k] \in Reports!Entry
  BY <1>1, <1>2
<1>4. \A k \in 1 .. n : apps[a].ledger[k].at \in Nat
  BY <1>3 DEF Reports!Entry
<1>5. IsFiniteSet(2 .. n)
  <2>1. 2 \in Int /\ n \in Int
    OBVIOUS
  <2> QED BY <2>1, FS_Interval, Zenon
<1>6. IsFiniteSet(Moves(a))
  BY <1>2, <1>5, FS_Singleton, FS_Product DEF Moves
<1>7. Moves(a) \subseteq Reports!Transitions
  BY DEF Moves, Reports!Transitions
<1> QED BY <1>2, <1>4, <1>6, <1>7

\* A transition belongs to one application.
LEMMA MovesTyped ==
  ASSUME Reports!AnalyticsConstants, Reports!TypeOK
  PROVE  /\ \A t \in Reports!Transitions :
              /\ t = <<t[1], t[2]>> /\ t[1] \in Reports!Present
              /\ t[2] \in 2 .. Len(apps[t[1]].ledger) /\ t \in Moves(t[1])
         /\ \A t \in Reports!Transitions : Days[t] = Reports!Elapsed(t) /\ Days[t] \in Int
         /\ IsFiniteSet(Reports!Transitions)
<1>2. ASSUME NEW t \in Reports!Transitions
      PROVE  /\ t = <<t[1], t[2]>> /\ t[1] \in Reports!Present
             /\ t[2] \in 2 .. Len(apps[t[1]].ledger) /\ t \in Moves(t[1])
  BY DEF Reports!Transitions, Moves
<1>3. ASSUME NEW t \in Reports!Transitions
      PROVE  Days[t] = Reports!Elapsed(t) /\ Days[t] \in Int
  <2>1. PICK a \in Reports!Present : a = t[1]
    BY <1>2
  <2>4. PICK k \in 2 .. Len(apps[a].ledger) : k = t[2]
    BY <1>2, <2>1
  <2>2. /\ Len(apps[a].ledger) \in Nat
        /\ \A i \in 1 .. Len(apps[a].ledger) : apps[a].ledger[i].at \in Nat
    BY LedgerTyped
  <2>3. apps[a].ledger[k].at \in Nat /\ (k # 2 => apps[a].ledger[k - 1].at \in Nat)
    BY <2>2
  <2> QED BY <2>1, <2>4, <2>3 DEF Days, Reports!Elapsed
<1>4. IsFiniteSet(Reports!Transitions)
  <2> DEFINE move == [a \in Reports!Present |-> Moves(a)]
             All == { move[a] : a \in Reports!Present }
  <2>1. Reports!Transitions = UNION All
    BY DEF Reports!Transitions, Moves
  <2>2. IsFiniteSet(All)
    <3> HIDE DEF move
    <3> QED BY ReportSets, ImageFinite
  <2>3. \A s \in All : IsFiniteSet(s)
    BY LedgerTyped
  <2> HIDE DEF All
  <2> QED BY <2>1, <2>2, <2>3, FS_UNION
<1> QED BY <1>2, <1>3, <1>4

\* The days between the transitions of one application add up.
LEMMA SpanTelescopes ==
  ASSUME Reports!AnalyticsConstants, Reports!TypeOK, NEW a \in Reports!Present
  PROVE  Sum(Days, Moves(a)) = Span(a) /\ Span(a) \in Int
<1> DEFINE L == Len(apps[a].ledger)
           at(k) == apps[a].ledger[k].at
           upto(k) == {a} \X (2 .. k)
           T == { n \in Nat : n + 2 <= L => Sum(Days, upto(n + 2)) = at(n + 2) - at(2) }
<1>1. /\ L \in Nat /\ \A k \in 1 .. L : at(k) \in Nat
      /\ IsFiniteSet(Moves(a)) /\ Moves(a) \subseteq Reports!Transitions
  BY LedgerTyped
<1>2. \A k \in Nat : k <= L => upto(k) \subseteq Moves(a)
  BY <1>1 DEF Moves
<1>3. \A k \in 2 .. L : Days[<<a, k>>] = (IF k = 2 THEN 0 ELSE at(k) - at(k - 1)) /\ <<a, k>> \in Moves(a)
  <2> SUFFICES ASSUME NEW k \in 2 .. L
               PROVE  Days[<<a, k>>] = (IF k = 2 THEN 0 ELSE at(k) - at(k - 1)) /\ <<a, k>> \in Moves(a)
    OBVIOUS
  <2>1. <<a, k>> \in Moves(a)
    BY DEF Moves
  <2>2. Days[<<a, k>>] = Reports!Elapsed(<<a, k>>)
    BY <1>1, <2>1, MovesTyped
  <2> QED BY <2>1, <2>2 DEF Reports!Elapsed
<1>4. ASSUME NEW k \in 2 .. L
      PROVE  Sum(Days, upto(k)) = Days[<<a, k>>] + Sum(Days, upto(k - 1)) /\ Sum(Days, upto(k - 1)) \in Int
  <2>1. upto(k) \subseteq Moves(a) /\ <<a, k>> \in upto(k) /\ upto(k) \ {<<a, k>>} = upto(k - 1)
    BY <1>1, <1>2
  <2>2. \A t \in Moves(a) : Days[t] \in Int
    BY <1>1, MovesTyped
  <2> HIDE DEF upto
  <2>3. PICK s : s = upto(k)
    OBVIOUS
  <2>4. PICK x : x = <<a, k>>
    OBVIOUS
  <2>5. s \subseteq Moves(a) /\ x \in s /\ s \ {x} = upto(k - 1)
    BY <2>1, <2>3, <2>4
  <2>6. Sum(Days, s) = Days[x] + Sum(Days, s \ {x}) /\ Sum(Days, s \ {x}) \in Int
    <3>1. PICK M : M = Moves(a)
      OBVIOUS
    <3>2. IsFiniteSet(M)
      BY <1>1, <3>1
    <3>3. \A t \in M : Days[t] \in Int
      BY <2>2, <3>1
    <3>4. s \subseteq M /\ x \in s
      BY <2>5, <3>1
    <3> HIDE DEF L
    <3> QED BY <3>2, <3>3, <3>4, SumStep
  <2> QED BY <2>3, <2>4, <2>5, <2>6
<1>5. 0 \in T
  <2> SUFFICES ASSUME 2 <= L PROVE Sum(Days, upto(2)) = at(2) - at(2)
    OBVIOUS
  <2>1. 2 \in 2 .. L /\ at(2) \in Nat
    BY <1>1
  <2>2. Sum(Days, upto(2 - 1)) = 0
    <3>1. upto(2 - 1) = {}
      OBVIOUS
    <3> HIDE DEF upto
    <3> QED BY <3>1, SumOfNone
  <2>3. Sum(Days, upto(2)) = Days[<<a, 2>>] + Sum(Days, upto(2 - 1)) /\ Days[<<a, 2>>] = 0
    BY <1>3, <1>4, <2>1
  <2> HIDE DEF upto, at
  <2> QED BY <2>1, <2>2, <2>3
<1>6. ASSUME NEW n \in Nat, n \in T PROVE n + 1 \in T
  <2> SUFFICES ASSUME n + 3 <= L PROVE Sum(Days, upto(n + 3)) = at(n + 3) - at(2)
    <3>1. (n + 1) + 2 = n + 3 /\ n + 1 \in Nat
      OBVIOUS
    <3>2. n + 1 \in T <=> ((n + 1) + 2 <= L => Sum(Days, upto((n + 1) + 2)) = at((n + 1) + 2) - at(2))
      <4> HIDE DEF L, at, upto
      <4> QED BY <3>1 DEF T
    <3> HIDE DEF L, at, upto, T
    <3> QED BY <3>1, <3>2
  <2>1. n + 3 \in 2 .. L /\ n + 3 # 2 /\ (n + 3) - 1 = n + 2 /\ at(2) \in Nat /\ at(n + 2) \in Nat /\ at(n + 3) \in Nat
    BY <1>1
  <2>2. Sum(Days, upto(n + 2)) = at(n + 2) - at(2)
    BY <1>1, <1>6
  <2> HIDE DEF upto, at, L
  <2>3. Sum(Days, upto(n + 3)) = (at(n + 3) - at(n + 2)) + Sum(Days, upto(n + 2))
    BY <1>3, <1>4, <2>1
  <2> QED BY <2>1, <2>2, <2>3
<1>7. ASSUME L >= 2 PROVE Sum(Days, Moves(a)) = at(L) - at(2) /\ at(L) - at(2) \in Int
  <2>1. at(L) \in Nat /\ at(2) \in Nat
    BY <1>1, <1>7
  <2>2. \A n \in Nat : n \in T
    <3> HIDE DEF T
    <3> QED BY <1>5, <1>6, NumberInduction
  <2>3. \A n \in Nat : n + 2 <= L => Sum(Days, upto(n + 2)) = at(n + 2) - at(2)
    BY <2>2
  <2>4. upto(L) = Moves(a)
    BY DEF Moves
  <2> HIDE DEF upto, at, L
  <2>5. PICK n \in Nat : n + 2 = L
    <3>1. L - 2 \in Nat /\ (L - 2) + 2 = L
      BY <1>1, <1>7
    <3> QED BY <3>1
  <2>6. Sum(Days, upto(L)) = at(L) - at(2)
    <3>1. n + 2 <= L
      BY <1>1, <2>5
    <3>2. Sum(Days, upto(n + 2)) = at(n + 2) - at(2)
      BY <2>3, <3>1
    <3> QED BY <2>5, <3>2
  <2> QED BY <2>1, <2>4, <2>6
<1>8. ASSUME L < 2 PROVE Sum(Days, Moves(a)) = 0
  <2>1. Moves(a) = {}
    BY <1>1, <1>8 DEF Moves
  <2> QED BY <2>1, SumOfNone
<1> QED BY <1>1, <1>7, <1>8 DEF Span

\* The transitions between a pair of stages.
PartOf(p) == { t \in Reports!Transitions : Reports!Pair(t) = p }

\* The entries of get_stage_velocity, one for each pair that occurs.
LEMMA VelocityEntries ==
  ASSUME Reports!AnalyticsConstants, Reports!TypeOK
  PROVE  /\ IsFiniteSet(Reports!Velocity)
         /\ \A e \in Reports!Velocity :
              /\ e.count = Cardinality(PartOf(e.pair)) /\ PartOf(e.pair) # {}
              /\ e.avg = Reports!Rounded(Sum(Days, PartOf(e.pair)), e.count)
         /\ \A d, e \in Reports!Velocity : d.pair = e.pair => d = e
         /\ \A t \in Reports!Transitions : \E e \in Reports!Velocity : e.pair = Reports!Pair(t)
<1> DEFINE pairs == { Reports!Pair(t) : t \in Reports!Transitions }
           made(p) == [ pair  |-> p,
                         count |-> Cardinality(PartOf(p)),
                         avg   |-> Reports!Rounded(Sum(Days, PartOf(p)), Cardinality(PartOf(p))) ]
<1>1. Reports!Velocity = { made(p) : p \in pairs }
  <2>1. \A s : Reports!Cardinality(s) = Cardinality(s)
    BY ReportSets
  <2>2. Reports!Velocity =
          { [ pair  |-> p,
              count |-> Reports!Cardinality(PartOf(p)),
              avg   |-> Reports!Rounded(Sum(Days, PartOf(p)), Reports!Cardinality(PartOf(p))) ] : p \in pairs }
    BY DEF Reports!Velocity, PartOf, Days, Sum
  <2> HIDE DEF pairs
  <2> QED BY <2>1, <2>2
<1>2. IsFiniteSet(pairs)
  <2> DEFINE f == [t \in Reports!Transitions |-> Reports!Pair(t)]
  <2>1. pairs = { f[t] : t \in Reports!Transitions }
    OBVIOUS
  <2> HIDE DEF f, pairs
  <2> QED BY <2>1, MovesTyped, ImageFinite
<1>3. IsFiniteSet({ made(p) : p \in pairs })
  <2> DEFINE f == [p \in pairs |-> made(p)]
  <2> HIDE DEF made, pairs
  <2>1. { made(p) : p \in pairs } = { f[p] : p \in pairs }
    OBVIOUS
  <2> HIDE DEF f
  <2> QED BY <2>1, <1>2, ImageFinite
<1>4. \A p \in pairs : PartOf(p) # {}
  BY DEF PartOf
<1>5. \A t \in Reports!Transitions : Reports!Pair(t) \in pairs
  OBVIOUS
<1>6. \A e \in Reports!Velocity : \E p \in pairs : e = made(p)
  <2> HIDE DEF made, pairs
  <2> QED BY <1>1
<1>7. \A p \in pairs : made(p) \in Reports!Velocity
  <2> HIDE DEF made, pairs
  <2> QED BY <1>1
<1>8. \A p : /\ made(p).pair = p /\ made(p).count = Cardinality(PartOf(p))
             /\ made(p).avg = Reports!Rounded(Sum(Days, PartOf(p)), Cardinality(PartOf(p)))
  OBVIOUS
<1> HIDE DEF made, pairs
<1>9. \A e \in Reports!Velocity : e = made(e.pair) /\ e.pair \in pairs
  BY <1>6, <1>8
<1>10. ASSUME NEW e \in Reports!Velocity
       PROVE  /\ e.count = Cardinality(PartOf(e.pair)) /\ PartOf(e.pair) # {}
              /\ e.avg = Reports!Rounded(Sum(Days, PartOf(e.pair)), e.count)
  <2>1. PICK p \in pairs : e = made(p)
    BY <1>6
  <2> QED BY <2>1, <1>4, <1>8
<1>11. \A t \in Reports!Transitions : \E e \in Reports!Velocity : e.pair = Reports!Pair(t)
  BY <1>5, <1>7, <1>8
<1>12. \A d, e \in Reports!Velocity : d.pair = e.pair => d = e
  BY <1>9
<1> QED BY <1>1, <1>3, <1>10, <1>11, <1>12

\* The averages, times their counts, add up to the spans of the applications
\* but for half a hundredth per transition.
LEMMA VelocityAddsUp ==
  ASSUME Reports!AnalyticsConstants, Reports!TypeOK,
         NEW shown, \A e \in Reports!Velocity : shown[e] = e.count * e.avg,
         NEW spans, \A a \in Reports!Present : spans[a] = Span(a)
  PROVE  2 * (Sum(shown, Reports!Velocity) - 100 * Sum(spans, Reports!Present))
           \in -Cardinality(Reports!Transitions) .. Cardinality(Reports!Transitions)
<1>1. PICK E : E = Reports!Velocity
  OBVIOUS
<1>2. PICK P : P = Reports!Transitions
  OBVIOUS
<1>3. PICK A : A = Reports!Present
  OBVIOUS
<1> DEFINE part == [e \in E |-> PartOf(e.pair)]
           days == [e \in E |-> Sum(Days, part[e])]
           f    == [e \in E |-> 2 * shown[e]]
           g    == [e \in E |-> 200 * days[e]]
           h    == [e \in E |-> Cardinality(part[e])]
           byApp == [a \in A |-> Moves(a)]
<1>4. IsFiniteSet(E) /\ IsFiniteSet(P) /\ IsFiniteSet(A) /\ \A t \in P : Days[t] \in Int
  BY <1>1, <1>2, <1>3, VelocityEntries, MovesTyped, ReportSets
<1>5. /\ \A e \in E : part[e] \subseteq P /\ part[e] # {}
      /\ \A d, e \in E : d # e => part[d] \cap part[e] = {}
      /\ \A t \in P : \E e \in E : t \in part[e]
  <2>1. \A e \in E : part[e] = PartOf(e.pair)
    OBVIOUS
  <2>2. \A p : PartOf(p) \subseteq P
    BY <1>2 DEF PartOf
  <2>3. \A p, q : p # q => PartOf(p) \cap PartOf(q) = {}
    BY DEF PartOf
  <2>4. \A t \in P : \E e \in E : t \in PartOf(e.pair)
    <3> SUFFICES ASSUME NEW t \in P PROVE \E e \in E : t \in PartOf(e.pair)
      OBVIOUS
    <3>1. PICK e \in E : e.pair = Reports!Pair(t)
      BY <1>1, <1>2, VelocityEntries
    <3>2. t \in PartOf(e.pair)
      BY <1>2, <3>1 DEF PartOf
    <3> QED BY <3>2
  <2>5. \A d, e \in E : d # e => d.pair # e.pair
    BY <1>1, VelocityEntries
  <2>6. \A e \in E : PartOf(e.pair) # {}
    BY <1>1, VelocityEntries
  <2> HIDE DEF part
  <2> QED BY <2>1, <2>2, <2>3, <2>4, <2>5, <2>6
<1>6. \A e \in E : /\ days[e] = Sum(Days, part[e]) /\ h[e] = Cardinality(part[e])
                   /\ f[e] = 2 * shown[e] /\ g[e] = 200 * days[e]
  OBVIOUS
<1>7. \A e \in E : shown[e] = h[e] * e.avg /\ e.avg = Reports!Rounded(days[e], h[e])
  BY <1>1, VelocityEntries
<1> HIDE DEF part, days, f, g, h
<1>8. ASSUME NEW e \in E PROVE days[e] \in Int /\ h[e] \in Nat \ {0}
  <2>1. PICK s : s = part[e]
    OBVIOUS
  <2>2. s \subseteq P /\ s # {}
    BY <1>5, <2>1
  <2>3. IsFiniteSet(s) /\ \A t \in s : Days[t] \in Int
    BY <1>4, <2>2, FS_Subset
  <2>4. Sum(Days, s) \in Int /\ Cardinality(s) \in Nat /\ Cardinality(s) # 0
    BY <2>2, <2>3, SumLaws, FS_CardinalityType, FS_EmptySet
  <2> QED BY <1>6, <2>1, <2>4
<1>9. ASSUME NEW e \in E
      PROVE  shown[e] \in Int /\ 2 * shown[e] <= 200 * days[e] + h[e] /\ 200 * days[e] <= 2 * shown[e] + h[e]
  <2>1. PICK n \in Int, d \in Nat \ {0} : n = days[e] /\ d = h[e]
    BY <1>8
  <2>a. PICK q : q = e.avg
    OBVIOUS
  <2>2. q = Reports!Rounded(n, d) /\ shown[e] = d * q
    BY <1>7, <2>1, <2>a
  <2>3. /\ q \in Int /\ d * q \in Int
        /\ 2 * (d * q) <= 200 * n + d /\ 200 * n <= 2 * (d * q) + d
    BY <2>2, RoundedNear
  <2> QED BY <2>1, <2>a, <2>2, <2>3
<1>10. \A e \in E : f[e] \in Int /\ g[e] \in Int /\ h[e] \in Int
  BY <1>6, <1>8, <1>9
<1>11. Near(f, g, h, E)
  BY <1>6, <1>9 DEF Near
<1>12. Sum(f, E) <= Sum(g, E) + Sum(h, E) /\ Sum(g, E) <= Sum(f, E) + Sum(h, E)
  BY <1>4, <1>10, <1>11, SumClose
<1>13. Sum(f, E) = 2 * Sum(shown, E)
  <2>1. PICK k \in Int : k = 2
    OBVIOUS
  <2>2. \A e \in E : shown[e] \in Int /\ f[e] = k * shown[e]
    BY <1>6, <1>9, <2>1
  <2>3. Sum(f, E) = k * Sum(shown, E)
    BY <1>4, <2>2, SumTimes
  <2> QED BY <2>1, <2>3
<1>14. Sum(g, E) = 200 * Sum(days, E)
  <2>1. PICK k \in Int : k = 200
    OBVIOUS
  <2>2. \A e \in E : days[e] \in Int /\ g[e] = k * days[e]
    BY <1>6, <1>8, <2>1
  <2>3. Sum(g, E) = k * Sum(days, E)
    BY <1>4, <2>2, SumTimes
  <2> QED BY <2>1, <2>3
<1>15. Sum(h, E) = Cardinality(P)
  BY <1>4, <1>5, <1>6, PartitionCounts
<1>16. Sum(days, E) = Sum(Days, P)
  BY <1>4, <1>5, <1>6, SumPartition
<1>17. /\ \A a \in A : byApp[a] \subseteq P
       /\ \A a, b \in A : a # b => byApp[a] \cap byApp[b] = {}
       /\ \A t \in P : \E a \in A : t \in byApp[a]
  <2>1. \A a \in A : byApp[a] = Moves(a)
    OBVIOUS
  <2>2. \A a \in A : byApp[a] \subseteq P
    BY <2>1, <1>2, <1>3, LedgerTyped
  <2>3. \A a, b \in A : a # b => byApp[a] \cap byApp[b] = {}
    BY <2>1 DEF Moves
  <2>4. \A t \in P : t[1] \in A /\ t \in Moves(t[1])
    BY <1>2, <1>3, MovesTyped
  <2> HIDE DEF byApp
  <2> QED BY <2>1, <2>2, <2>3, <2>4
<1>18. \A a \in A : spans[a] = Sum(Days, byApp[a]) /\ spans[a] \in Int
  BY <1>3, SpanTelescopes
<1> HIDE DEF byApp
<1>19. Sum(spans, A) = Sum(Days, P)
  BY <1>4, <1>17, <1>18, SumPartition
<1>20. PICK s \in Int, d \in Int, c \in Nat : s = Sum(shown, E) /\ d = Sum(Days, P) /\ c = Cardinality(P)
  BY <1>4, <1>9, SumLaws, FS_CardinalityType
<1>21. 2 * s <= 200 * d + c /\ 200 * d <= 2 * s + c
  BY <1>12, <1>13, <1>14, <1>15, <1>16, <1>20
<1>22. 2 * (s - 100 * d) \in -c .. c
  BY <1>21
<1> QED BY <1>1, <1>2, <1>3, <1>19, <1>20, <1>22

\* The answer of an endpoint is its report on the applications.
ReportsInv ==
  /\ Reports!TypeOK
  /\ response.of = "dashboard" => response.body = Reports!Dashboard
  /\ response.of = "funnel"    => response.body = Reports!Funnel
  /\ response.of = "breakdown" => response.body = Reports!Breakdown
  /\ response.of = "velocity"  => response.body = Reports!Velocity
  /\ response.of = "timeline"  => response.body = Reports!Timeline

\* A report depends on the applications alone.
LEMMA ReportsOfApps ==
  ASSUME apps' = apps
  PROVE  /\ Reports!Dashboard' = Reports!Dashboard /\ Reports!Funnel' = Reports!Funnel
         /\ Reports!Breakdown' = Reports!Breakdown /\ Reports!Velocity' = Reports!Velocity
         /\ Reports!Timeline' = Reports!Timeline
<1>1. Reports!Present' = Reports!Present
  BY DEF Reports!Present
<1>2. \A s : Reports!InStages(s)' = Reports!InStages(s)
  BY <1>1 DEF Reports!InStages
<1>3. Reports!Dashboard' = Reports!Dashboard
  BY <1>1, <1>2 DEF Reports!Dashboard
<1>4. Reports!Funnel' = Reports!Funnel
  BY <1>1, <1>2 DEF Reports!Funnel
<1>5. Reports!Breakdown' = Reports!Breakdown
  BY <1>1 DEF Reports!Breakdown, Reports!Distribution
<1>6. Reports!Transitions' = Reports!Transitions
  BY <1>1 DEF Reports!Transitions
<1>7. Reports!Velocity' = Reports!Velocity
  BY <1>6 DEF Reports!Velocity, Reports!Pair, Reports!Elapsed
<1>8. Reports!Timeline' = Reports!Timeline
  BY <1>1 DEF Reports!Timeline
<1> QED BY <1>3, <1>4, <1>5, <1>7, <1>8

\* Proof of the invariant: one answer is given, and nothing changes after it.
THEOREM ReportsInvariant == StandaloneSpec => []ReportsInv
<1>1. Reports!Init => ReportsInv
  <2> SUFFICES ASSUME Reports!Init PROVE ReportsInv
    OBVIOUS
  <2>1. response.of = None /\ response.status = 200 /\ apps \in Portfolios
    BY DEF Reports!Init
  <2>2. None \notin Reports!Endpoints
    BY ComponentConstants DEF Reports!AnalyticsConstants
  <2> QED BY <2>1, <2>2 DEF ReportsInv, Reports!TypeOK, Reports!Endpoints
<1>2. ReportsInv /\ [Reports!Next]_(Reports!vars) => ReportsInv'
  <2> SUFFICES ASSUME ReportsInv, [Reports!Next]_(Reports!vars) PROVE ReportsInv'
    OBVIOUS
  <2>a. "funnel" \in Reports!Endpoints /\ "dashboard" \in Reports!Endpoints /\ "breakdown" \in Reports!Endpoints
        /\ "velocity" \in Reports!Endpoints /\ "timeline" \in Reports!Endpoints
    BY DEF Reports!Endpoints
  <2>b. ASSUME NEW of \in Reports!Endpoints, NEW status \in {200, Reports!StatusOf.Unhandled}, NEW body,
               Reports!Answer(of, status, body)
        PROVE  /\ apps' = apps /\ response'.of = of /\ response'.status = status /\ response'.body = body
               /\ Reports!TypeOK'
    BY <2>b DEF Reports!Answer, Reports!TypeOK, ReportsInv
  <2>2. CASE Reports!GetFunnel
    <3>1. PICK status \in {200, Reports!StatusOf.Unhandled} : Reports!Answer("funnel", status, Reports!Funnel)
      BY <2>2 DEF Reports!GetFunnel
    <3>2. apps' = apps /\ response'.of = "funnel" /\ response'.body = Reports!Funnel /\ Reports!TypeOK'
      BY <2>a, <2>b, <3>1
    <3> QED BY <3>2, ReportsOfApps DEF ReportsInv
  <2>3. CASE Reports!GetDashboard
    <3>1. Reports!Answer("dashboard", 200, Reports!Dashboard)
      BY <2>3 DEF Reports!GetDashboard
    <3>2. apps' = apps /\ response'.of = "dashboard" /\ response'.body = Reports!Dashboard /\ Reports!TypeOK'
      BY <2>a, <2>b, <3>1
    <3> QED BY <3>2, ReportsOfApps DEF ReportsInv
  <2>4. CASE Reports!GetBreakdown
    <3>1. Reports!Answer("breakdown", 200, Reports!Breakdown)
      BY <2>4 DEF Reports!GetBreakdown
    <3>2. apps' = apps /\ response'.of = "breakdown" /\ response'.body = Reports!Breakdown /\ Reports!TypeOK'
      BY <2>a, <2>b, <3>1
    <3> QED BY <3>2, ReportsOfApps DEF ReportsInv
  <2>5. CASE Reports!GetVelocity
    <3>1. Reports!Answer("velocity", 200, Reports!Velocity)
      BY <2>5 DEF Reports!GetVelocity
    <3>2. apps' = apps /\ response'.of = "velocity" /\ response'.body = Reports!Velocity /\ Reports!TypeOK'
      BY <2>a, <2>b, <3>1
    <3> QED BY <3>2, ReportsOfApps DEF ReportsInv
  <2>6. CASE Reports!GetTimeline
    <3>1. Reports!Answer("timeline", 200, Reports!Timeline)
      BY <2>6 DEF Reports!GetTimeline
    <3>2. apps' = apps /\ response'.of = "timeline" /\ response'.body = Reports!Timeline /\ Reports!TypeOK'
      BY <2>a, <2>b, <3>1
    <3> QED BY <3>2, ReportsOfApps DEF ReportsInv
  <2>7. CASE UNCHANGED Reports!vars
    <3>1. apps' = apps /\ response' = response
      BY <2>7 DEF Reports!vars
    <3> QED BY <3>1, ReportsOfApps DEF ReportsInv, Reports!TypeOK
  <2> QED BY <2>2, <2>3, <2>4, <2>5, <2>6, <2>7 DEF Reports!Next, Reports!Quiet
<1> QED BY <1>1, <1>2, EachComponentRuns, PTL DEF Reports!Spec

\* Each report of analytics_service.py counts every application of the user
\* exactly once, with shares that add up to 100 % but for the rounding.
THEOREM ReportsCountEachOnce == StandaloneSpec => []ReportsAddUp
<1>1. ReportsInv => ReportsAddUp
  <2> SUFFICES ASSUME ReportsInv PROVE ReportsAddUp
    OBVIOUS
  <2>1. Reports!AnalyticsConstants /\ Reports!TypeOK
    BY ComponentConstants DEF ReportsInv
  <2>2. response.of = "funnel" => Reports!Complete(response.body)
    BY <2>1, FunnelComplete DEF ReportsInv
  <2>3. response.of = "breakdown" =>
          /\ Reports!Complete([e \in response.body.by_stage |-> e])
          /\ Reports!Complete([e \in response.body.by_source |-> e])
    BY <2>1, DistributionComplete DEF ReportsInv, Reports!Breakdown
  <2>4. response.of = "timeline" => Reports!SumFunction(response.body) = Reports!Cardinality(Reports!Present)
    BY <2>1, TimelineComplete, ReportSets DEF ReportsInv
  <2>5. response.of = "dashboard" =>
          /\ response.body.offer_rate <= response.body.response_rate /\ response.body.response_rate <= 10000
          /\ response.body.offers_received + response.body.rejections_received <= response.body.total_applications
    BY <2>1, RatesOrdered DEF ReportsInv
  <2> QED BY <2>2, <2>3, <2>4, <2>5 DEF ReportsAddUp, Reports!ReportsAddUp
<1> QED BY <1>1, ReportsInvariant, PTL

\* get_stage_velocity attributes the days between the first and the last
\* transition of each application to pairs of stages, and each day once.
THEOREM VelocityAttributesEachDay == StandaloneSpec => []VelocityTelescopes
<1>1. ReportsInv => VelocityTelescopes
  <2> SUFFICES ASSUME ReportsInv, response.of = "velocity" PROVE VelocityTelescopes
    BY DEF VelocityTelescopes, Reports!VelocityTelescopes
  <2>1. Reports!AnalyticsConstants /\ Reports!TypeOK /\ response.body = Reports!Velocity
    BY ComponentConstants DEF ReportsInv
  <2> DEFINE shown == [e \in Reports!Velocity |-> e.count * e.avg]
             spans == [a \in Reports!Present |-> Span(a)]
  <2>2. 2 * (Sum(shown, Reports!Velocity) - 100 * Sum(spans, Reports!Present))
          \in -Cardinality(Reports!Transitions) .. Cardinality(Reports!Transitions)
    <3>1. /\ \A e \in Reports!Velocity : shown[e] = e.count * e.avg
          /\ \A a \in Reports!Present : spans[a] = Span(a)
      OBVIOUS
    <3> HIDE DEF shown, spans
    <3> QED BY <2>1, <3>1, VelocityAddsUp
  <2>3. DOMAIN shown = Reports!Velocity /\ DOMAIN spans = Reports!Present
    OBVIOUS
  <2>4. Reports!SumFunction(shown) = Sum(shown, Reports!Velocity) /\ Reports!SumFunction(spans) = Sum(spans, Reports!Present)
    <3> HIDE DEF shown, spans
    <3> QED BY <2>3 DEF Reports!SumFunction, Sum
  <2>5. Reports!Cardinality(Reports!Transitions) = Cardinality(Reports!Transitions)
    BY <2>1, ReportSets
  <2>6. VelocityTelescopes <=>
          2 * (Reports!SumFunction(shown) - 100 * Reports!SumFunction(spans))
            \in -Reports!Cardinality(Reports!Transitions) .. Reports!Cardinality(Reports!Transitions)
    BY <2>1 DEF VelocityTelescopes, Reports!VelocityTelescopes, Span
  <2> QED BY <2>2, <2>4, <2>5, <2>6
<1> QED BY <1>1, ReportsInvariant, PTL
=============================================================================

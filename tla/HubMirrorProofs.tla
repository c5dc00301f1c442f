-------------------------- MODULE HubMirrorProofs ---------------------------
(***************************************************************************)
(* Proofs about HubMirror, for every set of hubs: pushes that list the hub *)
(* first are pushes, so that what MirrorPushProofs shows of those holds.   *)
(***************************************************************************)
EXTENDS HubMirror, MirrorPushProofs

\* A step of the listing changes nothing a push has, but for the last one,
\* which starts the push; every other step is one of MirrorPush.
LEMMA HubStepIsPushStep == [HubNext]_hubVars => [Next]_vars
<1> SUFFICES ASSUME [HubNext]_hubVars PROVE [Next]_vars
  OBVIOUS
<1>1. ASSUME NEW p \in Pushers, HubStep(p) \/ HubFails(p) PROVE [Next]_vars
  <2>1. CASE Listed(p)
    BY <2>1 DEF Listed, Next
  <2>2. CASE UNCHANGED vars
    BY <2>2
  <2> QED
    BY <1>1, <2>1, <2>2
    DEF HubStep, BeginPush, Resolve, ReadPage, TooManyPages, Refused, HubFails
<1>2. CASE Mirrors
  BY <1>2 DEF Mirrors, Work, Next
<1>3. CASE UNCHANGED hubVars
  BY <1>3 DEF hubVars
<1> QED  BY <1>1, <1>2, <1>3 DEF HubNext

\* Listing the hub first adds nothing to what a push may do to the prefix
\* (Pull calls Resolve, Tree and CheckPolicy before verifyLocal).
THEOREM HubRefinement == HubSpec => Spec
<1>1. HubInit => Init
  BY DEF HubInit
<1> QED  BY <1>1, HubStepIsPushStep, PTL DEF HubSpec, Spec

\* Whatever the hub pages, fails or refuses, a published mirror holds its bytes
\* of every file it has a hash for.
THEOREM HubMirroredTheorem == HubSpec => []HashedFilesMirrored
<1> QED  BY HubRefinement, HashedFilesMirroredTheorem, PTL

\* One push alone leaves the prefix that its manifest describes, also when it
\* lists the hub first.
THEOREM HubPushLeavesItsManifest ==
    ASSUME \A p, q \in Pushers : p = q
    PROVE  HubSpec => PushLeavesItsManifest
<1> QED  BY HubRefinement, PushLeavesItsManifestTheorem, PTL
-----------------------------------------------------------------------------
(* The listing.                                                            *)

\* The first k pages of a hub, from page 1 along the links it gives, whoever
\* reads them, and never off it:
\* at[i] is the i-th page and raw[i] what the first i hold.
Reads(h, k, at, raw) ==
    /\ at[1] = 1 /\ raw[0] = <<>>
    /\ \A i \in 1 .. k : /\ at[i] \in 1 .. Len(h.pages)
                         /\ at[i + 1] \in Leads(h, at[i]) /\ at[i + 1] # OtherHost(h)
                         /\ raw[i] = raw[i - 1] \o h.pages[at[i]]

\* The whole tree of the revision, every file once and nothing else.
Whole(tree) ==
    /\ Len(tree) = NFiles
    /\ \A f \in Files : \E i \in 1 .. Len(tree) : tree[i] = f

\* What a hub is relied on for: the pages up to the last one list the revision
\* whole, unless they list no file or one that is not approved.  A hub may
\* page it in any way, and its pages may lead elsewhere or nowhere.
Honest(h) ==
    \A k \in Nat : \A at, raw :
        /\ Reads(h, k, at, raw) /\ at[k + 1] = LastPage
        /\ TreeFiles(raw[k]) # <<>> /\ CheckPolicy(TreeFiles(raw[k]))
        => Whole(TreeFiles(raw[k]))

\* A listing that is under way has read some first pages of the hub.
ReadSoFar(p) ==
    /\ listing[p].stage # "none" => pc[p] = "idle"
    /\ listing[p].stage = "resolve" =>
           listing[p].next = 1 /\ listing[p].page = 0 /\ listing[p].raw = <<>>
    /\ listing[p].stage = "tree" =>
           \E at, raw : /\ Reads(hub, listing[p].page, at, raw)
                        /\ listing[p].next = at[listing[p].page + 1]
                        /\ listing[p].next \in 0 .. Len(hub.pages)
                        /\ listing[p].raw = raw[listing[p].page]

ListingInv == ListingOK /\ (\A p \in Pushers : ReadSoFar(p)) /\ ListedWhole

\* One more page.
LEMMA ReadsOneMore ==
    ASSUME NEW h, NEW k \in Nat, NEW at, NEW raw, Reads(h, k, at, raw),
           at[k + 1] \in 1 .. Len(h.pages), NextLink(h, at[k + 1]) # OtherHost(h),
           NextLink(h, at[k + 1]) \in Leads(h, at[k + 1])
    PROVE  \E at2, raw2 : /\ Reads(h, k + 1, at2, raw2)
                          /\ at2[k + 2] = NextLink(h, at[k + 1])
                          /\ raw2[k + 1] = raw[k] \o h.pages[at[k + 1]]
<1> DEFINE to == NextLink(h, at[k + 1])
           more == raw[k] \o h.pages[at[k + 1]]
           at2 == [i \in 1 .. k + 2 |-> IF i = k + 2 THEN to ELSE at[i]]
           raw2 == [i \in 0 .. k + 1 |-> IF i = k + 1 THEN more ELSE raw[i]]
<1> HIDE DEF to, more
<1>1. at2[k + 2] = to /\ \A i \in 1 .. k + 1 : at2[i] = at[i]
  OBVIOUS
<1>2. raw2[k + 1] = more /\ \A i \in 0 .. k : raw2[i] = raw[i]
  OBVIOUS
<1> USE DEF to, more
<1> HIDE DEF at2, raw2
<1>3. Reads(h, k + 1, at2, raw2)
  <2>1. at2[1] = 1 /\ raw2[0] = <<>>
    BY <1>1, <1>2 DEF Reads
  <2>2. ASSUME NEW i \in 1 .. k + 1
        PROVE  /\ at2[i] \in 1 .. Len(h.pages)
               /\ at2[i + 1] \in Leads(h, at2[i]) /\ at2[i + 1] # OtherHost(h)
               /\ raw2[i] = raw2[i - 1] \o h.pages[at2[i]]
    <3>1. CASE i = k + 1
      <4>1. i \in 1 .. k + 1 /\ i + 1 = k + 2 /\ i - 1 = k /\ k \in 0 .. k
        BY <3>1
      <4>2. at2[i] = at[k + 1] /\ at2[i + 1] = to /\ raw2[i] = more /\ raw2[i - 1] = raw[k]
        BY <1>1, <1>2, <3>1, <4>1, Zenon
      <4> QED  BY <4>2
    <3>2. CASE i # k + 1
      <4>1. i \in 1 .. k /\ i - 1 \in 0 .. k /\ i + 1 \in 1 .. k + 1 /\ i \in 0 .. k
        BY <3>2
      <4>2. at2[i] = at[i] /\ at2[i + 1] = at[i + 1] /\ raw2[i] = raw[i] /\ raw2[i - 1] = raw[i - 1]
        BY <1>1, <1>2, <4>1
      <4> QED  BY <4>1, <4>2 DEF Reads
    <3> QED  BY <3>1, <3>2
  <2> QED  BY <2>1, <2>2 DEF Reads
<1> QED  BY <1>1, <1>2, <1>3

\* The page that is asked for next is one of the hub's, and so is the place
\* where its link leads.
LEMMA NextPage ==
    ASSUME ListingOK, NEW at \in 1 .. Len(hub.pages)
    PROVE  /\ hub.pages[at] \in Seq(Entries)
           /\ NextLink(hub, at) # OtherHost(hub) => NextLink(hub, at) \in 0 .. Len(hub.pages)
<1>1. hub.pages \in Seq(Seq(Entries)) /\ hub.link[at] \in Seq(Lines(hub))
  BY HubAssumption DEF ListingOK
<1>2. Len(hub.pages) \in Nat
  BY <1>1
<1>3. CASE hub.link[at] = <<>> \/ hub.link[at][1].comma
  BY <1>1, <1>2, <1>3 DEF NextLink, LastPage
<1>4. CASE hub.link[at] # <<>> /\ ~hub.link[at][1].comma
  <2>1. hub.link[at][1] \in Lines(hub)
    BY <1>1, <1>4
  <2>2. hub.link[at][1].to \in {LastPage, OtherHost(hub)} \union 1 .. Len(hub.pages)
    BY <2>1 DEF Lines
  <2> QED  BY <1>1, <1>2, <1>4, <2>2 DEF NextLink, LastPage
<1> QED  BY <1>3, <1>4

\* What one push does with its listing leaves the others' alone.
LEMMA OneListing ==
    ASSUME ListingInv, NEW p \in Pushers, hub' = hub, ListingOK',
           \A q \in Pushers \ {p} : listing'[q] = listing[q] /\ pc'[q] = pc[q],
           ReadSoFar(p)', pc'[p] # "idle" => Whole(TreeFiles(listing'[p].raw))
    PROVE  ListingInv'
<1>1. \A q \in Pushers \ {p} : ReadSoFar(q)'
  BY DEF ListingInv, ReadSoFar
<1>2. \A q \in Pushers : pc'[q] # "idle" => Whole(TreeFiles(listing'[q].raw))
  BY DEF ListingInv, ListedWhole, Whole
<1>3. ListedWhole'
  BY <1>2 DEF ListedWhole, Whole
<1> QED  BY <1>1, <1>3 DEF ListingInv

\* A listing that is given up, or not begun.
LEMMA DropKeepsListingInv ==
    ASSUME ListingInv, NEW p \in Pushers, Drop(p), pc[p] = "idle", UNCHANGED <<pc, hub>>,
           misses' \in 0 .. MaxMisses
    PROVE  ListingInv'
<1>1. listing' = [listing EXCEPT ![p] = NotListing]
  BY DEF Drop
<1>2. NotListing \in [stage : {"none", "resolve", "tree"}, next : Nat, page : 0 .. MaxPages,
                      raw : Seq(Entries)]
  BY PagesAssumption DEF NotListing
<1>3. ListingOK'
  BY <1>1, <1>2 DEF ListingInv, ListingOK
<1>4. listing'[p] = NotListing /\ \A q \in Pushers \ {p} : listing'[q] = listing[q]
  BY <1>1 DEF ListingInv, ListingOK
<1>5. NotListing.stage = "none"
  BY DEF NotListing
<1>6. ReadSoFar(p)'
  BY <1>4, <1>5 DEF ReadSoFar
<1> QED  BY <1>3, <1>4, <1>6, OneListing

LEMMA ReadPageKeepsListingInv ==
    ASSUME ListingInv, \A h \in Hubs : Legible(h), NEW p \in Pushers, ReadPage(p)
    PROVE  ListingInv'
<1> DEFINE k == listing[p].page
           next == listing[p].next
<1>a. ReadSoFar(p)
  BY DEF ListingInv
<1>1. /\ listing[p].stage = "tree" /\ pc[p] = "idle" /\ k \in 0 .. MaxPages /\ k < MaxPages
      /\ next # LastPage
      /\ UNCHANGED <<pc, hub, misses>>
  BY <1>a DEF ReadPage, vars, ReadSoFar, ListingInv, ListingOK
<1>2. PICK at, raw : /\ Reads(hub, k, at, raw)
                     /\ next = at[k + 1]
                     /\ next \in 0 .. Len(hub.pages)
                     /\ listing[p].raw = raw[k]
  BY <1>a, <1>1 DEF ReadSoFar
<1>3. next \in 1 .. Len(hub.pages)
  BY <1>1, <1>2 DEF LastPage
<1>4. CASE NextLink(hub, next) = OtherHost(hub)
  <2>1. Drop(p)
    BY <1>4 DEF ReadPage
  <2> QED  BY <1>1, <2>1, DropKeepsListingInv DEF ListingInv, ListingOK
<1>5. CASE NextLink(hub, next) # OtherHost(hub)
  <2>1. listing' = [listing EXCEPT ![p].next = NextLink(hub, next), ![p].page = @ + 1,
                                   ![p].raw = @ \o hub.pages[next]]
    BY <1>5 DEF ReadPage
  <2>2. NextLink(hub, next) \in 0 .. Len(hub.pages) /\ hub.pages[next] \in Seq(Entries)
    BY <1>3, <1>5, NextPage DEF ListingInv
  <2>3. listing \in [Pushers -> [stage : {"none", "resolve", "tree"}, next : Nat,
                                 page : 0 .. MaxPages, raw : Seq(Entries)]]
    BY DEF ListingInv, ListingOK
  <2>4. /\ listing'[p] = [stage |-> "tree", next |-> NextLink(hub, next), page |-> k + 1,
                          raw |-> listing[p].raw \o hub.pages[next]]
        /\ \A q \in Pushers \ {p} : listing'[q] = listing[q]
        /\ listing' = [q \in Pushers |-> listing'[q]]
    BY <1>1, <2>1, <2>3
  <2>5. k + 1 \in 0 .. MaxPages /\ k \in Nat
    BY <1>1, PagesAssumption
  <2>6. Len(hub.pages) \in Nat
    BY HubAssumption DEF ListingInv, ListingOK
  <2>7. listing[p].raw \o hub.pages[next] \in Seq(Entries)
    BY <2>2, <2>3
  <2>8. listing'[p] \in [stage : {"none", "resolve", "tree"}, next : Nat,
                         page : 0 .. MaxPages, raw : Seq(Entries)]
    BY <2>2, <2>4, <2>5, <2>6, <2>7
  <2>9. ListingOK'
    BY <1>1, <2>3, <2>4, <2>8 DEF ListingInv, ListingOK
  <2>10. PICK at2, raw2 : /\ Reads(hub, k + 1, at2, raw2)
                          /\ at2[k + 2] = NextLink(hub, next)
                          /\ raw2[k + 1] = raw[k] \o hub.pages[next]
    <3>1. at[k + 1] = next
      BY <1>2
    <3> HIDE DEF k, next
    <3>2. Reads(hub, k, at, raw) /\ k \in Nat /\ at[k + 1] \in 1 .. Len(hub.pages)
          /\ NextLink(hub, at[k + 1]) \in Leads(hub, at[k + 1])
          /\ NextLink(hub, at[k + 1]) # OtherHost(hub)
      BY <1>2, <1>3, <1>5, <2>5, <3>1 DEF Legible, ListingInv, ListingOK
    <3>3. \E at2, raw2 : /\ Reads(hub, k + 1, at2, raw2)
                         /\ at2[k + 2] = NextLink(hub, at[k + 1])
                         /\ raw2[k + 1] = raw[k] \o hub.pages[at[k + 1]]
      BY <3>2, ReadsOneMore, Zenon
    <3> QED  BY <3>1, <3>3
  <2>11. /\ Reads(hub, listing'[p].page, at2, raw2)
         /\ listing'[p].next = at2[listing'[p].page + 1]
         /\ listing'[p].next \in 0 .. Len(hub.pages)
         /\ listing'[p].raw = raw2[listing'[p].page]
    <3> HIDE DEF k, next
    <3>1. k + 1 + 1 = k + 2
      BY <2>5
    <3>2. /\ listing'[p].page = k + 1 /\ listing'[p].next = NextLink(hub, next)
          /\ listing'[p].raw = listing[p].raw \o hub.pages[next]
      <4> DEFINE joined == listing[p].raw \o hub.pages[next]
      <4>1. listing'[p] = [stage |-> "tree", next |-> NextLink(hub, next), page |-> k + 1,
                           raw |-> joined]
        BY <2>4 DEF k, next
      <4> HIDE DEF joined
      <4>2. listing'[p].page = k + 1 /\ listing'[p].next = NextLink(hub, next)
            /\ listing'[p].raw = joined
        BY <4>1
      <4> QED  BY <4>2 DEF joined
    <3> QED  BY <1>2, <2>2, <2>10, <3>1, <3>2, Zenon
  <2>12. listing'[p].stage = "tree"
    BY <2>4
  <2>13. ReadSoFar(p)'
    BY <1>1, <2>11, <2>12 DEF ReadSoFar
  <2> QED  BY <1>1, <2>4, <2>9, <2>13, OneListing
<1> QED  BY <1>4, <1>5

\* Only a tree that was read to its last page and approved starts a push.
LEMMA ListedKeepsListingInv ==
    ASSUME ListingInv, TypeOK, \A h \in Hubs : Honest(h), NEW p \in Pushers, Listed(p)
    PROVE  ListingInv'
<1> DEFINE k == listing[p].page
<1>1. /\ listing[p].stage = "tree" /\ listing[p].next = LastPage
      /\ TreeFiles(listing[p].raw) # <<>> /\ CheckPolicy(TreeFiles(listing[p].raw))
      /\ listing' = [listing EXCEPT ![p].stage = "none"]
      /\ pc' = [pc EXCEPT ![p] = "verify"]
      /\ hub' = hub /\ misses' = misses
  BY DEF Listed, StartPush, Goto
<1>2. PICK at, raw : /\ Reads(hub, k, at, raw)
                     /\ listing[p].next = at[k + 1]
                     /\ listing[p].raw = raw[k]
  BY <1>1 DEF ListingInv, ReadSoFar
<1>3. k \in Nat /\ Honest(hub)
  BY PagesAssumption DEF ListingInv, ListingOK
<1>4. Whole(TreeFiles(listing[p].raw))
  BY <1>1, <1>2, <1>3 DEF Honest
<1>5. ListingOK' /\ listing'[p].stage = "none" /\ listing'[p].raw = listing[p].raw
      /\ \A q \in Pushers \ {p} : listing'[q] = listing[q]
  BY <1>1 DEF ListingInv, ListingOK
<1>6. \A q \in Pushers \ {p} : pc'[q] = pc[q]
  BY <1>1 DEF TypeOK
<1>7. ReadSoFar(p)'
  BY <1>5 DEF ReadSoFar
<1> QED  BY <1>1, <1>4, <1>5, <1>6, <1>7, OneListing

LEMMA BeginKeepsListingInv ==
    ASSUME ListingInv, NEW p \in Pushers, BeginPush(p) \/ Resolve(p)
    PROVE  ListingInv'
<1>1. CASE BeginPush(p)
  <2>1. /\ listing' = [listing EXCEPT ![p] = [NotListing EXCEPT !.stage = "resolve"]]
        /\ pc[p] = "idle" /\ UNCHANGED <<pc, hub, misses>>
    BY <1>1 DEF BeginPush, vars
  <2> DEFINE begun == [NotListing EXCEPT !.stage = "resolve"]
  <2>2. begun = [stage |-> "resolve", next |-> 1, page |-> 0, raw |-> <<>>]
    BY DEF NotListing
  <2> HIDE DEF begun
  <2>a. begun \in [stage : {"none", "resolve", "tree"}, next : Nat, page : 0 .. MaxPages,
                   raw : Seq(Entries)]
    BY <2>2, PagesAssumption
  <2>b. listing' = [listing EXCEPT ![p] = begun]
    BY <2>1 DEF begun
  <2>c. ListingOK' /\ listing'[p] = begun
        /\ \A q \in Pushers \ {p} : listing'[q] = listing[q]
    BY <2>1, <2>a, <2>b DEF ListingInv, ListingOK
  <2>3. ListingOK' /\ listing'[p].stage = "resolve"
        /\ \A q \in Pushers \ {p} : listing'[q] = listing[q]
    BY <2>2, <2>c
  <2>4. listing'[p].next = 1 /\ listing'[p].page = 0 /\ listing'[p].raw = <<>>
    BY <2>2, <2>c
  <2>5. ReadSoFar(p)'
    BY <2>1, <2>3, <2>4 DEF ReadSoFar
  <2> QED  BY <2>1, <2>3, <2>5, OneListing
<1>2. CASE Resolve(p)
  <2>1. /\ listing[p].stage = "resolve" /\ listing' = [listing EXCEPT ![p].stage = "tree"]
        /\ UNCHANGED <<pc, hub, misses>>
    BY <1>2 DEF Resolve, vars
  <2>2. ListingOK' /\ listing'[p].stage = "tree"
        /\ \A q \in Pushers \ {p} : listing'[q] = listing[q]
    BY <2>1 DEF ListingInv, ListingOK
  <2>3. listing[p].next = 1 /\ listing[p].page = 0 /\ listing[p].raw = <<>> /\ pc[p] = "idle"
    BY <2>1 DEF ListingInv, ReadSoFar
  <2>4. listing'[p].next = 1 /\ listing'[p].page = 0 /\ listing'[p].raw = <<>>
    BY <2>1, <2>3 DEF ListingInv, ListingOK
  <2>5. 1 \in 0 .. Len(hub.pages)
    BY HubAssumption DEF ListingInv, ListingOK
  <2> DEFINE at == [i \in {1} |-> 1]
             raw == [i \in {0} |-> <<>>]
  <2>6. Reads(hub, 0, at, raw) /\ at[1] = 1 /\ raw[0] = <<>>
    BY DEF Reads
  <2> HIDE DEF at, raw
  <2>7. ReadSoFar(p)'
    <3>1. /\ Reads(hub', listing'[p].page, at, raw)
          /\ listing'[p].next = at[listing'[p].page + 1]
          /\ listing'[p].next \in 0 .. Len(hub'.pages)
          /\ listing'[p].raw = raw[listing'[p].page]
      BY <2>1, <2>4, <2>5, <2>6
    <3> QED  BY <2>1, <2>2, <2>3, <3>1 DEF ReadSoFar
  <2> QED  BY <2>1, <2>2, <2>3, <2>7, OneListing
<1> QED  BY <1>1, <1>2

\* A push that has its tree keeps it, and one that has none is not begun by
\* anything else.
LEMMA MirrorsKeepListingInv ==
    ASSUME ListingInv, TypeOK, Mirrors
    PROVE  ListingInv'
<1>1. UNCHANGED <<hub, listing, misses>>
  BY DEF Mirrors
<1>2. \A q \in Pushers : pc[q] = "idle" => pc'[q] = "idle"
  <2>1. ASSUME NEW p \in Pushers, Work(p) \/ Abort(p) \/ \E f \in Files : HfDamages(p, f)
        PROVE  pc[p] # "idle" /\ \A q \in Pushers \ {p} : pc'[q] = pc[q]
    BY <2>1 DEF TypeOK, Work, LocalMatches, LocalDiffers, HfFetches, HfDamages, HfExits,
                SizeMatches, SizeDiffers, HashMatches, HashDiffers, Put, WriteManifest, Abort,
                NextFile, Goto
  <2>2. CASE ReadManifest \/ VerifyFile \/ \E f \in Files : Rot(f)
    BY <2>2 DEF ReadManifest, VerifyFile, Rot, pushVars
  <2> QED  BY <2>1, <2>2 DEF Mirrors
<1>3. \A q \in Pushers : ReadSoFar(q)'
  BY <1>1, <1>2 DEF ListingInv, ReadSoFar
<1>4. ListedWhole'
  BY <1>1, <1>2 DEF ListingInv, ListedWhole
<1> QED  BY <1>1, <1>3, <1>4 DEF ListingInv, ListingOK

\* However a hub pages the tree of the revision, whatever requests fail, and
\* wherever its links lead, what a push goes on with is the whole tree, as long
\* as each next page is named in the first Link header of its page and by a
\* URL without a comma (Tree, getJSONArrayPaged, nextPageURL, maxTreePages,
\* CheckPolicy).
THEOREM ListedWholeTheorem ==
    ASSUME \A h \in Hubs : Honest(h), \A h \in Hubs : Legible(h)
    PROVE  HubSpec => []ListedWhole
<1>1. HubInit => ListingInv
  <2> SUFFICES ASSUME HubInit PROVE ListingInv
    OBVIOUS
  <2>1. /\ hub \in Hubs /\ listing = [p \in Pushers |-> NotListing] /\ misses = 0
        /\ pc = [p \in Pushers |-> "idle"]
    BY DEF HubInit, Init
  <2>2. NotListing = [stage |-> "none", next |-> 1, page |-> 0, raw |-> <<>>]
    BY DEF NotListing
  <2>3. ListingOK
    BY <2>1, <2>2, PagesAssumption DEF ListingOK
  <2>4. \A p \in Pushers : ReadSoFar(p)
    BY <2>1, <2>2 DEF ReadSoFar
  <2> QED  BY <2>1, <2>3, <2>4 DEF ListingInv, ListedWhole
<1>2. TypeOK /\ ListingInv /\ [HubNext]_hubVars => ListingInv'
  <2> SUFFICES ASSUME TypeOK, ListingInv, [HubNext]_hubVars PROVE ListingInv'
    OBVIOUS
  <2>1. ASSUME NEW p \in Pushers, TooManyPages(p) \/ Refused(p) \/ HubFails(p)
        PROVE  ListingInv'
    <3>1. Drop(p) /\ listing[p].stage # "none" /\ UNCHANGED <<pc, hub>>
      BY <2>1 DEF TooManyPages, Refused, HubFails, vars
    <3>2. pc[p] = "idle"
      BY <3>1 DEF ListingInv, ReadSoFar
    <3>3. misses' \in 0 .. MaxMisses
      BY <2>1, PagesAssumption DEF TooManyPages, Refused, HubFails, ListingInv, ListingOK
    <3> QED  BY <3>1, <3>2, <3>3, DropKeepsListingInv
  <2>2. ASSUME NEW p \in Pushers, HubStep(p) PROVE ListingInv'
    BY <2>1, <2>2, BeginKeepsListingInv, ReadPageKeepsListingInv, ListedKeepsListingInv
    DEF HubStep
  <2>3. CASE UNCHANGED hubVars
    <3>1. UNCHANGED <<pc, hub, listing, misses>>
      BY <2>3 DEF hubVars, vars
    <3> QED  BY <3>1 DEF ListingInv, ListingOK, ReadSoFar, ListedWhole
  <2> QED  BY <2>1, <2>2, <2>3, MirrorsKeepListingInv DEF HubNext
<1>3. HubSpec => []TypeOK
  BY HubRefinement, TypeCorrect, PTL
<1>4. ListingInv => ListedWhole
  BY DEF ListingInv
<1> QED  BY <1>1, <1>2, <1>3, <1>4, PTL DEF HubSpec
=============================================================================

----------------------------- MODULE HubMirror -----------------------------
(***************************************************************************)
(* A push with the hub it pulls from: HFClient (internal/mirror/hf.go) and *)
(* the first half of Mirror.Pull.  Before MirrorPush's verifyLocal, every  *)
(* run resolves the revision, follows the pages of its tree and checks the *)
(* file types; only a tree read whole and approved reaches the scratch     *)
(* directory.                                                              *)
(*                                                                         *)
(* A hub is its tree pages and the Link header lines of each one: where    *)
(* the rel="next" link of the line leads, if it has one, and whether its   *)
(* URL has a comma.  An entry is a directory, a file of Files (an approved *)
(* type), or a file of a type that is not approved.                        *)
(***************************************************************************)
EXTENDS MirrorPush, Sequences

CONSTANTS
    Hubs,      \* the hubs, [pages, link]
    MaxPages,  \* maxTreePages
    MaxMisses  \* bound on the hub requests that fail in one behaviour

Directory  == 0
Unapproved == NFiles + 1
Entries    == {Directory, Unapproved} \union Files

LastPage     == 0                         \* no rel="next"
OtherHost(h) == Len(h.pages) + 1          \* a link off the configured hub
Lines(h)     == [to : {LastPage, OtherHost(h)} \union 1 .. Len(h.pages), comma : BOOLEAN]

ASSUME HubAssumption ==
    \A h \in Hubs : /\ h.pages \in Seq(Seq(Entries)) \ {<<>>}
                    /\ h.link \in [1 .. Len(h.pages) -> Seq(Lines(h))]
ASSUME PagesAssumption == MaxPages \in Nat \ {0} /\ MaxMisses \in Nat

VARIABLES
    hub,      \* the hub of this behaviour
    listing,  \* listing[p]: how far p has come, the page it asks for next,
              \* the pages it has read and the entries they held
    misses    \* hub requests that failed so far

hubVars == <<vars, hub, listing, misses>>

NotListing == [stage |-> "none", next |-> 1, page |-> 0, raw |-> <<>>]

ListingOK ==
    /\ hub \in Hubs
    /\ listing \in [Pushers -> [stage : {"none", "resolve", "tree"}, next : Nat,
                                page : 0 .. MaxPages, raw : Seq(Entries)]]
    /\ misses \in 0 .. MaxMisses

HubInit ==
    Init /\ hub \in Hubs /\ listing = [p \in Pushers |-> NotListing] /\ misses = 0

-----------------------------------------------------------------------------
\* Tree: the files of what the pages held.
TreeFiles(raw) == SelectSeq(raw, LAMBDA e : e # Directory)

\* Mutant of CheckPolicy: a deny-list that does not know the type.
CheckPolicyDeny(tree) == TRUE

\* CheckPolicy fails closed on a type that is not approved.
CheckPolicy(tree) == \A i \in 1 .. Len(tree) : tree[i] # Unapproved

\* What is read of the links of page i: Header.Get gives the first line, which
\* nextPageURL splits at its commas, those within a URL too; what is left of
\* such a link is passed over, and the page taken for the last.
NextLink(h, i) ==
    IF h.link[i] = <<>> \/ h.link[i][1].comma THEN LastPage ELSE h.link[i][1].to

Drop(p) == listing' = [listing EXCEPT ![p] = NotListing]

\* `fornax push` starts; Resolve asks for the commit of the revision.
BeginPush(p) ==
    /\ pc[p] = "idle"
    /\ listing[p].stage = "none"
    /\ listing' = [listing EXCEPT ![p] = [NotListing EXCEPT !.stage = "resolve"]]
    /\ UNCHANGED <<vars, hub, misses>>

Resolve(p) ==
    /\ listing[p].stage = "resolve"
    /\ listing' = [listing EXCEPT ![p].stage = "tree"]
    /\ UNCHANGED <<vars, hub, misses>>

\* Mutant of ReadPage: the pages are counted to the limit and the rest is
\* left out without an error.
ReadPageCut(p) ==
    /\ listing[p].stage = "tree"
    /\ listing[p].next # LastPage
    /\ listing[p].page < MaxPages
    /\ LET at == listing[p].next
           to == IF listing[p].page + 1 = MaxPages THEN LastPage ELSE NextLink(hub, at)
       IN IF to = OtherHost(hub)
          THEN Drop(p)
          ELSE listing' = [listing EXCEPT ![p].next = to, ![p].page = @ + 1,
                                          ![p].raw = @ \o hub.pages[at]]
    /\ UNCHANGED <<vars, hub, misses>>

\* Mutant of ReadPage: a link off the hub ends the list.
ReadPageQuiet(p) ==
    /\ listing[p].stage = "tree"
    /\ listing[p].next # LastPage
    /\ listing[p].page < MaxPages
    /\ LET at == listing[p].next
           to == NextLink(hub, at)
       IN listing' = [listing EXCEPT ![p].next = IF to = OtherHost(hub) THEN LastPage ELSE to,
                                     ![p].page = @ + 1,
                                     ![p].raw = @ \o hub.pages[at]]
    /\ UNCHANGED <<vars, hub, misses>>

\* One page of the tree: its entries are appended and its rel="next" link is
\* followed, an error if it leads off the hub.
ReadPage(p) ==
    /\ listing[p].stage = "tree"
    /\ listing[p].next # LastPage
    /\ listing[p].page < MaxPages
    /\ LET at == listing[p].next
           to == NextLink(hub, at)
       IN IF to = OtherHost(hub)
          THEN Drop(p)
          ELSE listing' = [listing EXCEPT ![p].next = to, ![p].page = @ + 1,
                                          ![p].raw = @ \o hub.pages[at]]
    /\ UNCHANGED <<vars, hub, misses>>

\* "too many pages": a chain that is longer, or has no end, is an error.
TooManyPages(p) ==
    /\ listing[p].stage = "tree"
    /\ listing[p].next # LastPage
    /\ listing[p].page = MaxPages
    /\ Drop(p)
    /\ UNCHANGED <<vars, hub, misses>>

\* A request fails, is answered with another status or with something that
\* cannot be decoded (no sha, no array), or the process dies.
HubFails(p) ==
    /\ listing[p].stage # "none"
    /\ misses < MaxMisses
    /\ misses' = misses + 1
    /\ Drop(p)
    /\ UNCHANGED <<vars, hub>>

\* The tree is whole: Pull goes on to verifyLocal with it ...
Listed(p) ==
    /\ listing[p].stage = "tree"
    /\ listing[p].next = LastPage
    /\ TreeFiles(listing[p].raw) # <<>>
    /\ CheckPolicy(TreeFiles(listing[p].raw))
    /\ StartPush(p)
    /\ listing' = [listing EXCEPT ![p].stage = "none"]
    /\ UNCHANGED <<hub, misses>>

\* ... or refuses it: it is empty, or the policy forbids it.
Refused(p) ==
    /\ listing[p].stage = "tree"
    /\ listing[p].next = LastPage
    /\ TreeFiles(listing[p].raw) = <<>> \/ ~CheckPolicy(TreeFiles(listing[p].raw))
    /\ Drop(p)
    /\ UNCHANGED <<vars, hub, misses>>

HubStep(p) ==
    \/ BeginPush(p) \/ Resolve(p) \/ ReadPage(p) \/ TooManyPages(p)
    \/ Listed(p) \/ Refused(p)

\* What MirrorPush does once a push has its tree, and everyone else.
Mirrors ==
    /\ \/ \E p \in Pushers : Work(p) \/ Abort(p) \/ \E f \in Files : HfDamages(p, f)
       \/ ReadManifest
       \/ VerifyFile
       \/ \E f \in Files : Rot(f)
    /\ UNCHANGED <<hub, listing, misses>>

HubNext ==
    \/ \E p \in Pushers : HubStep(p) \/ HubFails(p)
    \/ Mirrors

HubSpec == HubInit /\ [][HubNext]_hubVars

\* As FairSpec: a command that runs keeps going, and is run again.
FairHubSpec ==
    HubSpec /\ \A p \in Pushers :
        WF_hubVars(HubStep(p) \/ (Work(p) /\ UNCHANGED <<hub, listing, misses>>))

-----------------------------------------------------------------------------
\* What a push verifies, downloads, uploads and lists in its manifest is the
\* whole tree of the revision, every file once and all of them approved,
\* however the hub pages it, fails, or leads in circles: "a partial tree would
\* propagate into the manifest and make verify pass on an incomplete mirror"
\* (Tree, getJSONArrayPaged, nextPageURL, CheckPolicy).  It holds of hubs that
\* are Legible; what becomes of a tree that was cut short is not followed on.
ListedWhole ==
    \A p \in Pushers : pc[p] # "idle" =>
        LET tree == TreeFiles(listing[p].raw) IN
        /\ Len(tree) = NFiles
        /\ \A f \in Files : \E i \in 1 .. Len(tree) : tree[i] = f

\* Where the hub says that page i goes on, in whichever of its Link headers.
Leads(h, i) ==
    LET next == {h.link[i][j].to : j \in 1 .. Len(h.link[i])} \ {LastPage}
    IN IF next = {} THEN {LastPage} ELSE next

\* Every next page is named in the first Link header of its page, by a URL
\* without a comma.
Legible(h) == \A i \in 1 .. Len(h.pages) : NextLink(h, i) \in Leads(h, i)

\* Where the links of a hub lead, page after page.
Chain(h) ==
    LET at[k \in 1 .. MaxPages + 1] ==
          IF k = 1 THEN 1
          ELSE IF at[k - 1] \in DOMAIN h.link THEN NextLink(h, at[k - 1]) ELSE at[k - 1]
    IN at

\* The hub lists the revision, in few enough pages, and has nothing else.
Usable(h) ==
    /\ Legible(h)
    /\ Chain(h)[MaxPages + 1] = LastPage
    /\ \A f \in Files : \E i \in DOMAIN h.pages : \E j \in DOMAIN h.pages[i] : h.pages[i][j] = f
    /\ \A i \in DOMAIN h.pages : \A j \in DOMAIN h.pages[i] : h.pages[i][j] # Unapproved

\* A hub that lists the revision is enough for the mirror to be complete and
\* repaired in the end, whatever failed on the way (Pull, Push).
MirroredInTheEnd == Usable(hub) => Repaired
=============================================================================

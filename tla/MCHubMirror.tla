---------------------------- MODULE MCHubMirror ----------------------------
(***************************************************************************)
(* Small instances of HubMirror: two files on hubs that page them well and *)
(* badly.                                                                  *)
(***************************************************************************)
EXTENDS HubMirror

CONSTANTS p1

NoLink   == <<>>
To(i)    == <<[to |-> i, comma |-> FALSE]>>

\* The next page has a comma in its URL.
Comma(i) == <<[to |-> i, comma |-> TRUE]>>

\* Another Link header, without a next page.
Also == <<[to |-> LastPage, comma |-> FALSE]>>

HubSet ==
    {[pages |-> << <<1, 2>> >>, link |-> <<NoLink>>],                  \* one page
     [pages |-> << <<Directory, 1>>, <<2>> >>,                         \* two, with a directory
      link |-> <<To(2) \o Also, Also>>],
     [pages |-> << <<1>>, <<2>> >>, link |-> <<To(3), NoLink>>],       \* the next page is elsewhere
     [pages |-> << <<1>>, <<2>> >>, link |-> <<To(2), To(1)>>],        \* a cycle
     [pages |-> << <<1>>, <<Directory>>, <<2>> >>,                     \* too many pages
      link |-> <<To(2), To(3), NoLink>>],
     [pages |-> << <<1>>, <<2, Unapproved>> >>,                        \* a pickle
      link |-> <<To(2), NoLink>>],
     [pages |-> << <<Directory>> >>, link |-> <<NoLink>>],             \* no file
     [pages |-> << <<Directory>>, <<1, 2>> >>,                         \* all of them cut off
      link |-> <<Comma(2), NoLink>>],
     [pages |-> << <<1, 2>>, <<Directory>> >>,                         \* none of them cut off
      link |-> <<Comma(2), NoLink>>]}

=============================================================================

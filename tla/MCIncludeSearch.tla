-------------------------- MODULE MCIncludeSearch --------------------------
(***************************************************************************)
(* Directories of headers in two lists, among them one with wgtcc.h and    *)
(* one below another of the list, the directory of the source, and a       *)
(* header of one name in any of them.                                      *)
(***************************************************************************)
EXTENDS IncludeRefinement

MCComponents == {".", "/", "p", "q", "s", "w", "a.h", "t.c", "wgtcc.h"}
MCMain == <<"t.c">>
MCWgtccHeader == <<"wgtcc.h">>
MCHeaderNames == {<<"a.h">>, <<"s", "a.h">>, <<"/", "q", "a.h">>}

\* -I p -I /q, and -I p/s -I /q -I p.
Headers == AddSearchPath(<<>>, <<"w">>)
MCPathLists ==
  {AddSearchPath(AddSearchPath(Headers, <<"/", "q">>), <<"p">>),
   AddSearchPath(AddSearchPath(AddSearchPath(Headers, <<"p">>), <<"/", "q">>), <<"p", "s">>)}

MCDisks ==
  {{<<"t.c">>, <<"w", "wgtcc.h">>} \cup some :
    some \in SUBSET {<<"a.h">>, <<"p", "a.h">>, <<"/", "q", "a.h">>, <<"/", "q", "s", "a.h">>,
                      <<"p", "s", "a.h">>}}
=============================================================================

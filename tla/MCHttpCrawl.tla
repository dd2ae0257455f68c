----------------------------- MODULE MCHttpCrawl -----------------------------
(***************************************************************************)
(* Sites for HttpCrawl.  In the first, source redirects to home; home      *)
(* needs a stylesheet and, at first, links to a page and to another site;  *)
(* later it is a plain listing.  The stylesheet needs an out-of-scope      *)
(* page, then redirects to it.  The page links back, then is gone.  In the *)
(* second, page lies in a subdirectory and links to something outside it.  *)
(***************************************************************************)
EXTENDS HttpCrawl

CONSTANTS source, home, page, style, other

On(kind, ls, rs) == [kind |-> kind, links |-> ls, reqs |-> rs]

MCSite == [u \in Url |->
  CASE u = source -> <<On("redirect", {home}, {})>>
    [] u = home   -> <<On("html", {page, other}, {style}), On("listing", {page}, {})>>
    [] u = page   -> <<On("html", {home}, {}), On("gone", {}, {})>>
    [] u = style  -> <<On("css", {}, {other}), On("redirect", {other}, {})>>
    [] u = other  -> <<On("html", {source}, {source})>>]

MCScope == [u \in Url |-> {home, page, u}]

MCNested == [u \in Url |->
  CASE u = home  -> <<On("html", {page}, {})>>
    [] u = page  -> <<On("html", {other}, {})>>
    [] u = other -> <<On("file", {}, {})>>]

MCNestedScope == [u \in Url |-> IF u = home THEN Url ELSE {u}]
=============================================================================

-------------------------- MODULE MCAsyncExtension --------------------------
(***************************************************************************)
(* Small instances of AsyncExtension for TLC.                              *)
(***************************************************************************)
EXTENDS AsyncExtension, TLC

CONSTANTS c1, c2, c3, p1, p2

OneContext == {c1}
TwoContexts == {c1, c2}
ThreeContexts == {c1, c2, c3}
ContextSymmetry == Permutations(Contexts)
OnePlugin == {p1}
TwoPlugins == {p1, p2}

NoCalls == {}
\* Calls Async_CurlSetGlobalInt(request, option, value).  Requests and options
\* are all among 6, 7 and 8, which libcurl knows as multi options that take a
\* number (MAXCONNECTS, MAX_HOST_CONNECTIONS, MAX_PIPELINE_LENGTH), so that no
\* curl_multi_setopt is refused.
TwoCalls == {<<6, 7, 20>>, <<6, 8, 40>>}
OneCall == {<<6, 7, 20>>}
=============================================================================

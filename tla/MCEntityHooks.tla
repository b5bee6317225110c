----------------------------- MODULE MCEntityHooks -----------------------------
(* EntityHooks with two processes, of which one may stop, and three versions *)
(* of the site: the second drops a handler, the third changes the profile.   *)
EXTENDS EntityHooks

CONSTANTS p1, p2, e1, h1, h2, shop, blog

MCHandles == <<{h1, h2}, {h1}, {h1, h2}>>
MCProfile == <<shop, shop, blog>>
================================================================================

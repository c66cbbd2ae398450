---------------------------- MODULE MCConfigGuard ----------------------------
(***************************************************************************)
(* An NTAG213, its user memory up to page 39 and its configuration from    *)
(* page 41, and a few commands of each sort, proper and improper.          *)
(***************************************************************************)
EXTENDS ConfigGuard

From(c, accepts) ==
    {[field \in DOMAIN c \cup {"via", "accept"} |->
        CASE field = "via" -> v [] field = "accept" -> a [] OTHER -> c[field]] :
        v \in {"cli", "web"}, a \in accepts}

Set(auth0, on) == [cmd |-> "set", auth0 |-> auth0, on |-> on]
Mirror(content, page, byte) == [cmd |-> "mirror", mode |-> content, page |-> page, byte |-> byte]

(* Byte 6 of page 35 is the last place a UID fits at, and is cut to byte 2, *)
(* which the command line asks for; byte -100 of page 60 fits too and is    *)
(* cut to byte 0 of page 60, behind the chip's memory.                      *)
SomeCommands ==
         UNION {From(c, BOOLEAN) : c \in {Set(4, TRUE), Set(255, FALSE), [cmd |-> "disable"]}}
    \cup UNION {From(c, {FALSE}) : c \in {Set(256, FALSE), Set(-1, FALSE)}}
    \cup UNION {From(c, {FALSE}) : c \in {Mirror("uid", 3, 0), Mirror("uid", 36, 3),
                                          Mirror("off", 4, 0)}}
    \cup {c \in From(Mirror("uid", 35, 2), {FALSE}) : c.via = "cli"}
    \cup {c \in UNION {From(m, {FALSE}) : m \in {Mirror("uid", 35, 6), Mirror("uid", 60, -100)}} :
               c.via = "web"}
    \cup From([cmd |-> "counter", on |-> TRUE], BOOLEAN)

Plain == NoWant

(* As it leaves the factory, with attempts limited, and frozen. *)
SomeConfigs == {Plain, [Plain EXCEPT !.authlim = TRUE], [Plain EXCEPT !.cfglck = TRUE]}

(* A password set from the first configuration page on. *)
OnConfigPages == From(Set(41, FALSE), {FALSE})
PlainConfigs  == {Plain}
===============================================================================

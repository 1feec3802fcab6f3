---------------------------- MODULE WriteShapes ----------------------------
(***************************************************************************)
(* diagnose_write of BitmainHttpBackend: which shape of the configuration  *)
(* document does the web page of a miner take?  Each shape is posted with  *)
(* the mode to sleep in and the configuration is read again; the first one *)
(* that changed the mode is the answer, and is used to put the mode back.  *)
(*                                                                         *)
(* A configuration is its power mode, the JSON type the mode has, and what *)
(* stands in the fields that are null; the rest of it is echoed.           *)
(***************************************************************************)
EXTENDS Integers, Sequences

VARIABLES
    page,     \* the firmware behind the web page, one of WebPages
    conf,     \* its configuration
    pending,  \* a write it has accepted and does not show yet, or NoWrite
    search,   \* the diagnosis: where it stands, the shape it tries, what it read
    unsure    \* history: a write landed that was not seen to, or late

shapeVars == <<page, conf, pending, search, unsure>>

\* WRITE_VARIANTS: the encoding, the type the mode is coerced to, what is sent
\* for a null, and whether the mode is written under the browser's name.
Variant(encoding, type, nulls, alias) ==
    [encoding |-> encoding, type |-> type, nulls |-> nulls, alias |-> alias]

WriteVariants == <<
    Variant("json", "as read", "null", FALSE),
    Variant("json", "int",     "null", FALSE),
    Variant("json", "string",  "null", FALSE),
    Variant("json", "as read", "",     FALSE),
    Variant("text", "as read", "0",    TRUE),
    Variant("text", "as read", "null", TRUE),
    Variant("json", "as read", "0",    TRUE),
    Variant("form", "string",  "",     FALSE) >>

Conf(mode, type, nulls) == [mode |-> mode, type |-> type, nulls |-> nulls]

\* What a firmware may insist on: the name of the field, where its two names
\* differ, the type of the mode, no nulls, an encoding.  It shows the mode as a
\* string, as a number or as it was written, and may keep the other fields of a
\* document whose mode it ignores.
WebPages == [name : {"one name", "either", "browser's"}, type : {"any", "string", "int", "none"},
             nulls : BOOLEAN, encoding : {"any", "json", "text", "form"},
             shows : {"string", "int", "as written"}, keeps : BOOLEAN]

NoWrite == [none |-> TRUE]

-----------------------------------------------------------------------------
(* _write_doc and _encode_conf                                             *)

\* A field of one name has no alias, and under an alias the mode is a number.
Aliased(v) == v.alias /\ page.name # "one name"

TypeSent(v, doc) == IF Aliased(v) THEN "int"
                    ELSE IF v.encoding = "form" THEN "string"
                    ELSE IF v.alias \/ v.type = "as read" THEN doc.type ELSE v.type

\* The document of a shape, made of what was read; `coerced` is whether the
\* type of the variant is imposed on the mode, or the one that was read is kept.
Document(v, doc, mode, coerced) ==
    [mode |-> mode, alias |-> Aliased(v), encoding |-> v.encoding,
     type  |-> TypeSent(IF coerced THEN v ELSE [v EXCEPT !.type = "as read"], doc),
     nulls |-> IF doc.nulls = "null" THEN v.nulls ELSE doc.nulls]

-----------------------------------------------------------------------------
(* The firmware.                                                           *)

Takes(d) == /\ page.name = "browser's" => d.alias
            /\ page.type \in {"any", d.type}
            /\ page.nulls \/ d.nulls # "null"
            /\ page.encoding \in {"any", d.encoding}

After(d) ==
    IF Takes(d) THEN Conf(d.mode, IF page.shows = "as written" THEN d.type ELSE page.shows, d.nulls)
    ELSE IF page.keeps THEN [conf EXCEPT !.nulls = d.nulls] ELSE conf

\* set_miner_conf.cgi: the write is applied, or it is accepted and shows late.
Lands(d) == \/ conf' = After(d) /\ UNCHANGED pending
            \/ Takes(d) /\ pending = NoWrite /\ pending' = d /\ UNCHANGED conf

Ignored == UNCHANGED <<conf, pending>>

Shows == /\ pending # NoWrite /\ pending' = NoWrite
         /\ conf' = After(pending) /\ unsure' = TRUE /\ UNCHANGED <<page, search>>

-----------------------------------------------------------------------------
(* _diagnose_blocking                                                      *)

ShapesInit ==
    /\ page \in WebPages /\ pending = NoWrite /\ unsure = FALSE
    /\ \E mode \in {"normal", "sleep"}, type \in {"string", "int"} :
          /\ page.shows \in {"as written", type}
          /\ conf = Conf(mode, type, "null")
    /\ search = [pc |-> "begin", shape |-> 1, original |-> conf]

Stands(pc)   == search.pc = pc
Turns(pc) == search' = [search EXCEPT !.pc = pc]

ReadOriginal ==
    /\ Stands("begin") /\ (Turns("unread") \/ search' = [search EXCEPT !.pc = "post", !.original = conf])
    /\ UNCHANGED <<page, conf, pending, unsure>>

NextShape == IF search.shape = Len(WriteVariants) THEN Turns("none works")
             ELSE search' = [search EXCEPT !.pc = "post", !.shape = @ + 1]

Tried(n) == Document(WriteVariants[n], search.original, "sleep", TRUE)

\* The write is accepted, whether it is honoured or not; it fails, which does
\* not prove that it did not land; or its reply breaks off, which raises.
PostShape ==
    LET d == Tried(search.shape)
    IN  /\ Stands("post") /\ UNCHANGED page
        /\ \/ Lands(d) /\ Turns("reread") /\ UNCHANGED unsure
           \/ Ignored /\ NextShape /\ unsure' = (unsure \/ Takes(d))
           \/ Lands(d) /\ (NextShape \/ Turns("raised"))
              /\ unsure' = (unsure \/ Takes(d) \/ After(d) # conf)

\* Mutant: an accepted write is proof.
Trusted == TRUE

TookEffect == conf.mode = "sleep"

Reread ==
    /\ Stands("reread") /\ UNCHANGED <<page, conf, pending>>
    /\ \/ NextShape /\ unsure' = (unsure \/ Takes(Tried(search.shape)) \/ conf # search.original)
       \/ /\ IF TookEffect THEN Turns("restore")
             ELSE IF conf.nulls # search.original.nulls THEN Turns("stopped")
             ELSE NextShape
          /\ UNCHANGED unsure

\* The shape that worked is used to write `normal`, with the type the mode has
\* now; nobody looks at what became of it.
Restore ==
    LET d == Document(WriteVariants[search.shape], conf, "normal", FALSE)
    IN  /\ Stands("restore") /\ Turns("works") /\ UNCHANGED page
        /\ \/ Lands(d) /\ UNCHANGED unsure
           \/ Ignored /\ unsure' = TRUE

ShapesNext == ReadOriginal \/ PostShape \/ Reread \/ Restore \/ Shows

ShapesSpec == ShapesInit /\ [][ShapesNext]_shapeVars

-----------------------------------------------------------------------------
Certain == ~unsure /\ pending = NoWrite

\* Why it is safe to try them all: unless a write landed unseen or late, the
\* shape that is reported for a miner that was running is the first its firmware
\* takes; if none is reported the firmware takes none; and one that did not take
\* has changed nothing, or the search stopped there.
ShapesAreProven ==
    Certain =>
        /\ Stands("works") /\ search.original.mode = "normal" =>
              /\ Takes(Tried(search.shape))
              /\ \A n \in 1..search.shape - 1 : ~Takes(Tried(n))
        /\ Stands("none works") => \A n \in 1..Len(WriteVariants) : ~Takes(Tried(n))
        /\ search.pc \in {"post", "none works"} => conf = search.original

\* "The original value is restored at the end."
OriginalIsRestored ==
    Stands("works") /\ Certain => conf.mode = search.original.mode
=============================================================================

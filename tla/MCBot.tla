------------------------------- MODULE MCBot -------------------------------
(* An instance of Bot small enough for TLC. *)
EXTENDS Bot, MCDigest, MCIrcHold

\* The add path: as it was for AddPath alone.
CONSTANTS irc, chat, show, film, tag, free, anyShow, anyFilm, goodTag

TheHits == {<<anyShow, show>>, <<anyFilm, film>>, <<goodTag, free>>}

\* A show with and without its tag, and a film.
TheAnnounces ==
    {[name |-> show, has |-> {tag}, values |-> [f \in {tag} |-> {free}]],
     [name |-> show, has |-> {}, values |-> [f \in {tag} |-> {}]],
     [name |-> film, has |-> {}, values |-> [f \in {tag} |-> {}]]}

Good == [field |-> tag, matches |-> goodTag, rejects |-> NoPattern]
Bad  == [field |-> tag, matches |-> NoPattern, rejects |-> goodTag]

\* Shows, but nothing without a tag; shows tagged or not and no film, though
\* films would match; films, and shows by a rule of their own.
TheConfigs ==
    {[watch |-> {[regex |-> anyShow, require |-> {}, filters |-> {}]},
      reject |-> {}, require |-> {tag}, filters |-> {Good}],
     [watch |-> {[regex |-> anyShow, require |-> {}, filters |-> {Bad}],
                 [regex |-> anyFilm, require |-> {}, filters |-> {}]},
      reject |-> {anyFilm}, require |-> {tag}, filters |-> {}],
     [watch |-> {[regex |-> anyFilm, require |-> {}, filters |-> {}]},
      reject |-> {}, require |-> {}, filters |-> {Good}]}

\* Replies: nothing to list, two entries, one too long for any message, many.
TheLibraries == {<<>>, <<20, 2, 2>>, <<7, 7, 7, 7, 7>>}
TheWords ==
    Shorts \cup {"addtorrent", "torrentlist", "listwatch", "help", "cancel", "testnotify",
                 "addtowatchlist", "removewatch", "unheard of"}

\* Telegram: a short list and one that takes more messages than it may.
TheListings == {<<3, 3>>, <<7, 7, 7, 7, 7>>}

\* Options: sound ones, others as sound that differ, and one for each complaint.
Sound ==
    [readable |-> TRUE, patterns |-> TRUE, filters |-> TRUE,
     declared |-> {"name", "id", "tags"}, captures |-> {"tags"}, rules |-> {"tags"},
     entries |-> {}, templates |-> {"tags"}, clients |-> TRUE,
     platform |-> [template |-> "sound", url |-> {"id", "tags", "key", "file"},
                   rssKey |-> TRUE, torrentDir |-> TRUE],
     summaryAt |-> TRUE, owner |-> "owner"]
Renamed ==
    [Sound EXCEPT !.declared = {"name", "id", "group"}, !.captures = {"group"},
                  !.rules = {}, !.templates = {}, !.platform.url = {"id", "group"}]
TheFiles ==
    {Sound, Renamed, [Sound EXCEPT !.owner = "nobody"], [Sound EXCEPT !.readable = FALSE],
     [Sound EXCEPT !.declared = {"name", "id"}, !.captures = {}, !.rules = {}, !.templates = {}],
     [Sound EXCEPT !.entries = {"group"}], [Sound EXCEPT !.clients = FALSE]}

\* Announcing: what a group may capture, two characters at most but for dots.
TheValues == SeqOf({"x", ".", "/", ",", " "}, 2) \cup {<<".", ".", "x">>, <<"x", ",", "x">>}
LOCAL Fld(name)  == [field |-> name]
LOCAL Lit(text) == [literal |-> text]
TheTemplates ==
    {<<<<Lit(<<"x">>)>>, <<Fld("id")>>, <<Fld("key")>>, <<Fld("file")>>>>,
     <<<<Fld("name"), Lit(<<".">>)>>, <<Lit(<<"x">>), Fld("tags")>>, <<Fld("id")>>>>,
     <<<<Fld("name")>>, <<Fld("tags")>>>>}
=============================================================================

--------------------------- MODULE MCSelinuxLabel ---------------------------
EXTENDS SelinuxLabel

\* No options; one label for all files; labels of the superblock and the root; a
\* default label, which only some file systems accept.
MCOpts == {NoOpts, Opt(NoSid, "a", NoSid, NoSid), Opt("b", "a", "b", NoSid),
           Opt("a", NoSid, "b", NoSid), Opt(NoSid, NoSid, NoSid, "b")}
=============================================================================

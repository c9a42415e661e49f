----------------------------- MODULE MCLogConf -----------------------------
(* Model checking of LogConf on a few documents.                           *)
EXTENDS LogConf

Texts == {"debug", "INFO", "error", "loud"}

CONSTANTS t1, t2, root, sys, web, None_, std, mine, broken, log1, log2

Sink(type, file, fmt) == [type |-> type, file |-> file, level |-> "error", formatter |-> fmt]
Logs(name, level, fmt, sinks) ==
  [name |-> name, level |-> level, formatter |-> fmt, appenders |-> sinks]

ToFile(file) == Sink("file", file, None_)
Stdout       == Sink("stdout", None_, None_)

BothTo == Logs(web, "INFO", mine, <<Stdout, ToFile(log2)>>)
Filed  == Logs(sys, "INFO", mine, <<ToFile(log2), Sink("file", log1, std)>>)

\* Two loggers appear; one is changed while the other goes or stays as it is;
\* one comes back with a level that is none, patterns that do not parse and
\* appenders that are left out; a name occurs twice; root is configured, as in bin/conf/log.yaml, and
\* later is not; a node has no name.
Documents == {
  <<Logs(sys, "debug", None_, <<ToFile(log1), Stdout>>), BothTo>>,
  <<Filed>>,
  <<BothTo, Filed>>,
  <<Filed, Logs(root, "INFO", None_, <<ToFile(log1), Stdout>>)>>,
  <<Logs(web, "loud", broken, <<ToFile(None_), Sink("stdout", None_, broken), Sink("other", None_, None_),
                           Sink(None_, None_, None_), ToFile(log1)>>),
    Logs(web, "INFO", mine, <<Stdout>>)>>,
  <<Logs(web, "INFO", mine, << >>), Logs(None_, "debug", None_, << >>)>>}

\* web's appenders change and nothing else of it does.
SameButAppenders == {
  <<Logs(sys, "debug", None_, <<Stdout>>), Logs(web, "debug", None_, <<ToFile(log1)>>)>>,
  <<Logs(sys, "INFO", None_, <<Stdout>>), Logs(web, "debug", None_, <<ToFile(log2)>>)>>}
=============================================================================

-------------------------- MODULE MCRequestParser --------------------------
\* Lines of up to four tokens: two limits' worth of flags, repeated names
\* among them, and a target before, between or after them.
EXTENDS RequestParser

MCFlagNames == {"W", "plan", "long"}
MCFlagValues == {"1"}
MCTargetNames == {"alice"}
=============================================================================

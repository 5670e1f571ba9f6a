---------------------------- MODULE MCRawCapture ----------------------------
EXTENDS RawCapture
=============================================================================

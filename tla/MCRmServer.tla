------------------------------ MODULE MCRmServer ------------------------------
EXTENDS RmServer
===============================================================================

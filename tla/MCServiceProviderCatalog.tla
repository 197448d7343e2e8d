------------------------ MODULE MCServiceProviderCatalog ------------------------
EXTENDS ServiceProviderCatalog

\* The servers list one service provider each, "sp_single"; the class takes any number.
CONSTANTS sp_single, second
McInfos == <<sp_single, second>>
===============================================================================

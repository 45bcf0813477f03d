------------------------------ MODULE MCClaim -------------------------------
\* Model-checking instance of Claim: every kind, and two software channels or
\* two system groups of one label.
EXTENDS Claim

MCKinds == {"SoftwareChannel", "Repository", "ActivationKey", "SystemGroup",
            "ConfigurationChannel", "CustomInfoKey", "MaintenanceCalendar",
            "MaintenanceSchedule", "AutoinstallDistribution", "ManagedProfile",
            "ImportedProfile", "ExternalProfile", "ImageStore"}

============================================================================
